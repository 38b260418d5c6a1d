# A TLA+ verification of flux

flux copies files and file trees. It holds a lock on the destination, keeps
the state of the operation beside it so that an interrupted copy can be
resumed, publishes every file by rename, logs checkpoints of large files, and
can clean up after operations that died. This directory holds TLA+ modules that
model the parts of flux where interleavings, crashes, retries and limits decide
correctness, TLC configurations that check them on small instances, and TLAPS
proofs of the central results for every value of the constants.

`PROJECT.json` maps every definition to the source lines it translates and
lists the components, the runs, the hazards, the theorems, and for each property
a faulty variant of one definition that the property notices. Those variants
stand before the definition they vary and carry its name with an ending, marked
"mutant"; no action uses them.

Paths below are relative to `src/crates/flux-core/src/` unless they name
another crate.

## The system and its parts

```
            flux-cli                 reports, exit codes (not modelled)
                |
   run/session.rs  run/mod.rs        one run of an operation        Operation
     |        |         |                                           StateRecord, Workspace
  lock/   state.rs   tree.rs ------- frames, batches, links         TreeFrames, Publication, HardLinks
 DestLock              |    \
                    copy.rs   walk.rs, select.rs, spill.rs          CopyFile, Walk, Select, Spill
                    |     \
      checkpoint/ wal/    sync_staged_many                          HashWorker, CheckpointLog, SyncBarrier
                                names.rs index.rs store.rs scratch.rs
                                NameIndex, FamilyIndex, FamilyRuns, IndexBuild, Store, Scratch
```

The lock is the base of everything else: every change of the destination is
guarded by it, so the operation's lifecycle, publication and cleanup may be
modelled as the steps of one owner at a time, with crashes and with a lock that
is lost. `LockService` states exactly that guarantee and `DestLock` is shown to
implement it. The other modules cut the system where the code has an interface:
what a component may assume of its neighbour is an outcome (a call that succeeds
or fails, a file's copy that ends in one of its answers), and the neighbour's
module shows which outcomes there are.

| Module | Models | State |
|---|---|---|
| `LockService` | the promise of the lock | who has the destination, who last wrote it |
| `DestLock` | `lock/` | the lock file, moved-aside files, their contents and OS-native locks; per run its call, handles and what it read |
| `Operation` | `run/session.rs`, `run/mod.rs`, `run/place.rs`, `run/restart.rs`, `cleanup/` | what each operation has on disk, the lock's record, per run its step, knowledge and outcome |
| `Workspace` | `state.rs`, `run/place.rs`: the control directories call by call | directories as seen and as flushed, the script of calls of the run |
| `StateRecord` | `state.rs`, `run/resume.rs` and the writers of the record | the record's keys, the run, what was written and asked |
| `StateText` | the texts of paths and identities in a record | one text |
| `CopyFile` | `stage_file` and `copy_file_checkpointed` of `copy.rs` | source, directory, lock, log, the copy's step |
| `SyncBarrier` | `sync_staged_many` of `copy.rs` | shared counter, threads, channel, slots, clock, beats |
| `Publication` | batches of `tree.rs`, both `claims.rs`, `run/recover.rs` | entries, temporaries, notes, claims, the run, its answers |
| `TreeFrames` | `copy_roots_at`, `copy_tree_frames`, `walk_into`, `enter_dir`, drain of `tree.rs` | frames, visited entries, answers, statuses |
| `HardLinks` | `hardlinks.rs`, `link_member`, `link_one` | slot of a group, entries, objects, claims, notes |
| `FileRecords` | the promise of a file's sink to the log | the messages of a file |
| `HashWorker` | `checkpoint/sink.rs`, `checkpoint/worker.rs` | the copy, the worker, the log thread, queue, buffers, channel |
| `CheckpointLog` | `wal/`, `checkpoint/decide.rs`, and their use in `copy.rs` | source, partials, log segment, channel, writer thread, generation |
| `Walk` | `walk.rs` | the tree, the stack of frames, what was yielded |
| `Select` | flux-fs `select.rs` | pattern, path, positions and backtrack points |
| `Spill` | `spill.rs` and the listing of `walk.rs` | runs, region, merger, reader |
| `Verify` | `verify.rs` | both trees, both walks, records, counts |
| `NameIndex` | `names.rs`, rows of `store.rs` | the directory, three indexes of it, the pending resolve |
| `FamilyRuns`, `FamilyIndex` | `index.rs`: sorting and packing a family, lookups in it | runs and files; frames and levels |
| `IndexBuild` | `build_two` of `index.rs` | worker threads, signals, results, stop flag, poison |
| `Scratch` | `scratch.rs` | lanes, regions, block cache, poison |
| `Store` | `store.rs` | rows, transaction, pending job, poison |
| `DirContract` | the promise of `DirHandle`, `FileHandle`, `LockFile` (flux-fs `fs.rs`, `lock.rs`) | objects, entries, handles |
| `FaultFs` | `fault_fs.rs`, the file system the engine is tested against | its maps and handles |
| `MC...` | the instances for TLC | |
| `...Proofs`, `OperationLemmas` | the theorems | |

### Conventions

One action is one call that changes shared state and the private computation
after it, so a process may die and another may step between any two calls. The
guard of an action is the code's condition; a call that may fail has a failing
disjunct, bounded by a budget (`MaxFaults`, `Faults`). Contents are abstracted to
what the properties tell apart: a digest is the content it is of, a record is
the run that wrote it, a time stamp a counter. `None` is an absent value. A run
of TLC checks several components, each on variables of its own: `scenario` is
chosen once, and the variables of the others keep one value. A component's
properties are defined and commented in its own module; the `MC` modules collect
them (`CopyPromise`, `WalkPromise`, ...) per run.

## The modules and the code

### The lock: `LockService`, `DestLock`

In `LockService` a run acquires only a free destination, writes only while it is
the holder, and gives up only its own tenure.

In `DestLock` a file is an object (an inode), so a name can be moved, removed or
taken by another file while handles stay open on the old one. `lockPath` is the
file at the lock path, `broken[p]` the file at the move-aside name of run `p`
(`LockSite::broken_name` contains the operation id, so no two runs share one),
`content[f]` what a file holds and `osLock[f]` the run with its OS-native lock.
A run has `pc` (its next call), `handle` (the lock it creates, claims or holds),
`old` (the lock it classifies or recovers, kept open as in `Classified::Dead`),
`seen` (the record read) and its counts of tries and passes. Actions keep the
function's name, with the step name of the source comments (`recover_s2`).

| Source | Actions |
|---|---|
| `acquire.rs` `acquire`, `own_lock` | `acquire_create`, `acquire_dircheck`, `acquire_backoff`, `own_lock_try`, `own_lock_wait`, `own_lock_verify` |
| `classify.rs` `classify`; `obtain.rs` decisions | `classify_open`, `classify_lock`, `classify_read` |
| `recover.rs` `recover` | `recover_s1`, `recover_s2`, `recover_s3`, `recover_putback`, `recover_s4`, `recover_drop`, `recover_unlink` |
| `takeover.rs` `take_over`, `Claimed::overwrite` | `take_over_open`, `take_over_lock`, `take_over_path`, `take_over_read`, `overwrite_check` |
| `held.rs`, `run/session.rs` | `write_begin`, `write_end`, `write_fails`, `give_back`, `discard_check`, `guarded_check`, `guarded_write`, `release_check`, `unlink`, `close` |
| the environment | `Die` (a crash, or an I/O error that ends the run), `ForeignAppears`, `UserRemovesLock` |

Two calls are merged only in `still_empty_at_path` and `still_owned`: the content
read second can only be changed by the run with the OS-native lock, and the code
acts on a positive answer only where it has that lock itself or tries again. A
record is the run that wrote it, since `still_owned` and `holds` compare exactly
that. `decode`'s unreadable verdicts are one value, `Unreadable`, beside `Empty`.
The verdict of `LockSite::workspace`, the presence of `.flux-dir.lock` and
whether a record is past the cleanup lease are inputs, chosen anew each time. A
write of the record is two steps with unreadable content between them.

### The life of an operation: `Operation`, `Workspace`, `StateRecord`, `StateText`

`Operation`: one destination and any number of runs with their flags (`plain`,
`resume`, `restart`, `break` for `--restart --break-lock`, `cleanup`), for a
directory or a single file. `op[o]` is what operation `o` has on disk: where its
workspace is (absent, `<id>.creating`, `<id>`, `<id>.removing`), what its manifest
says, its claim store, whether a temporary of it lies in DEST and whether the
manifest names it. Before every guarded step stands the ownership check (`owned`,
`lost`, `CheckFails`).

| Source | Actions |
|---|---|
| `run/session.rs` `open_operation` | `Obtain`, `scan`, `write_record`, `record_written`, `RecordFails`, `takeover`, `transfer`, `give_back`; `work_done` ends `supersede` and `finish_priors` |
| `run/place.rs` `create`, `adopt`; `state.rs` | `begin_workspace`, `probe_no_replace`, `build_workspace`, `publish_workspace`, `create_claim_store`, `unmake`, `create_record`; `adopt`, `readopt` |
| `run/restart.rs`, `run/sweep.rs`, `cleanup/delete.rs` | `abandon`, `sweep_unlistable`, `sweep_partials`, `remove`, `finish_completed`, `finish_retire` |
| `run/mod.rs` `drive`, `finish`, `complete`, `fail`, `rollback`, `remove_own` | `copy`, `copy_ends`, `complete`, `fail`, `rollback`, `unname`, `unnamed`, `remove_own`; `release` (`held.rs`) |
| `cleanup/` | `discover` (the listing without the lock), `row` (the second look under it), `run_pass_ends` |
| the environment | `Crash`, `RemoveLock`, and the failing disjunct of each call |

`write_state` is one step, because its rename is the commit point, but it may
fail on either side of it. The lock record is written in two steps with `Torn`
between them. The copy is one temporary that appears and disappears;
`resume::validate` and commit recovery are a choice between going on and
refusing; the age `cleanup` compares is both answers.

`Workspace` takes the same life apart into its file-system calls (make, flush,
rename, remove, one script of calls per phase) and adds power losses: a directory
comes back as it was last flushed or as it was last seen. The lock is held
throughout; what a sweep removes is any subset; the claim store's inside is
external.

`StateRecord` follows the record through creation, adoption, supersession and
completion under the commands a user may give, with records of an older and of a
newer version. Its write may fail on either side of the rename and its removal may
fail; another program may make the target between runs. A record is its JSON object; `encode`, `decode`, `validate` with
serde's defaults and `resume::validate` field by field are operators. Times,
permissions and texts are abstracted to what is compared, `preserve_permissions`
goes with `preserve_times`, BLAKE3 has no collisions. `StateText` checks the
conversions of paths and identities over every text up to six symbols, on POSIX.

### Files: `CopyFile`, `SyncBarrier`, `Publication`, `TreeFrames`, `HardLinks`

`CopyFile` is one file from the sweep of its old temporary to the rename: the
gate on the existing target, reuse of a partial, streaming, re-reads, metadata,
syncs, re-checks, and the failure path of each. Others edit the source, take the
target's name and take the lock away between any two steps.

`SyncBarrier` has the shared counter, the worker threads (any of which the system
may refuse), the channel and the calling thread with its deadline on a fixed
grid. Time moves on at any moment.

`Publication` walks a script of files and directories with the batches of
`tree.rs`: plan, stage, note, rename, claim, `flush_batch` with its barrier,
drain, and `run/recover.rs` deciding every note a crash left. A class of names
the destination folds together is one entry. A failed copy is discarded, or, where
the checkpoint log failed, kept for the resume while the walk stops. Its `NoTargetReplacesAnother` is
stated for a run that does not resume. The list of a directory is taken when the
index is built; another process that removes an entry afterwards is outside what
the code promises.

`TreeFrames` follows the walk with one frame per open directory: caps, crowding,
skipped and poisoned frames, claims of directories, several roots and their
statuses. A file's copy and a batch's flush are one of the outcomes `Publication`
shows; the guard is asked in the same step as the write it guards (`DestLock` has
the window); the walk takes the entries in any order.

`HardLinks` has the slot of one source identity and everything a further name may
meet: linked, refused, anchor gone, degraded to a copy, split by a resume. The two
removals whose error `link_member` ignores (`tree.rs:3112`, `tree.rs:3143`) may fail.

### Checkpoints: `FileRecords`, `HashWorker`, `CheckpointLog`

`FileRecords` is the promise of a file's sink: `FileBegin`, ranges in order
without a gap, then `Close`, or `Discard` after any of them. `HashWorker` is the
sink with its worker thread under `Durability::Normal`: a pool of buffers that
circulate between copy, queue, worker and free list, and a bounded channel to the
log. `CheckpointLog` is the log itself with hashing inline (all there is under
`Strict`): the writer thread's loop with `flush`, its timer, `fail_wal` and
abandonment; `scan` and `load_file` as operators over the cells of the segment;
`decide` and `decide_full`; the copy of each file that feeds it; process deaths,
which tear the record being written, and power losses, which lose or damage what
was not synced. No record comes near `MAX_PAYLOAD`.

### Walk, selection, verification: `Walk`, `Select`, `Verify`

`Walk` is `next_with` step by step over a graph in which bind mounts make cycles
and others edit between any two calls; listings spill into regions of the scratch
lane. `Select` runs the two-pointer loops one turn at a time and compares the
verdict with a recursive meaning of the pattern. `Verify` merges two walks in
lockstep and compares the records with a reference computed from the trees.
Containment of roots in one another is an input of `Verify`.

### The index of a large directory: `NameIndex`, `FamilyRuns`, `FamilyIndex`, `IndexBuild`, `Store`, `Scratch`, `Spill`

`NameIndex` runs the in-memory, the migrating and the built index side by side on
the same directory and compares their answers; only this run changes the
directory, and hints are given per object. `FamilyRuns` sorts with two transient
files, `FamilyIndex` packs frames and levels in units small enough for several
levels, and its lookups are compared with a search of the records. `IndexBuild`
is the supervisor and its worker threads. `Store` has keys as digit sequences, so
that the successor of a prefix carries; redb is external (ordered, atomic per
transaction, may fail). In `Scratch` a block is one cell and regions end in stack
order except while an error unwinds. `Spill` compares by the cached words of the
code.

### The test file system: `DirContract`, `FaultFs`

The engine's tests run against `fault_fs.rs`; `FaultFs` models its maps, which are
keyed by path, and checks them against `DirContract`, in which handles hold
objects. Claim stores, the hard-link index and test-only overrides are left out;
an injected fault is the answer "failed". Renaming a directory into itself, and
`rename_replace` over a directory, are excluded, and the switches `StaleHandles`,
`LateWriters` and `OverDirectory` keep the runs away from calls the tests never
make (see the observations below).

## Runs

| Run | Instance | Properties |
|---|---|---|
| `lock` | a plain, a `--break-lock` and a cleanup run on one path, 3 files, 2 tries; a second scenario with one removal of the lock file by hand | `LockInv`, `MutualExclusion`, `FilesKept`, `ImplementsLockService`, `RemovedLateWritesBounded` |
| `contend` | a plain and a breaking run, fair; the same pair as operations with a failing call or a removed lock | `LoneRunObtains`, `RunsGetThrough` |
| `operation` | plain, resume and restart on a tree; with a cleanup; on a single file; under removals by hand | `LifeInv`, `SoleResumable`, `BesidesPromise`, `OutcomesKept` |
| `checkpoint` | the worker of a five-unit file; the log of a three-unit file, Normal and Strict, `chunks` and `full`, 2 or 3 runs, process deaths or power losses, edits | `WorkerInv`, `SinkKeepsPromise`, `PublishedIsRead`, `DataBeforeCheckpoint`, `LogPromise` |
| `log_name` | the Strict log over a crash | `AckedNameDurable` is violated (below) |
| `copy` | the barrier of 3 writers and 2 threads; one file under three families of options; five trees of three files | `BarrierInv`, `BarrierSteps`, `CopyPromise`, `PublicationPromise`, `CopySteps` |
| `tree` | one root with folding names, the same under `Safety::Strict`, several roots; groups of three links; every graph of three directories; every pattern of four characters; pairs of trees under edits and failures | `FramesPromise`, `LinksPromise`, `TreeSteps`, `WalkPromise`, `PatternsPromise`, `VerifyPromise` |
| `index` | two families of two items; five names over three slots; runs of up to nine records; ten names over several levels; lanes, rows and listings | `BuildInv`, `BuildSteps`, `NamesPromise`, `RunsPromise`, `ScratchPromise`, `StorePromise`, `PoisonSteps` |
| `state` | four worlds for the workspace, five families of commands for the record, every text of six symbols | `WorkspacePromise`, `RecordPromise`, `StateSteps` |
| `skip_target` | the single files of `state` under `--skip-existing` | `CompletedNamesTarget` is violated (below) |
| `faultfs` | seven sets of operations on two or three names | `FsPromise`, `ImplementsContract` |
| `live` | each component that waits, retries or loops, under the fairness of its threads | `EachEnds` |

What the collected properties say, by component:

- `CopyPromise`: what is at a target is one version of the source as it was read
  (`PublishedIsVersion`); a failure leaves what its answer says it leaves; strict
  means synced; metadata that was not kept is told; reused, copied and cut lengths
  add up. `CopySteps`: nothing is written without the lock or after it is lost, an
  object with a second name is never written through, no target replaces another
  of the same run, nothing is published twice.
- `PublicationPromise`: what is at a target was published there or was there
  before; a claim names the object published under it; leftovers are reported,
  all but the partial a failure of the checkpoint log keeps; every file has exactly
  one answer; every note has its cause.
- `FramesPromise`, `LinksPromise`, `TreeSteps`: nothing is written under a skipped
  directory, into a mount or into somebody else's directory; open files stay under
  the cap; staged names stay theirs; statuses are right; every file seen in an
  entered directory is answered, where a stop ended the root all but the one that
  stopped it; a split link is counted once; under `preserve` every name is linked or
  reported; a temporary that stays is a reported leftover, or a second name of the
  file that was published whose removal failed without a word.
- `WalkPromise`, `PatternsPromise`, `VerifyPromise`: component-wise order, each
  entry once, no cycle, no forgotten entry; the matcher decides the meaning within
  its advertised number of turns; verification's records are those of the
  reference, in path order, and a file equal on both sides is not accused.
- `NamesPromise`, `RunsPromise`, `ScratchPromise`, `StorePromise`, `PoisonSteps`:
  the index on disk answers what the one in memory would; sorts yield their input
  in order through any number of passes; cached blocks are current; a directory's
  range is exactly its rows; the first poison is the one everybody is told.
- `WorkspacePromise`, `RecordPromise`, `StateSteps`: after any crash of the process
  or failed call a published workspace has its manifest and a resumable one its
  store (after a power loss only `CopyIsRecorded` is claimed: what was copied is
  recorded); a refusal changes nothing; a run that completes without a warning
  leaves no workspace; a written record is read as it was written but for the two
  COMPLETED records named below, by the version before too when it says nothing new;
  the command that wrote it may resume it; a rewrite revives no terminal record but
  the run's own COMPLETED whose write was reported as failed after its rename;
  strangers' objects stay.
- `LogPromise`: a file whose close was answered is completely described by the
  log, what was synced always scans, a flush that begins after abandonment appends
  nothing.
- `FsPromise`, `ImplementsContract`: every call of the test file system does what
  the contract allows, and its reads answer what the contract says, also through a
  handle below a directory that is renamed. A name whose removal waits for a lock
  handle is hidden from the calls that ask (stat, `read_file`, the open of a lock)
  and goes with the last handle.

### Bounds

Three lock files are enough for a lock at the path, one moved aside or unlinked
with handles open on it, and a fresh one. Two tries make both exits of
`own_lock`'s loop and a retry happen. For `Operation`, three runs give an
operation a successor that adopts or supersedes it and a third that meets what
both left; `MaxRounds` is 1 or 2 instead of `MAX_ATTEMPTS` = 8, one pass more than
the first. One failing call, or two where the handling of a failure can fail
itself. Chunks of two units and files of three give a full and a short chunk; a
channel of one message makes every sender wait; a third run resumes what a resumed
run left. Three writers and two threads make a thread take a second index. Batches
of two files with a cap of two or three writers make both limits bind. A record holds
two leftovers where three can be left, so `STATE_LIMIT` is passed. Widths of
blocks, frames and fan-in are the smallest at which a second level, a second pass
and a lone run occur. The proofs lift the bounds for the components they cover.

Removals of a lock by hand are an operator's intervention flux cannot exclude;
properties of `Operation` that two owners would break are stated up to the first
one, and `RemovalAssumption` keeps removals away from `--resume` runs.

Deadlock is checked in `checkpoint`. It is off elsewhere: runs, copies and builds
come to an end, and that they do is `EachEnds`, `LoneRunObtains` and
`RunsGetThrough`. The lock files of `lock` are symmetric: no action or property
names one.

### Fairness

Weak fairness of each thread's next step, and nothing else: the lock code never
blocks (`try_lock` does not wait, `own_lock` sleeps at most `OWNLOCK_TRIES` times);
the writer, hash and index threads run until they are joined; sources are finite
and a call returns. Nothing is assumed of crashes, of failing calls, of other
programs, of users, or of the clock.

### Two disagreements, and observations

`log_name`: `wal/writer.rs:599` says that the flush which created the segment
syncs its directory, "so a Strict acknowledgement is true of the name as well as
the bytes". When that run dies before the directory sync, the resumed run opens
the segment, never syncs the directory and still acknowledges.

`skip_target`: the design of the record
(`docs/superpowers/specs/2026-10-02-cut-7b-state-v2-and-heartbeat-design.md:109`)
says that a single file's COMPLETED record "requires a non-null `target_identity`",
and `validate` refuses one without it (`state.rs:740`). An operation that is created
while there is no target records none. When it is resumed with `--skip-existing`
after another program made the target, the file is skipped, `run/mod.rs:966` records
no identity, and COMPLETED is written without one. If the run dies or the removal
fails before the record is gone, later runs answer `STATE_CORRUPT`.

Met while modelling, and kept out of the runs by their bounds or stated as an
exception in a property:

- `own_lock` leaves an empty lock file behind when another run's classification
  holds it through all tries, though `run/mod.rs:176` calls such a refusal unchanged.
- A source that grows after its stat can make the sink send a range that is not
  chunk aligned, and the next open sets the log aside (`checkpoint/sink.rs:91`).
- With a wrong `d_ino` the hybrid index may answer an entry where the in-memory one
  finds two hard links (`names.rs:657`).
- Two folding source directories merged into an existing one are not reported as a
  collision below it (`tree.rs:1738`).
- `link_member` ignores a failed removal of the member's temporary, after a rename
  onto the same object (`tree.rs:3143`) and where the anchor changed
  (`tree.rs:3112`, although `LinkStep::Degrade` says "nothing of ours left on disk"):
  the temporary stays and nothing names it. `NoTempBehind` allows for it.
- `retire_workspace` does not flush `operations/` between its rename and the removal
  of the manifest (`state.rs:1034`), so a power loss can bring back a published
  workspace without one.
- A COMPLETED record with very many leftovers can exceed `STATE_LIMIT` and is then
  refused (`WrittenIsReadable` says which records are). A COMPLETED write reported as
  failed after its rename is followed by FAILED.
- `from_native_hex` reads a part "." that `native_hex` never writes.
- In the test file system a delete-pending file is found by `open_existing`,
  `open_read`, `read_link` and both renames, though `fault_fs.rs:1270` says that "an
  open or a read finds nothing"; `open_read` and `remove_dir` do not fold the name
  they are given; and a handle forgets what it was opened on when its directory is
  removed and made again, a writer when its file is renamed.

## Proofs

All theorems hold for every value of the constants that satisfies the named
assumptions of the component's module: distinct values are distinct, bounds are
natural numbers, chunk sizes and pools are not zero. TLC evaluates the
assumptions in the run of the component, and checks the inductive invariant
itself as an invariant of that run.

### The destination lock (`DestLockProofs`)

- `LockInvariant`: `Spec => []LockInv`. The safety properties are not inductive:
  that a holder keeps the path depends on what every other run may do next by
  name. `LockInv` adds, per call, which handles are open (`Handles`), which
  OS-native locks are held (`Locks`), that a run about to rename or unlink the
  lock path by name has the OS-native lock of the file the path names (`Paths`),
  and what such a file may hold (`Contents`). Two runs can then never both be
  about to act by name, which is why the check in an earlier call is not stale.
- `TenureIsKept`, `Exclusion`: consequences of `LockInv`.
- `FilesAreKept` (from `ForeignIsSafe` and `RecordsAreSafe`): action properties,
  from `LockInv` and a lemma (`FileFrame`) naming the only calls that change a
  file.
- `Implements`: with `MaxRemovals = 0`, `Spec => ImplementsLockService`. The mapped
  holder is well defined by exclusion before and after each step.

`Paths` and what follows from it are conditional on no lock file having been
removed by hand: the code cannot promise more, and `LateWritesBounded` says what
is left then.

- `LateWrites`: for every finite set of runs, `Spec => []LateWritesBounded`. The
  bound on one run is not inductive: a removal may leave a run about to unlink or
  move aside, by name, the lock file the next run has just checked, and that run's
  write is then late without a second removal. The invariant `StaleBounded` counts
  every run whose check of the path no longer holds together with a run's late
  writes. A run acts by name with the OS-native lock of the file it checked, so a
  change of the path makes at most one run stale (`OneActs`); only a removal by
  hand or a run that is itself stale does so, and the latter stops being stale in
  the same call (`StaleStep`, from `StepActs`, which looks at every call). `lock`
  checks `StaleBounded` in its second scenario.

### The operation's life (`OperationLemmas`, `OperationProofs`)

- `PathInvariant`: what holds whatever is removed by hand: the types,
  `PublishedHasManifest`, and which steps a copy and a cleanup take (`PathSays`).
  From it `ManifestsPublished`.
- `LifeInvariant`: `Spec => []LifeInv`, `PathInv` and, up to the first removal by
  hand, `Life`. None of the promises is inductive: whether a write is safe depends
  on what the run learnt several calls earlier, and on nobody having changed it
  since. `Life` therefore says that the lock is held exactly between a run's first
  and last step (`Holding`), and for the run at each step what the lock file holds
  (`LockSays`), what its own or adopted operation has on disk (`FreshSays`,
  `OwnSays`), that the operations still on its lists are what the lists say and
  that no resumable one is missing from them (`TodoSays`), when it may have
  reported success (`WaitSays`); and for every operation, what its disk state
  implies (`OpSays`). With one holder everyone else is idle (`OthersIdle`).
- `RecordsNameState`, `CompletionsStay`, `PromisesKept`: consequences of `LifeInv`.
- `ProgressIsKept`: `OutcomesKept`, for `MaxRemovals = 0`.

Each action `X` has a lemma `X_effect` (what it does, field by field), `X_frame`
(the other runs stay as they are), `X_path` and `X_life` (it keeps the invariant).

### One file's copy (`CopyFileProofs`)

`CopyFile` is instantiated several times, so what its constants must satisfy is
the hypothesis `CopyConstants` of each theorem; the `copy` run evaluates it for its
instances (`CopiesAsAsked`) and checks the invariant itself. The theorems hold for
every content of the source, every set of options, directories and logs to start
from, and any number of edits and failing calls, with the lock lost at any step.

- `CopyHolds`: `Spec => []CopyInv`. That what is published is one version of the
  source depends on everything read since the plan, so the invariant says what the
  copy has at each step (`StepSays`) and that the temporary is what was hashed, as
  far as a partial was proven and exactly from the first write on, unless the
  device stored something else and nothing compared it yet (`TempSays`). Where every
  edit moves the time, the units hashed are the source's own as long as its time is
  the planned one (`StampSays`). Where it does not, an edit makes a unit that was
  nowhere before, and some version the source had agrees with the hash in every
  unit that the second read has found or may still find unchanged (`QuietSays`): when
  that read ends without a difference, that version is what was hashed. An edit that
  puts back an earlier content without moving the time is outside the model.
  `GateSays` carries the metadata, the sync and the identity gate to the rename.
- `CopyKeepsPromises`: `PublishedIsVersion`, `FailureAccounted`, `StrictIsSynced`,
  `MetadataTold` and `ReuseAddsUp`, always.
- `CopyStepsKept`: `LockedWrites`, `SecondNameUntouched` and `SelfCopyTold`, of every
  step.

Each step of the copy has a lemma that it keeps `CopyInv`; the ways out (refused,
discarded, kept) share three (`RefusedEnds`, `DiscardEnds`, `KeptEnds`).

### The flush barrier (`WorkerProofs`)

- `BarrierHolds`: `Spec => []BarrierInv`, for any number of writers and any limit of
  threads. That every slot is filled at the end rests on where each index is on
  the way: not yet taken, with exactly one thread, in the channel exactly once, or
  in its slot (`WorkersSay`, `ChannelSays`), on the counter of results being the
  number of filled slots (`CallerSays`, with cardinalities of finite sets), and on
  the deadline lying on the grid (`ClockSays`).
- `BarrierStepsKept`: beats never fall twice into one interval of the grid and stop
  at the first failure; what was synced or received stays so.

### The index build (`WorkerProofs`)

- `BuildIsSafe`: `BuildSpec => []BuildInv`, for any finite set of families and any
  number of items. `FamiliesSay` says per worker what its region, its signal and
  its result are at each step, `ListingSays` what the listing thread may conclude
  from the signals and joins it has seen; that a region outlives its writer and
  that all families are handed on or none follow.
- `BuildStepsKept`: the lock is beaten between any two waits, and a build that
  joined a failure waits no more.

### The hashing worker (`HashWorkerProofs`)

- `WorkerIsSafe`: `Spec => []WorkerInv`, for every length of the source, chunk size,
  range, resumed prefix, carry, pool and channel. `BuffersSay` places every buffer
  in one of its four places; `HashSays`, in `SinkSays` and `WorkSays`, says that the
  hasher with its digests and current chunk is exactly the file between the last
  range sent and the units handed over, in whichever thread it lives; `Until` and
  `Sent` relate the queue, the channel and the log to one another.
- `SinkRefines`: `Spec => SinkKeepsPromise`: every step of the three threads is a
  step of `FileRecords` or leaves its messages alone. The arithmetic of chunks and
  ranges (`RangeIs`, `HashStep`, `LastStep`) is done once, in lemmas.

### The checkpoint log (`CheckpointLogProofs`, `CheckpointRecordsProofs`)

`CheckpointLog` is instantiated several times, so what its constants must satisfy
is the hypothesis `LogConstants` of each theorem; the `checkpoint` run evaluates it
for its instances. That run checks the same formulas for its three instances, under
the names `PublishedIsRead` and `DataBeforeCheckpoint` of `MCCheckpoint`. The theorems hold for every set of files, chunk, range, channel
and batch size, every durability and way to verify, any number of runs, faults,
crashes and edits.

- `PublishedAsRead`: `Spec => []PublishedIsRead`. The invariant `CopyInv` adds to the
  types that while a file is copied its partial is what was read (`CopySays`). The
  step that matters is `PlanFile`: `PlanPromised` shows that `decide` and
  `decide_full`, as loops over the recorded chunks that stop at the first mismatch,
  keep a prefix that agrees with the source, and carry what they read beyond it,
  whatever the log, the partial and the source hold.
- `DataFirst`: `Spec => []DataBeforeCheckpoint`, where no source grows. The invariant
  `DataInv` follows a record from the bytes to the log: the hasher's digests, index
  and unfinished chunk are those of what was read (`SinkSays`), every message,
  pending entry and batch of the run describes what was read of its file, a Strict
  batch that is about to be appended lies below what its partial has synced, and so
  does every record this generation has appended (`RecordsSay`).
- `LogAlwaysScans`: `Spec => [](SyncedScans /\ LogScans /\ NothingAfterAbandon)`,
  where no source grows. `LogSays` adds that the synced prefix of the segment decodes
  in sequence, that the open segment does so to its end and the writer goes on with
  its next number, and what a torn append may have left. A record that does not
  describe a range of whole chunks would make the scan refuse the log, which is why
  it rests on `DataInv`.

The condition on growing sources is the code's: a file whose recorded length ends
inside a chunk is resumed with the hasher past its last chunk
(`checkpoint/sink.rs:91`), so a source that grows after its stat gives a range that
does not start at a chunk. The copy then ends as changed.

In both modules the lemma `XIs` says what an action or helper `X` does to the
fields, and each `Next...` lemma has one step per action.

### What is only model-checked

Liveness (`LoneRunObtains`, `RunsGetThrough`, `EachEnds`) is beyond the prover, as
are algorithms whose result needs induction over data: the sorts and packed
families (`RunsPromise`), the matcher against the recursive meaning of a pattern
(`PatternsPromise`, whose module is recursive), the replay of the log
(`CompleteIsLogged`). The properties of `Publication`, `TreeFrames`,
`HardLinks`, `Walk`, `Verify`, `NameIndex`, `Scratch`, `Store`, `Workspace`, `StateRecord` and
`FaultFs` have no proof yet.

## Not modelled

Argument parsing, reports, logging, progress and the terminal display: no state
that another part reads. The translation of `DirHandle` calls to system calls on
Unix and Windows (flux-platform): only what the modelled components call, as the
atomic calls `DirContract` promises. BLAKE3 and redb are external. The preview of
a resume (`run/dry_prior.rs`, `dry_run.rs`) changes nothing. Prefix locks
(`run/prefix.rs`) are destination locks of their own; taking several in order is
not modelled. The rows of moved-aside lock files in a cleanup, symbolic link
contents and directory metadata of a tree copy, the limits on the number and
length of patterns, and the panic of `Walk`'s `is_one_component` on an impossible
name are left out.

## How to run

`tlc -config MCCopy.cfg MCCopy` model-checks a run; `tlapm HashWorkerProofs.tla`
checks the proofs of a module. The runs take from seconds to a few minutes with
two workers, the proofs up to twenty minutes per module.
