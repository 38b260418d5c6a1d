------------------------------ MODULE Operation ------------------------------
(***************************************************************************)
(* The life of a copy operation on one destination: crates/flux-core/src/  *)
(* run/session.rs (open_operation), run/mod.rs (finish), run/restart.rs,   *)
(* run/place.rs, state.rs, prior.rs and cleanup/.  An operation's state is *)
(* a workspace DEST/.flux/operations/<id> with its manifest and claim      *)
(* store, or a record beside a single file; temporaries it left in DEST    *)
(* carry its id.  Runs come one after another or at once: each obtains the *)
(* destination's lock, scans what earlier operations left, makes or adopts *)
(* its own state, writes the lock record naming it, supersedes or finishes *)
(* the others, copies, and removes its traces.                             *)
(*                                                                         *)
(* Each action is one call that changes the disk, so a run may die between *)
(* any two.  The lock is what LockService promises (DestLock implements    *)
(* it); the lock file left behind by a dead run is modelled here because   *)
(* the next run's way in depends on its record.                            *)
(***************************************************************************)
EXTENDS Naturals

CONSTANTS Run,          \* runs; a run's operation id is the run itself
          Flag,         \* Flag[p]: what the command line asks of p
          Kind,         \* "tree" or "file" (a single file's copy)
          MaxRounds,    \* MAX_ATTEMPTS of open_operation (8 in the code)
          MaxFaults,    \* bound on failing file-system calls
          MaxRemovals   \* bound on lock files removed by hand

None  == "none"

\* The lock file: absent, or held with no record yet, or holding bytes that
\* are no record, or a record naming no workspace (None) or workspace o.
Absent == "absent"
Empty  == "empty"
Torn   == "torn"

Resumable == {"CREATED", "TRANSFERRING", "FAILED"}
OpState   == Resumable \cup {"COMPLETED", "ABANDONED"}
Place     == {Absent, "creating", "there", "removing"}
Flags     == {"plain", "resume", "restart", "break", "cleanup"}

ASSUME RunAssumption == Run \cap {None, Absent, Empty, Torn} = {}
ASSUME FlagAssumption ==
    /\ Flag \in [Run -> Flags] /\ Kind \in {"tree", "file"}
    /\ Kind = "file" => \A p \in Run : Flag[p] # "cleanup"
ASSUME BoundAssumption ==
    MaxRounds \in Nat \ {0} /\ MaxFaults \in Nat /\ MaxRemovals \in Nat

\* A lock removed by hand is modelled beside runs that make their own state; two
\* runs at work in one adopted workspace are not.
ASSUME RemovalAssumption ==
    MaxRemovals > 0 => \A p \in Run : Flag[p] # "resume"

VARIABLES
    holder,    \* the live run whose lock file is at the lock path, or None
    lockFile,  \* what the file at the lock path holds, or Absent
    op,        \* op[o]: what operation o has on disk
    pc,        \* the next step of each run
    ok,        \* ok[p]: the ownership check before the next step has passed
    job,       \* job[p]: what run p knows
    outcome,   \* outcome[p]: what p reports, None until it is decided
    faults,    \* file-system calls that failed so far
    removals   \* lock files removed by hand so far

vars == <<holder, lockFile, op, pc, ok, job, outcome, faults, removals>>

\* An operation's workspace (or record), the state its manifest says, its
\* claim store, whether a temporary of it is in DEST, and whether the
\* manifest names that temporary (cleanup_pending_artifacts).
Nothing == [place |-> Absent, manifest |-> None, store |-> None,
            partial |-> FALSE, recorded |-> FALSE]
OpType  == [place : Place, manifest : OpState \cup {None},
            store : {None, Torn, "ok"}, partial : BOOLEAN, recorded : BOOLEAN]

\* The operations a run still has to: set ABANDONED, sweep, remove (and those
\* it must not remove), retire (renamed, to be emptied), finish, clean up.
WorkType == [abandon : SUBSET Run, sweep : SUBSET Run, keep : SUBSET Run,
             remove : SUBSET Run, retiring : SUBSET Run, finish : SUBSET Run,
             debris : SUBSET Run]
NoWork   == [abandon |-> {}, sweep |-> {}, keep |-> {}, remove |-> {},
             retiring |-> {}, finish |-> {}, debris |-> {}]

\* The operation a run works on, its state as last written, what is left to
\* do to other operations, cleanup's rows, whether the lock was claimed, and
\* the passes through open_operation's loop.
JobType == [id : Run \cup {None}, mem : OpState \cup {None}, work : WorkType,
            rows : SUBSET (Run \X Place \X {0, 1}), claimed : BOOLEAN,
            rounds : 1..MaxRounds]
NoJob   == [id |-> None, mem |-> None, work |-> NoWork, rows |-> {},
            claimed |-> FALSE, rounds |-> 1]

\* Steps that begin with the ownership check (section 99).
Guarded == {"work", "transfer", "copy", "copying", "complete", "rollback",
            "fail", "release"}
PC == Guarded \cup {"discover", "obtain", "scan", "adopt", "readopt", "create",
        "probe", "build", "publish", "store", "storing", "unmake", "unmaking",
        "record", "recording", "takeover", "giveback", "row", "unname",
        "unnaming", "removeown", "removingown", "ended", "dead"}

TypeOK ==
    /\ holder \in Run \cup {None}
    /\ lockFile \in Run \cup {None, Absent, Empty, Torn}
    /\ op \in [Run -> OpType]
    /\ pc \in [Run -> PC]
    /\ ok \in [Run -> BOOLEAN]
    /\ job \in [Run -> JobType]
    /\ outcome \in [Run -> {None, "ok", "failed", "refused", "lost"}]
    /\ faults \in 0..MaxFaults
    /\ removals \in 0..MaxRemovals

-----------------------------------------------------------------------------
(* The private steps and the file-system calls the actions are made of.  A  *)
(* definition named X_without_... or X_with_... (here, above and below) is a *)
(* faulty variant of the X that follows it: no action uses it.               *)

Goto(p, l) == pc' = [pc EXCEPT ![p] = l] /\ ok' = [ok EXCEPT ![p] = FALSE]

\* The first report of a run stands.
Report(p, r) == outcome' = IF outcome[p] = None
                           THEN [outcome EXCEPT ![p] = r] ELSE outcome

Fault   == faults < MaxFaults /\ faults' = faults + 1
NoFault == UNCHANGED faults

Is(o, states)  == op[o].place = "there" /\ op[o].manifest \in states
Own(p)         == job[p].id
Adopted(p)     == Own(p) \notin {p, None}
IsCleanup(p)   == Flag[p] = "cleanup"
SetWork(p, f)  == job' = [job EXCEPT ![p].work = f]

\* write_state: the rename is the commit point, so a failure leaves the old
\* state or, when only the flush after the rename fails, the new one.  A
\* workspace that is gone cannot be written; a file's record is made again.
Writable(o)       == Kind = "file" \/ op[o].place = "there"
Written(o, s, r)  == [op EXCEPT ![o].place = "there", ![o].manifest = s,
                                ![o].recorded = r]
WriteOk(o, s, r)  == Writable(o) /\ op' = Written(o, s, r) /\ NoFault
WriteErr(o, s, r) == \/ ~Writable(o) /\ UNCHANGED <<op, faults>>
                     \/ Writable(o) /\ Fault /\ op' \in {op, Written(o, s, r)}

\* What is left of an operation once its workspace or record is gone.
Gone(o) == op' = [op EXCEPT ![o] = [Nothing EXCEPT !.partial = op[o].partial]]

\* The first half of retire_workspace: the rename the scan passes over.
Rename(o) == op' = [op EXCEPT ![o].place = "removing"]

\* A handle closes; the lock file stays as it is.
Unhold(p) == holder' = IF holder = p THEN None ELSE holder

\* An in-place write of the lock record through p's handle: it reaches the
\* file at the lock path only while that is p's.
WriteLock(p, c) == lockFile' = IF holder = p THEN c ELSE lockFile
RecordName(p)   == IF IsCleanup(p) THEN None ELSE Own(p)

\* Held::still_owned.
still_owned(p) == holder = p /\ lockFile \notin {Empty, Torn}

-----------------------------------------------------------------------------
(* The lock. *)

\* LockSite::workspace of a dead owner's record.
Trusted(c) == c = None \/ (c \in Run /\ op[c].place = "there")

\* obtain and obtain_cleanup_lock, as LockService abstracts them: a free path
\* is acquired, a dead owner's lock is recovered when its workspace can be
\* trusted, an unreadable one is claimed by --break-lock only.  A cleanup
\* takes a dead owner's lock only past the lease threshold (either answer is
\* possible) and then also one whose workspace is gone.
Obtain(p) ==
    /\ pc[p] = "obtain"
    /\ \/ /\ \/ lockFile = Absent
             \/ holder = None /\ Trusted(lockFile)
             \/ holder = None /\ lockFile \in Run /\ IsCleanup(p)
          /\ holder' = p /\ lockFile' = Empty
          /\ Goto(p, IF IsCleanup(p) THEN "record" ELSE "scan")
          /\ UNCHANGED <<job, outcome>>
       \/ /\ holder = None /\ lockFile \in {Empty, Torn} /\ Flag[p] = "break"
          /\ holder' = p
          /\ job' = [job EXCEPT ![p].claimed = TRUE]
          /\ Goto(p, "scan")
          /\ UNCHANGED <<lockFile, outcome>>
       \/ /\ \/ lockFile # Absent /\ holder # None
             \/ lockFile \in {Empty, Torn} /\ Flag[p] # "break"
             \/ lockFile \in Run /\ ~Trusted(lockFile)
             \/ lockFile \in Run \cup {None} /\ IsCleanup(p)
          /\ Goto(p, "ended") /\ Report(p, "refused")
          /\ UNCHANGED <<holder, lockFile, job>>
    /\ UNCHANGED <<op, faults, removals>>

\* give_back: a lock this run made is unlinked while still held, a claimed
\* one is let go.
give_back(p) ==
    /\ pc[p] = "giveback"
    /\ \/ /\ holder = p /\ ~job[p].claimed
          /\ lockFile' = Absent /\ NoFault
       \/ /\ holder = p /\ ~job[p].claimed
          /\ Fault /\ UNCHANGED lockFile
       \/ /\ holder # p \/ job[p].claimed
          /\ UNCHANGED <<lockFile, faults>>
    /\ Unhold(p) /\ Goto(p, "ended")
    /\ UNCHANGED <<op, job, outcome, removals>>

Todo(p)     == job[p].work
WorkLeft(p) == [Todo(p) EXCEPT !.keep = {}] # NoWork

\* The run is at a check: before a guarded step, and before each call on
\* another operation but the emptying of a workspace just renamed.
Checking(p) == /\ pc[p] \in Guarded /\ ~ok[p]
               /\ pc[p] = "work" => WorkLeft(p) /\ Todo(p).retiring = {}

\* owned and checked: the heartbeat, then still_owned.
owned(p) ==
    /\ Checking(p) /\ still_owned(p)
    /\ ok' = [ok EXCEPT ![p] = TRUE]
    /\ UNCHANGED <<holder, lockFile, op, pc, job, outcome, faults, removals>>

\* Fault::Lost: the lock closes without being unlinked, nothing is written.
lost(p) ==
    /\ Checking(p) /\ ~still_owned(p)
    /\ Unhold(p) /\ Goto(p, "ended") /\ Report(p, "lost")
    /\ UNCHANGED <<lockFile, op, job, faults, removals>>

\* Fault::Io and Fault::Heartbeat: the check could not tell, or the heartbeat
\* before it failed and may have torn the record.  Outside the copy and the
\* work on other operations the lock just closes.
CheckFails(p) ==
    /\ Checking(p) /\ Fault
    /\ \/ /\ pc[p] \in {"work", "copy", "copying"}
          /\ \/ WriteLock(p, Torn) \/ UNCHANGED lockFile
          /\ Goto(p, IF IsCleanup(p) THEN "release" ELSE "fail")
          /\ Report(p, "failed") /\ UNCHANGED holder
       \/ /\ pc[p] # "work"
          /\ UNCHANGED lockFile /\ Unhold(p) /\ Goto(p, "ended")
          /\ Report(p, IF pc[p] \in {"copy", "copying"} THEN "lost" ELSE "failed")
    /\ UNCHANGED <<op, job, removals>>

\* Held::release: unlink by name what the check said is this run's.
release(p) ==
    /\ pc[p] = "release" /\ ok[p]
    /\ \/ /\ lockFile' = Absent /\ holder' = None /\ NoFault
          /\ Report(p, IF IsCleanup(p) THEN "ok" ELSE "refused")
       \/ /\ Fault /\ Unhold(p) /\ UNCHANGED lockFile /\ Report(p, "failed")
    /\ Goto(p, "ended")
    /\ UNCHANGED <<op, job, removals>>

-----------------------------------------------------------------------------
(* open_operation, step 4: what earlier operations left. *)

Others(p, states) == {o \in Run \ {p} : Is(o, states)}
DebrisOf(p) == {o \in Run \ {p} : op[o].place \in {"creating", "removing"}}

\* What a pass through the loop learns: the state it works on, if it is made
\* or to be adopted, and the work on others.
Learn(p, o, s, w) ==
    job' = [job EXCEPT ![p].id = o, ![p].mem = s, ![p].work = w]

scan_with_first_resumable(p) ==
    LET resumable == Others(p, Resumable)
        restart   == Flag[p] \in {"restart", "break"}
        adopting  == Flag[p] = "resume" /\ resumable # {}
        corrupt   == \E o \in Run \ {p} : Is(o, {None})
        work      == [NoWork EXCEPT !.abandon = IF restart THEN resumable ELSE {},
                                    !.finish = Others(p, {"COMPLETED"}),
                                    !.debris = DebrisOf(p)]
    IN /\ pc[p] = "scan"
       /\ \/ /\ ~corrupt /\ NoFault
             /\ restart \/ adopting \/ resumable = {}
             /\ IF Own(p) = None /\ adopting
                THEN \E o \in resumable : Learn(p, o, op[o].manifest, work)
                ELSE Learn(p, Own(p), job[p].mem, work)
             /\ Goto(p, IF Own(p) # None THEN "record"
                        ELSE IF adopting THEN "adopt" ELSE "create")
             /\ UNCHANGED outcome
          \/ /\ corrupt \/ ~(restart \/ adopting \/ resumable = {})
             /\ Goto(p, "giveback") /\ Report(p, "refused")
             /\ NoFault /\ UNCHANGED job
          \/ /\ Fault
             /\ Goto(p, "giveback") /\ Report(p, "failed")
             /\ UNCHANGED job
       /\ UNCHANGED <<holder, lockFile, op, removals>>

\* place.scan and the match on it.  A workspace without a manifest is
\* STATE_CORRUPT; so is nothing else a crash leaves.
scan(p) ==
    LET resumable == Others(p, Resumable)
        restart   == Flag[p] \in {"restart", "break"}
        adopting  == Flag[p] = "resume" /\ \E o \in Run : resumable = {o}
        corrupt   == \E o \in Run \ {p} : Is(o, {None})
        work      == [NoWork EXCEPT !.abandon = IF restart THEN resumable ELSE {},
                                    !.finish = Others(p, {"COMPLETED"}),
                                    !.debris = DebrisOf(p)]
    IN /\ pc[p] = "scan"
       /\ \/ /\ ~corrupt /\ NoFault
             /\ restart \/ adopting \/ resumable = {}
             /\ IF Own(p) = None /\ adopting
                THEN \E o \in resumable : Learn(p, o, op[o].manifest, work)
                ELSE Learn(p, Own(p), job[p].mem, work)
             /\ Goto(p, IF Own(p) # None THEN "record"
                        ELSE IF adopting THEN "adopt" ELSE "create")
             /\ UNCHANGED outcome
          \/ /\ corrupt \/ ~(restart \/ adopting \/ resumable = {})
             /\ Goto(p, "giveback") /\ Report(p, "refused")
             /\ NoFault /\ UNCHANGED job
          \/ /\ Fault
             /\ Goto(p, "giveback") /\ Report(p, "failed")
             /\ UNCHANGED job
       /\ UNCHANGED <<holder, lockFile, op, removals>>

-----------------------------------------------------------------------------
(* Step 5: this operation's state, made or adopted. *)

\* The state step fails or refuses: the lock goes back, what is on disk stays.
StateEnds(p, r) == /\ Goto(p, "giveback") /\ Report(p, r)
                   /\ UNCHANGED <<holder, lockFile, job, removals>>
StateFails(p)   == StateEnds(p, "failed")

Made(p, s, l) == /\ job' = [job EXCEPT ![p].id = IF @ = None THEN p ELSE @,
                                       ![p].mem = s]
                 /\ Goto(p, l)
                 /\ UNCHANGED <<holder, lockFile, outcome, faults, removals>>

Step(p, l) == Goto(p, l) /\ UNCHANGED <<holder, lockFile, job, outcome, removals>>

\* resume::validate: the format, the fingerprint, the roots or an option of
\* the operation is not this run's.
validate_refuses(p) == NoFault /\ StateEnds(p, "refused")

\* place.adopt of the state scanned: commit recovery must be certain (it may
\* refuse); a claim store that is missing or unreadable is made again only for
\* an operation that was still CREATED.
adopt(p) ==
    LET o == Own(p) IN
    /\ pc[p] = "adopt"
    /\ \/ /\ Kind = "file" \/ op[o].store = "ok"
          /\ Made(p, job[p].mem, "record")
       \/ /\ Kind = "tree" /\ op[o].store # "ok" /\ job[p].mem = "CREATED"
          /\ Step(p, "readopt") /\ NoFault
       \/ validate_refuses(p)
       \/ Kind = "tree" /\ NoFault /\ StateEnds(p, "refused")
       \/ Fault /\ StateFails(p)
    /\ UNCHANGED op

readopt(p) ==
    /\ pc[p] = "readopt"
    /\ \/ /\ op[Own(p)].store # Torn
          /\ op' = [op EXCEPT ![Own(p)].store = Torn]
          /\ Step(p, "readopt") /\ NoFault
       \/ /\ op' = [op EXCEPT ![Own(p)].store = "ok"]
          /\ Made(p, "CREATED", "record")
       \/ Fault /\ StateFails(p) /\ UNCHANGED op

\* The directory or file a step works in is gone, which only another run that
\* got in after a lock was removed by hand can have done.
Vanished(p) == NoFault /\ StateFails(p) /\ UNCHANGED op

\* TreePlace::create: <id>.creating, the no-replace probe, the manifest, the
\* rename onto <id>, the claim store.
begin_workspace(p) ==
    /\ pc[p] = "create" /\ Kind = "tree"
    /\ \/ /\ op' = [op EXCEPT ![p].place = "creating"]
          /\ Step(p, "probe") /\ NoFault
       \/ Fault /\ StateFails(p) /\ UNCHANGED op

\* A destination without the primitive is refused, and <id>.creating removed
\* again where that succeeds.
probe_no_replace(p) ==
    /\ pc[p] = "probe"
    /\ \/ op[p].place = "creating" /\ Step(p, "build") /\ UNCHANGED <<op, faults>>
       \/ op[p].place # "creating" /\ Vanished(p)
       \/ Fault /\ (StateFails(p) \/ StateEnds(p, "refused"))
                /\ (Gone(p) \/ UNCHANGED op)

build_workspace(p) ==
    /\ pc[p] = "build"
    /\ \/ /\ op[p].place = "creating"
          /\ op' = [op EXCEPT ![p].manifest = "CREATED"]
          /\ Step(p, "publish") /\ NoFault
       \/ op[p].place # "creating" /\ Vanished(p)
       \/ Fault /\ StateFails(p) /\ UNCHANGED op

publish_workspace(p) ==
    /\ pc[p] = "publish"
    /\ \/ /\ op[p].place = "creating"
          /\ \/ op' = Written(p, "CREATED", FALSE) /\ Step(p, "store") /\ NoFault
             \/ /\ op' \in {op, Written(p, "CREATED", FALSE)}
                /\ Fault /\ StateFails(p)
       \/ op[p].place # "creating" /\ Vanished(p)

create_claim_store_with_failure_ignored(p) ==
    /\ \/ /\ pc[p] = "store" /\ op[p].place # Absent
          /\ op' = [op EXCEPT ![p].store = Torn]
          /\ Step(p, "storing") /\ NoFault
       \/ /\ pc[p] = "storing" /\ op[p].place # Absent
          /\ op' = [op EXCEPT ![p].store = "ok"]
          /\ Made(p, "CREATED", "record")
       \/ /\ pc[p] \in {"store", "storing"}
          /\ Fault \/ (op[p].place # "there" /\ NoFault)
          /\ UNCHANGED <<holder, lockFile, op, outcome, removals>>
          /\ job' = [job EXCEPT ![p].id = p, ![p].mem = "CREATED"]
          /\ Goto(p, "record")

create_claim_store(p) ==
    /\ \/ /\ pc[p] = "store" /\ op[p].place # Absent
          /\ op' = [op EXCEPT ![p].store = Torn]
          /\ Step(p, "storing") /\ NoFault
       \/ /\ pc[p] = "storing" /\ op[p].place # Absent
          /\ op' = [op EXCEPT ![p].store = "ok"]
          /\ Made(p, "CREATED", "record")
       \/ /\ pc[p] \in {"store", "storing"}
          /\ Fault \/ (op[p].place # "there" /\ NoFault)
          /\ Goto(p, "unmake") /\ Report(p, "failed")
          /\ UNCHANGED <<holder, lockFile, op, job, removals>>

\* The claim store could not be made: the workspace is retired again.
unmake(p) ==
    /\ \/ /\ pc[p] = "unmake"
          /\ \/ /\ op[p].place = "there" /\ NoFault
                /\ Rename(p) /\ Goto(p, "unmaking")
             \/ /\ Fault \/ (op[p].place # "there" /\ NoFault)
                /\ Goto(p, "giveback") /\ UNCHANGED op
       \/ /\ pc[p] = "unmaking"
          /\ \/ Gone(p) /\ NoFault
             \/ Fault /\ UNCHANGED op
          /\ Goto(p, "giveback")
    /\ UNCHANGED <<holder, lockFile, job, outcome, removals>>

\* FilePlace::create: the record beside the target, in one write_state.
create_record(p) ==
    /\ pc[p] = "create" /\ Kind = "file"
    /\ \/ op' = Written(p, "CREATED", FALSE) /\ Made(p, "CREATED", "record")
       \/ WriteErr(p, "CREATED", FALSE) /\ StateFails(p)

-----------------------------------------------------------------------------
(* The record naming the state. *)

\* write_record, or Claimed::overwrite: one in-place write that a crash tears.
write_record(p) ==
    /\ pc[p] = "record"
    /\ WriteLock(p, Torn)
    /\ Goto(p, "recording")
    /\ UNCHANGED <<holder, op, job, outcome, faults, removals>>

\* After the write: a claim whose file has left the lock path starts again
\* with the state it has (D1), until the passes are used up.
record_written(p) ==
    LET moved == job[p].claimed /\ holder # p IN
    /\ pc[p] = "recording"
    /\ WriteLock(p, RecordName(p))
    /\ \/ /\ ~moved
          /\ Goto(p, IF job[p].claimed THEN "takeover"
                     ELSE IF IsCleanup(p) THEN "row" ELSE "work")
          /\ UNCHANGED <<job, outcome>>
       \/ /\ moved /\ job[p].rounds < MaxRounds
          /\ job' = [job EXCEPT ![p].rounds = @ + 1, ![p].claimed = FALSE]
          /\ Goto(p, "obtain")
          /\ UNCHANGED outcome
       \/ /\ moved /\ job[p].rounds = MaxRounds
          /\ Goto(p, "ended") /\ Report(p, "refused")
          /\ UNCHANGED job
    /\ UNCHANGED <<holder, op, faults, removals>>

\* The write fails: a lock this run made is given back, a claimed one closes.
RecordFails(p) ==
    /\ pc[p] = "recording" /\ Fault
    /\ \/ WriteLock(p, RecordName(p)) \/ UNCHANGED lockFile
    /\ IF job[p].claimed THEN Unhold(p) /\ Goto(p, "ended")
       ELSE Goto(p, "giveback") /\ UNCHANGED holder
    /\ Report(p, "failed")
    /\ UNCHANGED <<op, job, removals>>

\* stop_after_record: the run's own step failed.
stop_after_record(p) == /\ Goto(p, "fail") /\ Report(p, "failed")
                        /\ UNCHANGED <<holder, lockFile, job, removals>>

\* Section 240.5 step 6: the takeover goes into this operation's state.
takeover(p) ==
    /\ pc[p] = "takeover"
    /\ \/ WriteOk(Own(p), job[p].mem, FALSE) /\ Step(p, "work")
       \/ WriteErr(Own(p), job[p].mem, FALSE) /\ stop_after_record(p)

-----------------------------------------------------------------------------
(* Work on other operations: supersede, then finish_priors.  Everything is  *)
(* set ABANDONED before anything is swept, swept before anything is removed, *)
(* and a renamed workspace is emptied before the next step.                  *)

AtWork(p, o, phase) ==
    /\ pc[p] = "work" /\ o \in Todo(p)[phase]
    /\ \/ phase = "retiring"
       \/ /\ Todo(p).retiring = {}
          /\ phase # "abandon" => Todo(p).abandon = {}
          /\ phase \notin {"abandon", "sweep"} => Todo(p).sweep = {}
          /\ phase \in {"finish", "debris"} => Todo(p).remove = {}
          /\ phase = "debris" => Todo(p).finish = {}

\* One operation leaves a phase: done with, or on to the next phase.
Drop(p, o, from)     == SetWork(p, [Todo(p) EXCEPT ![from] = @ \ {o}])
Move(p, o, from, to) == SetWork(p, [Todo(p) EXCEPT ![from] = @ \ {o},
                                                   ![to] = @ \cup {o}])
Worked(p) == Goto(p, "work") /\ UNCHANGED <<holder, lockFile, outcome, removals>>

abandon(p, o) ==
    /\ AtWork(p, o, "abandon") /\ ok[p]
    /\ \/ /\ WriteOk(o, "ABANDONED", FALSE)
          /\ Move(p, o, "abandon", "sweep") /\ Worked(p)
       \/ /\ WriteErr(o, "ABANDONED", FALSE)
          /\ IF IsCleanup(p) THEN Drop(p, o, "abandon") /\ Worked(p)
             ELSE stop_after_record(p)

\* A directory the sweep's walk cannot list may hold a partial: every
\* operation's state stays.  A scratch error ends the walk, and a copy.
sweep_unlistable(p) ==
    /\ Kind = "tree" /\ \E o \in Todo(p).sweep : AtWork(p, o, "sweep")
    /\ Todo(p).remove = {} /\ Todo(p).keep = {} /\ Fault
    /\ \/ /\ SetWork(p, [Todo(p) EXCEPT !.keep = Todo(p).sweep])
          /\ Worked(p)
       \/ ~IsCleanup(p) /\ stop_after_record(p)
    /\ UNCHANGED op

sweep_partials_without_keeping(p, o) ==
    /\ AtWork(p, o, "sweep")
    /\ \/ /\ (op[o].partial \/ Kind = "file") => ok[p]
          /\ op' = [op EXCEPT ![o].partial = FALSE] /\ NoFault
          /\ IF o \in Todo(p).keep THEN Drop(p, o, "sweep")
             ELSE Move(p, o, "sweep", "remove")
       \/ /\ op[o].partial /\ ok[p] /\ Fault
          /\ Move(p, o, "sweep", "remove") /\ UNCHANGED op
    /\ Worked(p)

\* The partials of one operation: gone, or one of them stays and with it the
\* ABANDONED state that names it.
sweep_partials(p, o) ==
    /\ AtWork(p, o, "sweep")
    /\ \/ /\ (op[o].partial \/ Kind = "file") => ok[p]
          /\ op' = [op EXCEPT ![o].partial = FALSE] /\ NoFault
          /\ IF o \in Todo(p).keep THEN Drop(p, o, "sweep")
             ELSE Move(p, o, "sweep", "remove")
       \/ /\ op[o].partial /\ ok[p] /\ Fault
          /\ Drop(p, o, "sweep") /\ UNCHANGED op
    /\ Worked(p)

\* retire_workspace's rename, or remove_record; a failure is a warning.
retire(p, o, from) ==
    \/ /\ op[o].place = "there" /\ NoFault
       /\ IF Kind = "tree" THEN Rename(o) /\ Move(p, o, from, "retiring")
          ELSE Gone(o) /\ Drop(p, o, from)
    \/ /\ op[o].place # "there" /\ NoFault /\ Drop(p, o, from) /\ UNCHANGED op
    \/ Fault /\ Drop(p, o, from) /\ UNCHANGED op

remove(p, o) ==
    AtWork(p, o, "remove") /\ ok[p] /\ retire(p, o, "remove") /\ Worked(p)

\* finish_completed: the recorded leftovers, then the state.
finish_completed(p, o) ==
    /\ AtWork(p, o, "finish") /\ ok[p]
    /\ \/ /\ op[o].recorded /\ op[o].partial
          /\ \/ /\ op' = [op EXCEPT ![o].partial = FALSE]
                /\ NoFault /\ UNCHANGED job
             \/ Fault /\ Drop(p, o, "finish") /\ UNCHANGED op
       \/ ~(op[o].recorded /\ op[o].partial) /\ retire(p, o, "finish")
    /\ Worked(p)

\* finish_retire of a workspace just renamed, and of debris.
finish_retire(p, o) ==
    /\ \/ AtWork(p, o, "retiring") /\ Drop(p, o, "retiring")
       \/ AtWork(p, o, "debris") /\ ok[p] /\ Drop(p, o, "debris")
    /\ \/ op[o].place \in {"creating", "removing"} /\ Gone(o) /\ NoFault
       \/ op[o].place \notin {"creating", "removing"} /\ UNCHANGED <<op, faults>>
       \/ Fault /\ UNCHANGED op
    /\ Worked(p)

work_done(p) ==
    /\ pc[p] = "work" /\ ~WorkLeft(p)
    /\ SetWork(p, NoWork)
    /\ Goto(p, IF IsCleanup(p) THEN "row" ELSE "transfer")
    /\ UNCHANGED <<holder, lockFile, op, outcome, faults, removals>>

-----------------------------------------------------------------------------
(* flux cleanup: a listing without the lock, then one pass under it. *)

\* probe_lock: the lock is free, with a readable record if any.
LockFree == holder = None /\ lockFile \notin {Empty, Torn}

\* classify of an operation or debris beside a free lock: age decides about a
\* resumable operation, so either answer is possible.
classify(o) ==
    CASE Is(o, {"COMPLETED", "ABANDONED"})        -> {TRUE}
      [] op[o].place \in {"creating", "removing"} -> {TRUE}
      [] Is(o, Resumable)                         -> {TRUE, FALSE}
      [] OTHER                                    -> {FALSE}

\* discover: the listing without the lock.  A lock whose workspace is missing
\* is a row of its own, eligible by age.
discover(p) ==
    LET orphan  == LockFree /\ lockFile \in Run /\ ~Trusted(lockFile)
        rank(o) == IF Is(o, OpState \ {"COMPLETED"}) THEN 1 ELSE 0
    IN /\ pc[p] = "discover"
       /\ \E eligible \in [Run \ {p} -> BOOLEAN] :
            LET rows == {<<o, op[o].place, rank(o)>> :
                            o \in {q \in Run \ {p} : eligible[q]}}
            IN /\ \A o \in Run \ {p} :
                    eligible[o] \in IF LockFree THEN classify(o) ELSE {FALSE}
               /\ job' = [job EXCEPT ![p].rows = rows]
               /\ \/ (rows # {} \/ orphan) /\ Goto(p, "obtain")
                  \/ rows = {} /\ Goto(p, "ended")
       /\ UNCHANGED <<holder, lockFile, op, outcome, faults, removals>>

\* Pass::row, debris and COMPLETED rows first: the row is read again under the
\* lock; one that changed since the listing, or is not eligible, is skipped.
row(p) ==
    /\ pc[p] = "row"
    /\ \E r \in {q \in job[p].rows : \A s \in job[p].rows : q[3] <= s[3]} :
         LET o    == r[1]
             todo == [NoWork EXCEPT
                 !.abandon = IF Is(o, Resumable) THEN {o} ELSE {},
                 !.sweep   = IF Is(o, {"ABANDONED"}) THEN {o} ELSE {},
                 !.finish  = IF Is(o, {"COMPLETED"}) THEN {o} ELSE {},
                 !.debris  = IF op[o].place # "there" THEN {o} ELSE {}]
         IN \E eligible \in IF op[o].place = r[2] THEN classify(o) ELSE {FALSE} :
              job' = [job EXCEPT ![p].rows = @ \ {r},
                                 ![p].work = IF eligible THEN todo ELSE NoWork]
    /\ Goto(p, "work")
    /\ UNCHANGED <<holder, lockFile, op, outcome, faults, removals>>

\* run_pass after the last row.
run_pass_ends(p) ==
    /\ pc[p] = "row" /\ job[p].rows = {}
    /\ Goto(p, "release")
    /\ UNCHANGED <<holder, lockFile, op, job, outcome, faults, removals>>

-----------------------------------------------------------------------------
(* The copy and the finish. *)

transfer(p) ==
    /\ pc[p] = "transfer" /\ ok[p]
    /\ \/ /\ WriteOk(Own(p), "TRANSFERRING", FALSE)
          /\ job' = [job EXCEPT ![p].mem = "TRANSFERRING"]
          /\ Goto(p, "copy")
          /\ UNCHANGED <<holder, lockFile, outcome, removals>>
       \/ WriteErr(Own(p), "TRANSFERRING", FALSE) /\ stop_after_record(p)

\* The copy stages a temporary, or publishes or removes it.
copy(p) ==
    /\ pc[p] \in {"copy", "copying"} /\ ok[p]
    /\ op' = [op EXCEPT ![Own(p)].partial = ~@]
    /\ Step(p, "copying") /\ NoFault

copy_ends_with_rollback_of_adopted(p) ==
    /\ pc[p] \in {"copy", "copying"}
    /\ \/ /\ Kind = "file" /\ op[Own(p)].partial => Adopted(p)
          /\ Goto(p, "complete") /\ UNCHANGED outcome
       \/ Goto(p, "fail") /\ Report(p, "failed")
       \/ /\ pc[p] = "copy"
          /\ Goto(p, "rollback") /\ UNCHANGED outcome
    /\ UNCHANGED <<holder, lockFile, op, job, faults, removals>>

\* How the copy ends.  A refusal that changed nothing rolls this run's own
\* operation back; an adopted one is kept FAILED.
copy_ends(p) ==
    /\ pc[p] \in {"copy", "copying"}
    /\ \/ /\ Kind = "file" /\ op[Own(p)].partial => Adopted(p)
          /\ Goto(p, "complete") /\ UNCHANGED outcome
       \/ Goto(p, "fail") /\ Report(p, "failed")
       \/ /\ pc[p] = "copy"
          /\ IF Adopted(p) THEN Goto(p, "fail") /\ Report(p, "refused")
             ELSE Goto(p, "rollback") /\ UNCHANGED outcome
    /\ UNCHANGED <<holder, lockFile, op, job, faults, removals>>

\* What the copy could not remove, as COMPLETED records it (a single file has
\* none).  A temporary an earlier attempt left is among that only if this
\* attempt came across it.
leftovers(p) == CASE Kind = "file" -> {FALSE}
                  [] Adopted(p)    -> {FALSE, op[Own(p)].partial}
                  [] OTHER         -> {op[Own(p)].partial}

\* COMPLETED with the leftovers, which keep the state; else the state goes.
complete(p) ==
    /\ pc[p] = "complete" /\ ok[p]
    /\ \E r \in leftovers(p) :
         \/ /\ WriteOk(Own(p), "COMPLETED", r)
            /\ job' = [job EXCEPT ![p].mem = "COMPLETED"]
            /\ Goto(p, IF r THEN "release" ELSE "unname")
            /\ Report(p, "ok") /\ UNCHANGED <<holder, lockFile, removals>>
         \/ WriteErr(Own(p), "COMPLETED", r) /\ stop_after_record(p)

rollback_without_unname(p) ==
    /\ pc[p] = "rollback" /\ ok[p]
    /\ Step(p, "removeown") /\ UNCHANGED <<op, faults>>

rollback(p) ==
    /\ pc[p] = "rollback" /\ ok[p]
    /\ Step(p, "unname") /\ UNCHANGED <<op, faults>>

\* remove_own: the record stops naming the state, then the state goes, then
\* the control directories (not modelled, but their removal can fail).  A
\* failure ends a rollback as failed; after COMPLETED it is a warning.
unname(p) ==
    /\ pc[p] = "unname"
    /\ \/ /\ WriteLock(p, Torn) /\ NoFault
          /\ Goto(p, "unnaming") /\ UNCHANGED outcome
       \/ /\ Fault /\ UNCHANGED lockFile
          /\ Goto(p, "release") /\ Report(p, "failed")
    /\ UNCHANGED <<holder, op, job, removals>>

unnamed(p) ==
    /\ pc[p] = "unnaming"
    /\ \/ /\ WriteLock(p, None) /\ NoFault
          /\ Goto(p, "removeown") /\ UNCHANGED outcome
       \/ /\ Fault /\ (WriteLock(p, None) \/ UNCHANGED lockFile)
          /\ Goto(p, "release") /\ Report(p, "failed")
    /\ UNCHANGED <<holder, op, job, removals>>

remove_own(p) ==
    LET there == op[Own(p)].place = "there" IN
    /\ \/ /\ pc[p] = "removeown" /\ there /\ Kind = "tree" /\ NoFault
          /\ Rename(Own(p)) /\ Goto(p, "removingown") /\ UNCHANGED outcome
       \/ /\ \/ pc[p] = "removeown" /\ Kind = "file"
             \/ pc[p] = "removingown"
          /\ Gone(Own(p)) /\ NoFault
          /\ Goto(p, "release") /\ UNCHANGED outcome
       \/ /\ pc[p] \in {"removeown", "removingown"}
          /\ \/ Fault /\ UNCHANGED op
             \/ Fault /\ pc[p] = "removingown" /\ Gone(Own(p))
             \/ /\ pc[p] = "removeown" /\ Kind = "tree" /\ ~there
                /\ UNCHANGED <<op, faults>>
          /\ Goto(p, "release") /\ Report(p, "failed")
    /\ UNCHANGED <<holder, lockFile, job, removals>>

\* fail: FAILED, then the release whether or not it could be written.
fail(p) ==
    /\ pc[p] = "fail" /\ ok[p]
    /\ \/ WriteOk(Own(p), "FAILED", FALSE) \/ WriteErr(Own(p), "FAILED", FALSE)
    /\ Step(p, "release")

-----------------------------------------------------------------------------
(* The environment, and the specification. *)

\* A run dies; a heartbeat it was writing is torn.
Crash(p) ==
    /\ pc[p] \notin {"discover", "obtain", "ended", "dead"}
    /\ Unhold(p) /\ Goto(p, "dead")
    /\ \/ UNCHANGED lockFile
       \/ pc[p] \in {"work", "copy", "copying"} /\ WriteLock(p, Torn)
    /\ UNCHANGED <<op, job, outcome, faults, removals>>

\* The operator removes the lock file by hand.
RemoveLock ==
    /\ removals < MaxRemovals /\ lockFile # Absent
    /\ lockFile' = Absent /\ holder' = None
    /\ removals' = removals + 1
    /\ UNCHANGED <<op, pc, ok, job, outcome, faults>>

Init ==
    /\ holder = None /\ lockFile = Absent
    /\ op = [o \in Run |-> Nothing]
    /\ pc = [p \in Run |-> IF IsCleanup(p) THEN "discover" ELSE "obtain"]
    /\ ok = [p \in Run |-> FALSE]
    /\ job = [p \in Run |-> NoJob]
    /\ outcome = [p \in Run |-> None]
    /\ faults = 0 /\ removals = 0

Work(p) == \/ sweep_unlistable(p) \/ work_done(p)
           \/ \E o \in Run : \/ abandon(p, o) \/ sweep_partials(p, o)
                             \/ remove(p, o) \/ finish_completed(p, o)
                             \/ finish_retire(p, o)
Open(p) == \/ Obtain(p) \/ scan(p) \/ adopt(p) \/ readopt(p) \/ begin_workspace(p)
           \/ probe_no_replace(p) \/ build_workspace(p) \/ publish_workspace(p)
           \/ create_claim_store(p) \/ unmake(p) \/ create_record(p)
           \/ write_record(p) \/ record_written(p) \/ RecordFails(p) \/ takeover(p)
           \/ give_back(p) \/ transfer(p)
End(p)  == \/ copy_ends(p) \/ complete(p) \/ rollback(p) \/ unname(p)
           \/ unnamed(p) \/ remove_own(p) \/ fail(p) \/ release(p)
Guard(p) == owned(p) \/ lost(p) \/ CheckFails(p)

Proceed(p) == Open(p) \/ Work(p) \/ End(p) \/ Guard(p) \/ discover(p) \/ row(p)
              \/ run_pass_ends(p)

Next == RemoveLock \/ \E p \in Run : Proceed(p) \/ copy(p) \/ Crash(p)

Spec == Init /\ [][Next]_vars

-----------------------------------------------------------------------------
(* What the operations promise. *)

\* A lock record never names state that is not there (remove_own, open_operation
\* step 5): a dead owner's lock can always be recovered without inspection,
\* unless a lock was removed by hand.
RecordNamesState ==
    removals = 0 /\ lockFile \in Run => op[lockFile].place = "there"

\* operations/<id> never exists without its manifest (create_workspace,
\* retire_workspace), so no crash makes a later run refuse STATE_CORRUPT.
PublishedHasManifest ==
    \A o \in Run : op[o].place = "there" => op[o].manifest # None

\* TRANSFERRING, FAILED or COMPLETED is never on disk without a usable claim
\* store (open_operation, "Order inside adoption"): whatever started
\* transferring can be resumed.
StoreBeforeTransfer ==
    Kind = "tree" => \A o \in Run :
        Is(o, {"TRANSFERRING", "FAILED", "COMPLETED"}) => op[o].store = "ok"

\* While a run copies, no other operation is resumable: the scan refused,
\* adopted or superseded it, so --resume later has one operation to choose.
SoleResumable ==
    \A p \in Run : pc[p] \in {"copy", "copying", "complete"} =>
        \A o \in Run \ {Own(p)} : ~Is(o, Resumable)

\* A temporary in DEST never outlives the state that lets a sweep or a finish
\* find it (J1, G2), except one that an adopted attempt did not come across.
PartialsNamed ==
    \A o \in Run : op[o].partial =>
        op[o].place = "there" \/ \E p \in Run : Adopted(p) /\ Own(p) = o

\* A copy that reported success is never offered for --resume again, unless a
\* lock was removed by hand and two runs worked on one operation.
CompletedStays ==
    \A p \in Run : removals = 0 /\ outcome[p] = "ok" /\ ~IsCleanup(p) =>
        ~Is(Own(p), Resumable)

\* ABANDONED is terminal (OpState::is_resumable): the state goes or stays so.
AbandonedStays ==
    [][\A o \in Run : Is(o, {"ABANDONED"}) /\ op'[o].place = "there" =>
         op'[o].manifest = "ABANDONED"]_vars

\* Recorded progress is given up only on request: a resumable operation ends
\* COMPLETED by the run that works on it, ABANDONED by --restart or cleanup, or
\* is removed again by the run that made it; an adopted one never by rollback.
ProgressKept ==
    [][\A o \in Run : Is(o, Resumable) =>
         \/ Is(o, Resumable)'
         \/ /\ Is(o, {"COMPLETED"})'
            /\ \E p \in Run : pc[p] = "complete" /\ Own(p) = o
         \/ /\ Is(o, {"ABANDONED"})'
            /\ \E p \in Run : /\ Flag[p] \in {"restart", "break", "cleanup"}
                               /\ pc[p] = "work" /\ Own(p) # o
         \/ op'[o].place # "there" /\ pc[o] \in {"removeown", "unmake"}]_vars

\* What a run recorded stays: progress until it is given up on request, and
\* ABANDONED for good.
OutcomesKept == ProgressKept /\ AbandonedStays

-----------------------------------------------------------------------------
(* The invariant behind those promises.  While no lock file was removed by   *)
(* hand only the holder changes the disk, so it is said of one run at a time. *)

HeldPC   == PC \ {"discover", "obtain", "ended", "dead"}
Making   == {"scan", "adopt", "readopt", "create", "probe", "build", "publish",
             "store", "storing", "unmake", "unmaking"}
Unborn   == {"discover", "obtain", "scan", "adopt", "readopt", "create", "probe",
             "build", "publish"}
Recorded == {"takeover", "work", "row", "transfer", "copy", "copying", "complete",
             "rollback", "fail", "unname"}
Resuming == {"record", "recording", "takeover", "work", "transfer", "copy",
             "copying", "complete", "rollback"}
Ending   == {"fail", "unname", "unnaming", "removeown"}

\* The lock: held exactly by the run between its first and its last step.
Holding == /\ \A p \in Run : holder = p <=> pc[p] \in HeldPC
           /\ lockFile = Absent => holder = None

\* What the lock file holds at each step of its holder.
LockSays(p) ==
    /\ pc[p] \in Making \cup {"record"} => lockFile \in {Empty, Torn}
    /\ pc[p] \in {"recording", "unnaming"} => lockFile = Torn
    /\ pc[p] \in Recorded => lockFile \in {RecordName(p), Torn}
    /\ pc[p] \in {"removeown", "removingown"} => lockFile = None

\* The steps a run takes, a copy's or a cleanup's, and the state it knows of.
PathSays(p) ==
    /\ IF IsCleanup(p)
       THEN /\ pc[p] \in {"discover", "obtain", "record", "recording", "row", "work",
                          "release", "giveback", "ended", "dead"}
            /\ Own(p) = None /\ ~job[p].claimed
            /\ \A r \in job[p].rows : r[1] # p
       ELSE pc[p] \notin {"discover", "row"}
    /\ job[p].mem = None <=> Own(p) = None
    /\ pc[p] \in {"adopt", "readopt", "removingown"} \cup Resuming \cup Ending =>
         IsCleanup(p) \/ Own(p) \in Run

\* What a run knows before its scan, and when it reports success.
WaitSays(p) ==
    /\ pc[p] \in {"discover", "obtain", "scan"} => Own(p) = None /\ Todo(p) = NoWork
    /\ outcome[p] = "ok" /\ ~IsCleanup(p) =>
         /\ Own(p) \in Run
         /\ pc[p] \in {"unname", "unnaming", "removeown", "removingown", "release",
                       "ended", "dead"}

\* A run that made no state yet has nothing on disk, and nobody works on it.
FreshSays(p) ==
    /\ pc[p] \in {"discover", "obtain", "scan", "adopt", "readopt", "create"}
         \/ Adopted(p) => op[p] = Nothing
    /\ pc[p] \in Unborn => \A q \in Run : Own(q) # p

\* The state a run makes, and the state it works on, step by step.
OwnSays(p) ==
    /\ pc[p] \in {"adopt", "readopt"} =>
         Own(p) # p /\ Is(Own(p), Resumable \cap {job[p].mem})
    /\ pc[p] = "readopt" => job[p].mem = "CREATED"
    /\ pc[p] \in Making \ {"adopt", "readopt"} => Own(p) = None
    /\ pc[p] \in {"probe", "build", "publish"} =>
         op[p].place = "creating" /\ ~op[p].partial
    /\ pc[p] \in {"store", "storing", "unmake"} => Is(p, {"CREATED"}) /\ ~op[p].partial
    /\ pc[p] = "unmaking" => op[p].place = "removing" /\ ~op[p].partial
    /\ pc[p] \in Resuming \cup Ending /\ ~IsCleanup(p) =>
         /\ Is(Own(p), OpState \ {"ABANDONED"})
         /\ Kind = "tree" => op[Own(p)].store = "ok"
    /\ pc[p] \in Resuming /\ ~IsCleanup(p) =>
         /\ Is(Own(p), Resumable) /\ job[p].mem \in Resumable
         /\ pc[p] \notin {"copying", "complete"} /\ ~Adopted(p) => ~op[p].partial
    /\ pc[p] = "complete" /\ Kind = "file" /\ op[Own(p)].partial => Adopted(p)
    /\ pc[p] = "rollback" => ~Adopted(p)
    /\ pc[p] \in {"unname", "unnaming", "removeown"} =>
         /\ Adopted(p) \/ ~op[p].partial
         /\ ~Adopted(p) \/ Is(Own(p), {"COMPLETED"})
    /\ pc[p] = "removingown" => op[Own(p)].place = "removing"
    /\ pc[p] = "fail" =>
         \A q \in Run : outcome[q] = "ok" /\ ~IsCleanup(q) => Own(q) # Own(p)

\* What a run has left to do to others, while it has not begun to copy.
Other(p) == Todo(p).sweep \cup Todo(p).keep \cup Todo(p).remove
            \cup Todo(p).retiring \cup Todo(p).finish \cup Todo(p).debris
TodoSays(p) ==
    /\ pc[p] \in Making \cup {"record", "recording", "takeover", "work", "row"} =>
         /\ {p, Own(p)} \cap (Todo(p).abandon \cup Other(p)) = {}
         /\ \A o \in Todo(p).abandon : Is(o, Resumable)
         /\ \A o \in Other(p) : ~Is(o, Resumable)
         /\ \A o \in Todo(p).remove : ~op[o].partial
         /\ \A o \in Todo(p).finish : ~Is(o, {"ABANDONED"})
         /\ Todo(p).abandon # {} => Flag[p] \in {"restart", "break", "cleanup"}
    /\ pc[p] \in HeldPC \ {"scan", "giveback", "fail", "release"} /\ ~IsCleanup(p) =>
         \A o \in Run \ {p, Own(p)} : Is(o, Resumable) => o \in Todo(p).abandon
    /\ pc[p] \in {"transfer", "copy", "copying", "complete"} => Todo(p).abandon = {}

\* A temporary an adopted attempt did not come across may outlive its record.
Missed(o) == \E p \in Run : Adopted(p) /\ Own(p) = o

\* What an operation has on disk: a claim store once it transfers, a state that
\* leads to its temporaries, and a COMPLETED that names them.
OpSays(o) ==
    /\ Kind = "tree" /\ Is(o, {"TRANSFERRING", "FAILED", "COMPLETED"}) =>
         op[o].store = "ok"
    /\ op[o].partial => op[o].place = "there" \/ Missed(o)
    /\ Is(o, {"COMPLETED"}) /\ op[o].partial => op[o].recorded \/ Missed(o)

\* The inductive invariant: every promise above, and why it is kept.
PathInv == TypeOK /\ PublishedHasManifest /\ \A p \in Run : PathSays(p)
Life    == /\ Holding /\ RecordNamesState /\ CompletedStays
           /\ \A p \in Run : /\ LockSays(p) /\ WaitSays(p) /\ FreshSays(p)
                              /\ OwnSays(p) /\ TodoSays(p) /\ OpSays(p)
LifeInv == PathInv /\ (removals = 0 => Life)

\* p starts while nothing else runs, after n failures and removals; and it copies,
\* unless it dies or there is one more.
LoneStart(p, n) ==
    /\ pc[p] = "obtain" /\ faults + removals = n
    /\ \A q \in Run \ {p} : pc[q] \in {"ended", "dead"}
GotThrough(p, n) == pc[p] \in {"copy", "dead"} \/ faults + removals # n
=============================================================================
