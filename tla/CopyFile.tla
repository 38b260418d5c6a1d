----------------------------- MODULE CopyFile -----------------------------
(***************************************************************************)
(* The copy of one file (copy.rs): `stage_file` step by step, then the     *)
(* publish of `copy_file_checkpointed`, against a source that others edit, *)
(* a lock that can be lost at any moment and calls that can fail.          *)
(*                                                                         *)
(* Content is a sequence of units, and a unit is a chunk; a digest of some *)
(* units is the units themselves.  The window between a guard and the      *)
(* mutation it guards is one step here; DestLock models it.                *)
(***************************************************************************)
EXTENDS Naturals, Sequences

CONSTANTS
    None,
    Options,    \* the option records a copy may be asked with
    Starts,     \* the directories a copy may find: records of temp and name
    Logs,       \* what the checkpoint log may know of the file
    Original,   \* the source's content at the start
    Edits,      \* bound: edits of the source by others
    Stamped,    \* TRUE when every edit moves the modification time
    Faults,     \* bound: failing calls
    MayLose     \* whether the lock may be lost

VARIABLES
    src,        \* the source: its content, stamp, whether its name is there
    dir,        \* the destination directory: the temporary and the target name
    lock,       \* this run owns the destination's lock
    opts,       \* what was asked
    log,        \* the file's checkpoints from an earlier run
    run,        \* the copy's locals
    seen,       \* every content the source had since the plan read its metadata
    left        \* what is left of the bounds

vars == <<src, dir, lock, opts, log, run, seen, left>>
world == <<src, lock, opts, log, seen>>

SrcObj == 0      \* the source's own object
DirObj == 8      \* a directory
NewObj == 3      \* the object this copy creates
Bad == 0         \* a unit the device stored wrongly
New == 9         \* the units from here on are ones no earlier content has

Steps == {"sweep", "plan", "open", "claim", "prove", "make", "begin", "carry", "stream",
          "complete", "verify", "reread", "second", "times", "perms", "sync", "recheck",
          "intent", "publish", "ended"}

Object(data, obj, links) ==
    [data |-> data, obj |-> obj, links |-> links, safe |-> FALSE, times |-> FALSE, perms |-> FALSE]

\* What a copy ended with: the leftover it reported, and whether it meant to
\* leave the temporary for a later resume.
Ended(what, reported, kept) == [what |-> what, reported |-> reported, kept |-> kept]

\* An entry of the directory, and what the copy's locals may hold.
Entry == [data : Seq(Nat), obj : Nat, links : Nat, safe : BOOLEAN, times : BOOLEAN, perms : BOOLEAN]
Meta == [len : Nat, stamp : Nat]
Result == [what : {"copied", "staged", "skipped", "failed"}, reported : BOOLEAN, kept : BOOLEAN]
Locals ==
    [pc : Steps, meta : Meta \cup {None}, pos : Nat, hash : Seq(Nat), again : Seq(Nat), carry : Seq(Nat),
     reused : Nat, copied : Nat, old : BOOLEAN, degraded : BOOLEAN, verified : BOOLEAN,
     complaints : SUBSET {"times", "perms"}, open : BOOLEAN, res : Result \cup {None}]
Dirs == [temp : Entry \cup {None}, name : Entry \cup {None}]
Bounds == [faults : 0 .. Faults, edits : 0 .. Edits]

TypeOK ==
    /\ src \in [data : Seq(Nat), stamp : Nat, there : BOOLEAN]
    /\ dir \in Dirs
    /\ lock \in BOOLEAN /\ opts \in Options
    /\ run \in Locals
    /\ (run.res # None) = (run.pc = "ended")
    /\ left \in Bounds

Init ==
    /\ src = [data |-> Original, stamp |-> 0, there |-> TRUE]
    /\ dir \in Starts /\ opts \in Options /\ log \in Logs
    /\ lock = TRUE
    /\ run = [pc |-> "sweep", meta |-> None, pos |-> 0, hash |-> <<>>, again |-> <<>>,
              carry |-> <<>>, reused |-> 0, copied |-> 0, old |-> FALSE, degraded |-> FALSE,
              verified |-> FALSE, complaints |-> {}, open |-> FALSE, res |-> None]
    /\ seen = {Original}
    /\ left = [faults |-> Faults, edits |-> Edits]

----------------------------------------------------------------------------
\* Failing and ending

\* A call of this step fails, out of the bounded number of failures.
Fault == left.faults > 0 /\ left' = [left EXCEPT !.faults = @ - 1]
NoFault == UNCHANGED left

\* The copy goes on at step s with locals r, or ends.
Go(r, s) == run' = [r EXCEPT !.pc = s]
End(r, e) == run' = [r EXCEPT !.pc = "ended", !.res = e]

\* An error before this copy has a temporary of its own: nothing is removed.
Refused == End(run, Ended("failed", FALSE, FALSE)) /\ UNCHANGED dir

\* discard: the temporary is removed under the lock; without it, or when the
\* removal fails, it stays and is reported.
Discard(faulty) ==
    IF ~lock \/ faulty
      THEN End(run, Ended("failed", TRUE, FALSE)) /\ UNCHANGED dir
      ELSE End(run, Ended("failed", FALSE, FALSE)) /\ dir' = [dir EXCEPT !.temp = None]

\* A step that fails and discards: one failure for the step, maybe one more
\* for the removal.
FailAndDiscard ==
    /\ left.faults > 0
    /\ \E again \in {FALSE} \cup (IF left.faults > 1 THEN {TRUE} ELSE {}) :
          /\ Discard(again)
          /\ left' = [left EXCEPT !.faults = IF again THEN @ - 2 ELSE @ - 1]
    /\ UNCHANGED world

\* The step found something wrong without a failing call.
MismatchDiscards ==
    /\ \/ Discard(FALSE) /\ NoFault
       \/ Discard(TRUE) /\ Fault
    /\ UNCHANGED world

\* StreamFail::Keep, and a partial that cannot be reopened: it stays for a resume.
KeepPartial == End(run, Ended("failed", FALSE, TRUE)) /\ UNCHANGED dir

\* remove_file whose answer is ignored.
SweepTemp ==
    \/ dir' = [dir EXCEPT !.temp = None] /\ NoFault
    \/ UNCHANGED dir /\ Fault

----------------------------------------------------------------------------
\* Steps 1 to 3: before there is a temporary

Hooked == opts.hook # "none"

\* Step 1: the heartbeat, the guard, and the sweep of a run without checkpoints.
Sweep ==
    /\ run.pc = "sweep"
    /\ \/ Refused /\ Fault                                  \* the heartbeat
       \/ ~lock /\ Refused /\ NoFault
       \/ /\ lock
          /\ IF Hooked THEN UNCHANGED dir /\ NoFault ELSE SweepTemp
          /\ Go(run, "plan")
    /\ UNCHANGED world

\* identity_gate, over a name that is there.
IsDir(o) == o.obj = DirObj
SameFile(o) == o.obj = SrcObj

Gate(o) ==
    IF IsDir(o) \/ (SameFile(o) /\ ~opts.weak) THEN "refused"
    ELSE IF opts.weak /\ opts.safety = "strict" THEN "refused"
    ELSE IF opts.publish = "noreplace" THEN "refused"
    ELSE IF opts.weak THEN "degraded" ELSE "ok"

\* A destination that cannot be looked at: degraded, or refused under strict.
GateUnread == IF opts.safety = "strict" THEN "refused" ELSE "degraded"

\* The policy for an existing destination: whether the copy is skipped.
Skips(o) ==
    \/ opts.existing = "skip"
    \/ opts.existing = "update" /\ Len(src.data) = Len(o.data) /\ ~opts.newer

\* plan_file answers: what the source was, the gate's verdict, whether to skip.
PlanTo(verdict, skip) ==
    IF verdict = "refused" THEN Refused /\ NoFault
    ELSE IF skip
      THEN IF Hooked /\ ~lock THEN Refused /\ NoFault
           ELSE /\ IF Hooked THEN SweepTemp ELSE UNCHANGED dir /\ NoFault
                /\ End(run, Ended("skipped", FALSE, FALSE))
    ELSE /\ Go([run EXCEPT !.meta = [len |-> Len(src.data), stamp |-> src.stamp],
                           !.degraded = verdict = "degraded"], "open")
         /\ UNCHANGED dir /\ NoFault

\* Steps 2, 2a and 2b: the source's metadata, the gate and the policy.
PlanFile ==
    /\ run.pc = "plan"
    /\ \/ ~src.there /\ Refused /\ NoFault
       \/ Refused /\ Fault                                  \* the source's metadata
       \/ /\ src.there /\ dir.name # None
          /\ GateUnread # "refused" /\ Fault                \* the destination's metadata
          /\ Go([run EXCEPT !.meta = [len |-> Len(src.data), stamp |-> src.stamp],
                            !.degraded = TRUE], "open")
          /\ UNCHANGED dir
       \/ /\ src.there /\ dir.name = None /\ PlanTo("ok", FALSE)
       \/ /\ src.there /\ dir.name # None /\ PlanTo(Gate(dir.name), Skips(dir.name))
    /\ seen' = {src.data}
    /\ UNCHANGED <<src, lock, opts, log>>

OpenSource ==
    /\ run.pc = "open"
    /\ \/ ~src.there /\ Refused /\ NoFault
       \/ Refused /\ Fault
       \/ src.there /\ Go(run, "claim") /\ UNCHANGED dir /\ NoFault
    /\ UNCHANGED world

\* Whether this file is long enough for its hook.
Checkpointed == Hooked /\ run.meta.len >= opts.min

\* plan_resume's look at the partial: a regular file with one name and a known
\* identity; anything else is swept.
Reusable(p) == p # None /\ p.links = 1

\* Under "chunks" the log must know the file and the same source; "full" and a
\* file without a log trust only the source.
LogAnswers ==
    opts.hook = "chunks" => log.kind = "began" /\ log.len = run.meta.len /\ log.stamp = run.meta.stamp

\* The sweep of a hooked run, whose answer is ignored, and the exclusive create.
CreateFresh ==
    \/ /\ Hooked \/ dir.temp = None
       /\ dir' = [dir EXCEPT !.temp = Object(<<>>, NewObj, 1)]
       /\ Go([run EXCEPT !.open = TRUE], "begin")
       /\ NoFault
    \/ ~Hooked /\ dir.temp # None /\ Refused /\ NoFault        \* it exists
    \/ Refused /\ Fault                          \* the sweep or the create failed
    \/ /\ Hooked /\ dir.temp # None /\ Fault     \* swept, then not created
       /\ dir' = [dir EXCEPT !.temp = None]
       /\ End(run, Ended("failed", FALSE, FALSE))

\* The heartbeat, the guard and the claim; then a checkpointed file looks for a
\* partial to prove, and a copy without a hook creates at once.
Claim ==
    /\ run.pc = "claim"
    /\ \/ Refused /\ Fault                                  \* the heartbeat or the claim
       \/ ~lock /\ Refused /\ NoFault
       \/ /\ lock /\ Hooked /\ NoFault /\ UNCHANGED dir
          /\ Go(run, IF Checkpointed /\ LogAnswers /\ Reusable(dir.temp) THEN "prove" ELSE "make")
       \/ lock /\ ~Hooked /\ CreateFresh
    /\ UNCHANGED world

\* The chunk the decider looks at next, counted from 1.
ProveAt == run.pos + 1

\* The decider's loop ends before reading: no recorded digest, or the source
\* or the partial ends here.
ProvenAll ==
    \/ ProveAt > run.meta.len \/ ProveAt > Len(dir.temp.data)
    \/ opts.hook = "chunks" /\ ProveAt > Len(log.digests)

\* A chunk is trusted when the source, the partial and (under chunks) the
\* record agree.
ChunkProven(unit) ==
    /\ dir.temp.data[ProveAt] = unit
    /\ opts.hook = "chunks" => log.digests[ProveAt] = unit

\* The decider's verdict: reopen what was proven, if anything, and write first
\* the bytes it read past that.
Verdict(carry) ==
    Go([run EXCEPT !.old = run.pos > 0, !.carry = carry, !.pos = @ + Len(carry)], "make")

\* decide and decide_full, a chunk at a time: the source's bytes are read now.
Prove ==
    /\ run.pc = "prove" /\ UNCHANGED dir
    /\ \/ Refused /\ Fault                                  \* the heartbeat or the read
       \/ /\ NoFault
          /\ IF ProvenAll \/ ProveAt > Len(src.data) THEN Verdict(<<>>)
             ELSE LET unit == src.data[ProveAt]
                  IN  IF ChunkProven(unit)
                        THEN run' = [run EXCEPT !.pos = @ + 1, !.hash = Append(@, unit)]
                        ELSE Verdict(<<unit>>)
    /\ UNCHANGED world

\* truncate_to: bytes past what was proven are never trusted.
Cut(p) == [p EXCEPT !.data = SubSeq(@, 1, Len(run.hash)), !.safe = FALSE]

\* Step 3 of a hooked run: reopen the partial and cut it at what was proven, or
\* create afresh.
MakeTemp ==
    /\ run.pc = "make"
    /\ \/ ~lock /\ Refused /\ NoFault
       \/ run.old /\ lock /\ KeepPartial /\ Fault             \* open_existing, truncate_to
       \/ /\ run.old /\ lock /\ NoFault
          /\ dir' = [dir EXCEPT !.temp = Cut(@)]
          /\ Go([run EXCEPT !.reused = Len(run.hash), !.open = TRUE], "begin")
       \/ ~run.old /\ lock /\ CreateFresh
    /\ UNCHANGED world

----------------------------------------------------------------------------
\* Steps 4 and 5b: the content

Logged == opts.hook \in {"chunks", "full"} /\ run.meta.len >= opts.min

\* FileSink::begin and record_proven: the log's failure keeps the partial, any
\* other (the heartbeat, the duplicate handle) discards it.
BeginSink ==
    /\ run.pc = "begin"
    /\ \/ Go(run, "carry") /\ UNCHANGED <<dir, world>> /\ NoFault
       \/ Logged /\ KeepPartial /\ UNCHANGED world /\ Fault
       \/ Logged /\ FailAndDiscard

\* write_all of one unit, which the device may store wrongly without telling.
Write(unit) == dir' = [dir EXCEPT !.temp.data = Append(@, unit), !.temp.safe = FALSE]

\* The units are hashed as they were read, whatever is stored.
Written(r, unit) == [r EXCEPT !.hash = Append(@, unit), !.copied = @ + 1]

WriteCarry ==
    /\ run.pc = "carry"
    /\ \/ /\ run.carry = <<>> /\ Go(run, "stream") /\ UNCHANGED <<dir, world>> /\ NoFault
       \/ /\ run.carry # <<>> /\ UNCHANGED world
          /\ \/ Write(run.carry[1]) /\ NoFault
             \/ opts.corrupt /\ Write(Bad) /\ Fault
          /\ Go([Written(run, run.carry[1]) EXCEPT !.carry = <<>>], "stream")
       \/ run.carry # <<>> /\ FailAndDiscard                 \* the write, the heartbeat
       \/ run.carry # <<>> /\ Logged /\ KeepPartial /\ UNCHANGED world /\ Fault

\* One turn of the loop: read, hash, write, hand to the sink, beat.
Stream ==
    /\ run.pc = "stream"
    /\ \/ /\ run.pos >= Len(src.data) /\ Go(run, "complete")
          /\ UNCHANGED <<dir, world>> /\ NoFault
       \/ /\ run.pos < Len(src.data) /\ UNCHANGED world
          /\ LET unit == src.data[run.pos + 1]
             IN  /\ \/ Write(unit) /\ NoFault
                    \/ opts.corrupt /\ Write(Bad) /\ Fault
                 /\ run' = [Written(run, unit) EXCEPT !.pos = @ + 1]
       \/ FailAndDiscard                                     \* read, write or heartbeat
       \/ Logged /\ KeepPartial /\ UNCHANGED world /\ Fault   \* the sink: the log failed

Rereads == opts.verify \in {"destination", "full"}

CompleteSink ==
    /\ run.pc = "complete"
    /\ \/ Go(run, IF Rereads THEN "verify" ELSE "times") /\ UNCHANGED <<dir, world>> /\ NoFault
       \/ Logged /\ KeepPartial /\ UNCHANGED world /\ Fault
       \/ Logged /\ FailAndDiscard                           \* the data sync, the heartbeat

\* mutant: only the length is looked at again.
SourceSame_length == src.there /\ Len(src.data) = run.meta.len

\* recheck_source: the source is there with the length and time it had.
SourceSame == src.there /\ Len(src.data) = run.meta.len /\ src.stamp = run.meta.stamp

Recheck(next) ==
    \/ SourceSame /\ Go(run, next) /\ UNCHANGED <<dir, world>> /\ NoFault
    \/ ~SourceSame /\ MismatchDiscards
    \/ FailAndDiscard

\* Step 5b: a changed source first, so that it costs no re-read.
VerifySource == run.pc = "verify" /\ Recheck("reread")

\* The temporary's own bytes against what was read from the source.
Reread ==
    /\ run.pc = "reread"
    /\ \/ /\ dir.temp.data = run.hash
          /\ IF opts.verify = "full" THEN Go(run, "second")
             ELSE Go([run EXCEPT !.verified = TRUE], "times")
          /\ UNCHANGED <<dir, world>> /\ NoFault
       \/ dir.temp.data # run.hash /\ MismatchDiscards
       \/ FailAndDiscard

\* full: the source is read again, unit by unit, and compared at its end.
SecondRead ==
    /\ run.pc = "second"
    /\ \/ /\ Len(run.again) < Len(src.data)
          /\ run' = [run EXCEPT !.again = Append(@, src.data[Len(@) + 1])]
          /\ UNCHANGED <<dir, world>> /\ NoFault
       \/ /\ Len(run.again) >= Len(src.data)
          /\ IF run.again = run.hash
               THEN Go([run EXCEPT !.verified = TRUE], "times") /\ UNCHANGED <<dir, world>> /\ NoFault
               ELSE MismatchDiscards
       \/ ~src.there /\ run.again = <<>> /\ MismatchDiscards   \* it cannot be opened
       \/ FailAndDiscard

----------------------------------------------------------------------------
\* Steps 6 and 7: metadata, durability, publication

\* One item of metadata, applied to the temporary: a strict failure ends the
\* copy, a default one is reported with it.
Metadata(item, level, next) ==
    \/ level = "off" /\ Go(run, next) /\ UNCHANGED <<dir, world>> /\ NoFault
    \/ /\ level # "off"
       /\ Go(run, next) /\ UNCHANGED world /\ NoFault
       /\ dir' = [dir EXCEPT !.temp[item] = TRUE, !.temp.safe = FALSE]
    \/ /\ level = "default"
       /\ Go([run EXCEPT !.complaints = @ \cup {item}], next)
       /\ UNCHANGED <<dir, world>> /\ Fault
    \/ level = "strict" /\ FailAndDiscard

SetTimes == run.pc = "times" /\ Metadata("times", opts.times, "perms")

SetPermissions == run.pc = "perms" /\ Metadata("perms", opts.perms, "sync")

SyncsHere == opts.at = "staging" /\ opts.durability = "strict"

\* Step 6b: one sync covers the data and the metadata.
SyncData ==
    /\ run.pc = "sync"
    /\ \/ /\ Go(run, "recheck") /\ UNCHANGED world /\ NoFault
          /\ dir' = IF SyncsHere THEN [dir EXCEPT !.temp.safe = TRUE] ELSE dir
       \/ SyncsHere /\ FailAndDiscard

\* Step 7: at the barrier the staged temporary and its writer are handed out.
RecheckSource ==
    /\ run.pc = "recheck"
    /\ IF opts.at = "barrier" /\ SourceSame
         THEN /\ End(run, Ended("staged", FALSE, FALSE)) /\ UNCHANGED <<dir, world>> /\ NoFault
         ELSE Recheck("intent")

\* before_publish: its error discards the temporary.
BeforePublish ==
    /\ run.pc = "intent"
    /\ \/ Go([run EXCEPT !.open = FALSE], "publish") /\ UNCHANGED <<dir, world>> /\ NoFault
       \/ FailAndDiscard

Renamed ==
    /\ dir' = [temp |-> None, name |-> dir.temp]
    /\ End(run, Ended("copied", FALSE, FALSE))

\* publish_staged: heartbeat, guard, rename.  Without the lock the temporary is
\* kept and reported; a rename that fails discards it.
Publish ==
    /\ run.pc = "publish"
    /\ \/ FailAndDiscard
       \/ /\ ~lock /\ NoFault /\ UNCHANGED <<dir, world>>
          /\ End(run, Ended("failed", TRUE, FALSE))
       \/ /\ lock /\ UNCHANGED world /\ NoFault /\ Renamed
          /\ dir.name # None => opts.publish = "replace" /\ ~IsDir(dir.name)
       \/ /\ lock /\ dir.name # None
          /\ opts.publish = "noreplace" \/ IsDir(dir.name)
          /\ MismatchDiscards

----------------------------------------------------------------------------
\* The others

\* What an edit may make of the source; without stamps only a unit changes.
EditedData ==
    {[src.data EXCEPT ![i] = New + left.edits] : i \in DOMAIN src.data}
        \cup (IF Stamped THEN {Append(src.data, New), SubSeq(src.data, 1, Len(src.data) - 1)} ELSE {})

EditSource ==
    /\ left.edits > 0 /\ run.pc # "ended"
    /\ left' = [left EXCEPT !.edits = @ - 1]
    /\ \/ \E d \in EditedData :
             src' = [src EXCEPT !.data = d, !.stamp = IF Stamped THEN @ + 1 ELSE @]
       \/ src.there /\ src' = [src EXCEPT !.there = FALSE]
    /\ seen' = seen \cup {src'.data}
    /\ UNCHANGED <<dir, lock, opts, log, run>>

\* Another program makes the target after the gate looked.
NameTaken ==
    /\ opts.publish = "noreplace" /\ dir.name = None /\ run.pc # "ended" /\ left.edits > 0
    /\ dir' = [dir EXCEPT !.name = Object(<<Bad>>, 5, 1)]
    /\ left' = [left EXCEPT !.edits = @ - 1]
    /\ UNCHANGED <<src, lock, opts, log, run, seen>>

LoseLock ==
    /\ MayLose /\ lock /\ run.pc # "ended"
    /\ lock' = FALSE
    /\ UNCHANGED <<src, dir, opts, log, run, seen, left>>

Copy ==
    \/ Sweep \/ PlanFile \/ OpenSource \/ Claim \/ Prove \/ MakeTemp
    \/ BeginSink \/ WriteCarry \/ Stream \/ CompleteSink
    \/ VerifySource \/ Reread \/ SecondRead
    \/ SetTimes \/ SetPermissions \/ SyncData \/ RecheckSource \/ BeforePublish \/ Publish

Others == EditSource \/ NameTaken \/ LoseLock

Next == Copy \/ Others

Spec == Init /\ [][Next]_vars

----------------------------------------------------------------------------
\* Properties

Is(what) == run.pc = "ended" /\ run.res.what = what

\* What is published is the source as it was at one moment of this copy, never
\* a mixture: the recheck catches edits that move the time, and `full` catches
\* those that do not; a device that stores something else is caught by the
\* re-read.  It holds for a resumed prefix as for a fresh copy.
PublishedIsVersion ==
    Is("copied") /\ (Stamped \/ opts.verify = "full") /\ (opts.corrupt => Rereads)
        => dir.name.data \in seen

\* A copy that fails leaves no temporary of its own behind unless it says so:
\* discard's "a leftover the caller is never told about is a leak".  What it
\* keeps silently is a partial meant for a resume, or one it never opened.
FailureAccounted ==
    Is("failed") /\ dir.temp # None /\ run.open => run.res.reported \/ run.res.kept

\* A lost lock ends this copy's changes to the directory (section 99): nothing
\* is created, removed or renamed any more.
LockedWrites ==
    (dir.temp = None) # (dir'.temp = None) \/ (run' # run /\ dir'.name # dir.name) => lock

\* Under strict durability nothing is published before its data and the
\* metadata applied to it are on the disk.
StrictIsSynced ==
    Is("copied") /\ opts.durability = "strict" => dir.name.safe

\* Strict metadata is on what is published; what is missing otherwise is in
\* the outcome's complaints.
MetadataTold ==
    Is("copied") => /\ opts.times # "off" => dir.name.times \/ "times" \in run.complaints
                    /\ opts.times = "strict" => dir.name.times
                    /\ opts.perms # "off" => dir.name.perms \/ "perms" \in run.complaints
                    /\ opts.perms = "strict" => dir.name.perms

\* An object with a second name is never written through, so that no other
\* name's content changes.
SecondNameUntouched ==
    dir.temp # None /\ dir'.temp # None /\ dir.temp.links > 1 /\ dir'.temp.links > 1
       => dir'.temp.data = dir.temp.data

\* The source is replaced by its own copy only where its identity could not be
\* compared, and then the outcome says so and strict safety forbids it.
SelfCopyTold ==
    dir.name # None /\ dir'.name # dir.name /\ SameFile(dir.name)
       => run.degraded /\ opts.safety = "default"

\* What was reused and what was copied make up the whole file.
ReuseAddsUp == Is("copied") => run.reused + run.copied = Len(dir.name.data)

----------------------------------------------------------------------------
\* The inductive invariant

\* What a copy may be asked and may find: the source's units are none of those
\* an edit makes, a directory holds entries, and options are those of the code.
CopyConstants ==
    /\ Edits \in Nat /\ Faults \in Nat /\ Stamped \in BOOLEAN
    /\ Original \in Seq(Nat)
    /\ \A i \in DOMAIN Original : Original[i] < New \/ Original[i] > New + Edits
    /\ None \notin Entry \cup Meta \cup Result
    /\ Starts \subseteq Dirs
    /\ \A o \in Options : o.at \in {"staging", "barrier"} /\ o.safety \in {"default", "strict"}
                          /\ o.corrupt \in BOOLEAN

\* The steps before this copy has a temporary of its own, from its plan on, with
\* its temporary, after the stream, after the re-read, and past the last recheck.
BeforeTemp == {"sweep", "plan", "open", "claim", "prove", "make"}
Planned == Steps \ {"sweep", "plan", "ended"}
WithTemp == Planned \ BeforeTemp
Reading == {"begin", "carry", "stream"}
Compared == {"second", "times", "perms", "sync", "recheck", "intent", "publish"}
Past == {"intent", "publish"}

\* What the copy has at each step.
Proving == run.pc = "prove" \/ (run.pc = "make" /\ run.old)
StepSays ==
    /\ run.pc \in Planned => run.meta # None
    /\ run.pc \in BeforeTemp => ~ run.open /\ run.reused = 0 /\ run.copied = 0
    /\ run.pc \in BeforeTemp /\ ~ Proving => run.hash = << >>
    /\ run.pc \in {"sweep", "plan", "open", "claim"} => ~ run.old
    /\ run.pc \notin {"make", "begin", "carry", "ended"} => run.carry = << >>
    /\ run.pc \notin Compared \cup {"ended"} => run.again = << >>
    /\ run.pc # "ended" => Len(run.carry) <= 1 /\ run.pos = Len(run.hash) + Len(run.carry)
    /\ Proving \/ run.pc \in WithTemp => dir.temp # None /\ dir.temp.links = 1

\* The temporary holds the units hashed: in a partial at least, as far as it was
\* proven; then exactly, unless the device stored something else and nothing
\* has compared them yet.
TempSays ==
    /\ Proving => /\ Len(run.hash) <= Len(dir.temp.data)
                  /\ \A i \in DOMAIN run.hash : dir.temp.data[i] = run.hash[i]
    /\ run.pc \in WithTemp => /\ Len(dir.temp.data) = Len(run.hash)
                              /\ run.reused + run.copied = Len(run.hash)
                              /\ ~ opts.corrupt \/ (Rereads /\ run.pc \in Compared)
                                    => dir.temp.data = run.hash

\* Where every edit moves the time: while the source has the time of the plan,
\* the units hashed are its own, and all of them once the stream has ended.
StampSays ==
    Stamped =>
        /\ run.pc \in Planned => run.meta.stamp <= src.stamp
        /\ run.pc \in Planned \ Past /\ src.stamp = run.meta.stamp =>
              /\ run.pos <= Len(src.data)
              /\ \A i \in DOMAIN run.hash : run.hash[i] = src.data[i]
              /\ \A i \in DOMAIN run.carry : run.carry[i] = src.data[Len(run.hash) + i]
              /\ run.pc \in WithTemp \ Reading => Len(run.hash) = Len(src.data)
        /\ run.pc \in Past => run.hash \in seen

\* Where edits leave the time alone: an edit makes a unit that was nowhere
\* before, so what the second read finds unchanged did not change in between,
\* and some content the source had agrees with all that is still unchanged.
Older(u) == u < New \/ u > New + left.edits
Witnesses(d) ==
    /\ Len(d) = Len(run.hash)
    /\ \A i \in DOMAIN run.hash :
          \/ d[i] = run.hash[i]
          \/ IF i <= Len(run.again) THEN run.again[i] # run.hash[i] ELSE src.data[i] # run.hash[i]
QuietSays ==
    ~ Stamped =>
        /\ \A i \in DOMAIN src.data : Older(src.data[i])
        /\ \A i \in DOMAIN run.hash : Older(run.hash[i])
        /\ \A i \in DOMAIN run.carry : Older(run.carry[i])
        /\ run.pc # "ended" => run.pos <= Len(src.data)
        /\ run.pc \in WithTemp \ Reading => Len(run.hash) = Len(src.data)
        /\ run.pc = "second" => \E d \in seen : Witnesses(d)
        /\ run.pc \in Compared \ {"second"} /\ opts.verify = "full" => run.hash \in seen

\* What was applied to the temporary or told, and what the gate let through.
Told(o, item, level) ==
    /\ level # "off" => o[item] \/ item \in run.complaints
    /\ level = "strict" => o[item]
GateSays ==
    /\ run.pc \in {"perms", "sync", "recheck"} \cup Past => Told(dir.temp, "times", opts.times)
    /\ run.pc \in {"sync", "recheck"} \cup Past => Told(dir.temp, "perms", opts.perms)
    /\ run.pc \in {"recheck"} \cup Past /\ SyncsHere => dir.temp.safe
    /\ run.pc \in Past => opts.at = "staging"
    /\ run.pc \in Planned /\ dir.name # None /\ SameFile(dir.name) =>
          run.degraded /\ opts.safety = "default"

\* The invariant of the copy: what every step of stage_file and the publish relies
\* on, and the promises of a copy that has ended.
CopyInv ==
    /\ TypeOK /\ src.data \in seen /\ seen \subseteq Seq(Nat)
    /\ StepSays /\ TempSays /\ StampSays /\ QuietSays /\ GateSays
    /\ PublishedIsVersion /\ FailureAccounted /\ StrictIsSynced /\ MetadataTold /\ ReuseAddsUp

=============================================================================
