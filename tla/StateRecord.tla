----------------------------- MODULE StateRecord -----------------------------
(***************************************************************************)
(* An operation's state record across the runs at one destination:         *)
(* crates/flux-core/src/state.rs (the record, encode, decode, validate),   *)
(* run/resume.rs (validate), and the writers of the record: run/session.rs *)
(* open_operation, run/restart.rs supersede, run/mod.rs complete, fail and *)
(* rollback, over run/place.rs FilePlace.                                  *)
(*                                                                         *)
(* A record's bytes are the JSON object they hold: a function from keys to *)
(* values, with serde's defaulted and skipped keys.  write_state replaces  *)
(* the bytes or leaves them, and either may be reported as a failure (its  *)
(* steps are those of Workspace); the lock is held throughout (DestLock),  *)
(* and the copy is its outcome.                                            *)
(***************************************************************************)
EXTENDS Integers, Sequences, FiniteSets, TLC

CONSTANTS
    None,        \* an absent value
    Kind,        \* "tree" or "file": what the operations copy
    Commands,    \* the commands runs are started with
    Staged,      \* what earlier binaries may have left: "nothing", "older", "stranger", "newer"
    Former,      \* the roots and options such a record is about
    Targets,     \* what may be at a single file's target name before
    Runs,        \* runs that may start
    Limit,       \* STATE_LIMIT, in entries of the leftovers list
    MaxLeft,     \* leftovers a copy may end with
    Faults,      \* record writes and removals that may fail
    Crashes,     \* runs that may die
    Edits,       \* options another program may change in a record
    Appears      \* files another program may put at the target name

VARIABLES
    disk,     \* the bytes of each operation's record
    partial,  \* the operations whose partial is on disk
    target,   \* the object at the target name (a single file)
    run,      \* the run in progress
    started,  \* runs started so far
    budget,   \* faults, crashes, edits and appearances left
    wrote,    \* the state each record was last written from
    asked,    \* the command that last wrote each record
    used      \* the WAL generations a copy has run under

vars == <<disk, partial, target, run, started, budget, wrote, asked, used>>
hist == <<wrote, asked, used>>

-----------------------------------------------------------------------------
(* The record and its versions. *)

V1 == 1
V2 == 2
V3 == 3
FORMAT_VERSION == 4
MULTI_ROOT_FORMAT == 5
Versions == V1..MULTI_ROOT_FORMAT

States == {"CREATED", "TRANSFERRING", "FAILED", "COMPLETED", "ABANDONED"}
is_resumable(state) == state \in {"CREATED", "TRANSFERRING", "FAILED"}

KEYS == {"format_version", "operation_id", "kind", "state", "superseded_by", "takeover"}
CLEANUP_KEYS == {"cleanup_pending", "cleanup_pending_artifacts"}
FILE_KEYS == {"attempt_id", "artifact_generation", "target_identity"}
CONFIG_KEYS == {"roots", "options", "configuration_fingerprint"}
WAL_KEYS == {"wal_generation"}

OLD_OPTIONS == {"preserve_times", "durability", "safety", "existing"}
NEW_OPTIONS == [links |-> "copy", cross_filesystems |-> FALSE, exclude |-> <<>>, recursive |-> TRUE]
OPTIONS == OLD_OPTIONS \cup DOMAIN NEW_OPTIONS

OptionValues ==
    [preserve_times : {"off", "default", "strict"}, durability : {"normal", "strict"},
     safety : {"default", "strict"}, existing : {"overwrite", "update", "skip-existing"},
     links : {"copy", "skip"}, cross_filesystems : BOOLEAN, exclude : Seq(Nat),
     recursive : BOOLEAN]

\* The configuration's lines; the options added later only where they differ
\* from their default, durability not at all.
canonical_bytes(o) ==
    <<o.preserve_times, o.safety, o.existing>>
    \o (IF o.links = "skip" THEN <<"links">> ELSE <<>>)
    \o (IF o.cross_filesystems THEN <<"cross_filesystems">> ELSE <<>>)
    \o o.exclude \o (IF o.recursive THEN <<>> ELSE <<"norecursive">>)

\* blake3 of the lines, taken to be collision free.
fingerprint(o) == canonical_bytes(o)

Config(roots, options) ==
    [roots |-> roots, options |-> options, configuration_fingerprint |-> fingerprint(options)]

\* A new operation's state in a version's form; file is None for a tree.
created_in(version, id, file, config) ==
    [format_version |-> version, operation_id |-> id, kind |-> Kind, state |-> "CREATED",
     superseded_by |-> None, takeover |-> None,
     cleanup |-> IF version >= V2
                 THEN [cleanup_pending |-> FALSE, cleanup_pending_artifacts |-> <<>>] ELSE None,
     file |-> IF version >= V2 THEN file ELSE None,
     config |-> IF version >= V3 THEN config ELSE None,
     wal |-> IF version >= FORMAT_VERSION THEN [wal_generation |-> 1] ELSE None]

created(id, file, config) ==
    created_in(IF Len(config.roots) >= 2 THEN MULTI_ROOT_FORMAT ELSE FORMAT_VERSION,
               id, file, config)

-----------------------------------------------------------------------------
(* The bytes.  A JSON object is the function from its keys to their values. *)

\* serde: an option with its default is not written.
options_json(o) ==
    [k \in OLD_OPTIONS \cup {n \in DOMAIN NEW_OPTIONS : o[n] # NEW_OPTIONS[n]} |-> o[k]]

\* serde: an absent key reads as its default.
options_of(j) == [k \in OPTIONS |-> IF k \in DOMAIN j THEN j[k] ELSE NEW_OPTIONS[k]]

root_json(r) == [k \in {n \in DOMAIN r : n # "kind" \/ r[n] # None} |-> r[k]]
root_of(j) == [k \in DOMAIN j \cup {"kind"} |-> IF k \in DOMAIN j THEN j[k] ELSE None]

object(part) == IF part = None THEN <<>> ELSE part

encode(s) ==
    LET config == IF s.config = None THEN <<>>
                  ELSE [s.config EXCEPT !.options = options_json(@),
                                        !.roots = [i \in DOMAIN @ |-> root_json(@[i])]]
    IN  [k \in KEYS |-> s[k]] @@ object(s.cleanup) @@ object(s.file) @@ config @@ object(s.wal)

\* The length of the bytes, counted in leftovers.
Length(j) == IF "cleanup_pending_artifacts" \in DOMAIN j
             THEN Len(j.cleanup_pending_artifacts) ELSE 0

Expected(j) ==
    KEYS \cup (IF j.format_version >= V2 THEN CLEANUP_KEYS ELSE {})
         \cup (IF j.format_version >= V2 /\ j.kind = "file" THEN FILE_KEYS ELSE {})
         \cup (IF j.format_version >= V3 THEN CONFIG_KEYS ELSE {})
         \cup (IF j.format_version >= FORMAT_VERSION THEN WAL_KEYS ELSE {})

take(j, keys) == IF keys \subseteq DOMAIN j THEN [k \in keys |-> j[k]] ELSE None

Parsed(j) ==
    LET config == take(j, CONFIG_KEYS)
    IN  [k \in KEYS |-> j[k]]
        @@ [cleanup |-> take(j, CLEANUP_KEYS), file |-> take(j, FILE_KEYS),
            wal |-> take(j, WAL_KEYS),
            config |-> IF config = None THEN None
                       ELSE [config EXCEPT !.options = options_of(@),
                                           !.roots = [i \in DOMAIN @ |-> root_of(@[i])]]]

StrictlySorted(seq) == \A i \in 1..Len(seq) - 1 : seq[i] < seq[i + 1]

ValidConfig(s) ==
    s.config # None =>
      /\ IF s.format_version >= MULTI_ROOT_FORMAT
         THEN Len(s.config.roots) >= 2 ELSE Len(s.config.roots) = 1
      /\ \A i \in DOMAIN s.config.roots :
           LET r == s.config.roots[i]
           IN  /\ (s.format_version >= MULTI_ROOT_FORMAT) = (r.kind # None)
               /\ s.format_version >= MULTI_ROOT_FORMAT => r.destination_prefix # ""
      /\ s.config.options \in OptionValues
      /\ StrictlySorted(s.config.options.exclude)

ValidCleanup(s) ==
    s.cleanup # None => s.cleanup.cleanup_pending = (s.state = "COMPLETED")

ValidFile(s) ==
    s.file # None =>
      /\ s.file.artifact_generation > 0
      /\ s.state = "COMPLETED" => s.file.target_identity # None

validate(s) ==
    /\ (s.format_version >= V3) = (s.config # None)
    /\ (s.format_version >= FORMAT_VERSION) = (s.wal # None)
    /\ (s.format_version >= V2) = (s.cleanup # None)
    /\ (s.format_version >= V2 /\ s.kind = "file") = (s.file # None)
    /\ ValidConfig(s)
    /\ s.wal # None => s.wal.wal_generation > 0
    /\ ValidCleanup(s)
    /\ ValidFile(s)

Ok(s) == [is |-> "ok", state |-> s]
Corrupt == [is |-> "corrupt", state |-> None]
Incompatible == [is |-> "incompatible", state |-> None]

decode(j) ==
    IF Length(j) > Limit THEN Corrupt
    ELSE IF "format_version" \notin DOMAIN j THEN Corrupt
    ELSE IF j.format_version \notin Versions THEN Incompatible
    ELSE IF DOMAIN j # Expected(j) THEN Corrupt
    ELSE IF validate(Parsed(j)) THEN Ok(Parsed(j)) ELSE Corrupt

-----------------------------------------------------------------------------
(* resume.rs: whether a prior's configuration admits this run. *)

\* Two strong identities decide; without two, the path.
SameRoot(then, now) ==
    IF then.source_identity.strong /\ now.source_identity.strong
    THEN then.source_identity = now.source_identity
    ELSE then.source_root = now.source_root

RootsMatch(then, now) ==
    /\ Len(then) = Len(now)
    /\ \A i \in DOMAIN then :
         /\ (then[i].kind # None /\ now[i].kind # None) => then[i].kind = now[i].kind
         /\ SameRoot(then[i], now[i])
         /\ then[i].destination_prefix = now[i].destination_prefix

resume_validate(s, cmd) ==
    IF s.config = None \/ s.format_version < FORMAT_VERSION THEN "incompatible"
    ELSE IF fingerprint(s.config.options) # s.config.configuration_fingerprint THEN "corrupt"
    ELSE IF /\ RootsMatch(s.config.roots, cmd.roots)
            /\ \A k \in OPTIONS \ {"durability"} : s.config.options[k] = cmd.options[k]
            /\ s.config.options.durability = "strict" => cmd.options.durability = "strict"
         THEN "admitted" ELSE "incompatible"

\* The configuration an adopted record carries.
Admitted(s, cmd) == [s.config EXCEPT !.options.durability = cmd.options.durability]

-----------------------------------------------------------------------------
(* A run, from the scan to the release. *)

Ids == 0..Runs

Idle == [pc |-> "idle", id |-> None, cmd |-> None, state |-> None, priors |-> {}, sweep |-> {},
         gone |-> {}, completed |-> {}, adopted |-> FALSE, left |-> 0, published |-> None]

Goto(pc) == run' = [run EXCEPT !.pc = pc]
End == run' = Idle

Spend(what) == /\ budget[what] > 0
               /\ budget' = [budget EXCEPT ![what] = @ - 1]

OnDisk == {id \in Ids : disk[id] # None}

\* place.write: the record of s replaces what the operation's name held.
Written(s) ==
    /\ disk' = [disk EXCEPT ![s.operation_id] = encode(s)]
    /\ wrote' = [wrote EXCEPT ![s.operation_id] = s]
    /\ asked' = [asked EXCEPT ![s.operation_id] = IF s.state = "ABANDONED" THEN @ ELSE run.cmd]

\* A write that fails: before the rename the name keeps what it held; the
\* flush after the rename fails with the new record at the name.
WriteFails(s) ==
    /\ Spend("fault")
    /\ Written(s) \/ UNCHANGED <<disk, wrote, asked>>

Removed(id) ==
    /\ disk' = [disk EXCEPT ![id] = None]
    /\ wrote' = [wrote EXCEPT ![id] = None]
    /\ asked' = [asked EXCEPT ![id] = None]

\* A removal that fails at the record, or after it at its temporary.
RemoveFails(id) ==
    /\ Spend("fault")
    /\ Removed(id) \/ UNCHANGED <<disk, wrote, asked>>

Read(id) == decode(disk[id])
Resumable == {id \in OnDisk : Read(id).is = "ok" /\ is_resumable(Read(id).state.state)}
Completed == {id \in OnDisk : Read(id).is = "ok" /\ Read(id).state.state = "COMPLETED"}

Unusable == {id \in OnDisk : Read(id).is # "ok"}

Begun(cmd) == [Idle EXCEPT !.id = started + 1, !.cmd = cmd, !.completed = Completed]

\* Step 4 of open_operation: what the scan lets this run do.
Choice(cmd) ==
    IF Unusable # {} THEN "refused"
    ELSE IF cmd.mode = "restart" \/ Resumable = {} THEN "create"
    ELSE IF cmd.mode = "resume" /\ Cardinality(Resumable) = 1 THEN "adopt"
    ELSE "refused"

Start(cmd) ==
    /\ run.pc = "idle" /\ started < Runs
    /\ started' = started + 1
    /\ run' = CASE Choice(cmd) = "refused" -> Idle
                [] Choice(cmd) = "create" ->
                     [Begun(cmd) EXCEPT !.pc = "create",
                        !.priors = IF cmd.mode = "restart" THEN Resumable ELSE {}]
                [] Choice(cmd) = "adopt" -> [Begun(cmd) EXCEPT !.pc = "adopt"]
    /\ UNCHANGED <<disk, partial, target, budget, hist>>

\* A fresh operation's record; a write that fails gives the lock back.
Fresh == created(run.id, IF Kind = "file"
                         THEN [attempt_id |-> run.id, artifact_generation |-> 1,
                               target_identity |-> target] ELSE None,
                 Config(run.cmd.roots, run.cmd.options))

create ==
    /\ run.pc = "create"
    /\ \/ /\ Written(Fresh) /\ UNCHANGED budget
          /\ run' = [run EXCEPT !.pc = "claim", !.state = Fresh]
       \/ WriteFails(Fresh) /\ End
    /\ UNCHANGED <<partial, target, started, used>>

\* An adopted record: the admitted configuration, the next WAL generation,
\* and this attempt's fields for a single file.
Adopted(s) ==
    [s EXCEPT !.config = Admitted(s, run.cmd),
              !.wal.wal_generation = @ + 1,
              !.file = IF @ = None THEN None
                       ELSE [@ EXCEPT !.attempt_id = run.id, !.artifact_generation = @ + 1]]

adopt ==
    /\ run.pc = "adopt"
    /\ \E id \in Resumable :
         LET s == Read(id).state
         IN  IF resume_validate(s, run.cmd) = "admitted"
             THEN run' = [run EXCEPT !.pc = "claim", !.state = Adopted(s), !.adopted = TRUE]
             ELSE End
    /\ UNCHANGED <<disk, partial, target, started, budget, hist>>

\* The record names the operation; a claimed lock's takeover is recorded in
\* the state.
claim ==
    /\ run.pc = "claim"
    /\ \/ ~run.cmd.break /\ Goto("supersede") /\ UNCHANGED <<disk, wrote, asked, budget>>
       \/ LET s == [run.state EXCEPT !.takeover = "unreadable"]
          IN  /\ run.cmd.break
              /\ \/ Written(s) /\ UNCHANGED budget
                    /\ run' = [run EXCEPT !.pc = "supersede", !.state = s]
                 \/ WriteFails(s) /\ run' = [run EXCEPT !.pc = "fail", !.state = s]
    /\ UNCHANGED <<partial, target, started, used>>

Superseded(s) ==
    [s EXCEPT !.state = "ABANDONED", !.superseded_by = run.state.operation_id]

supersede ==
    /\ run.pc = "supersede"
    /\ \/ run.priors = {} /\ Goto("sweep") /\ UNCHANGED <<disk, wrote, asked, budget>>
       \/ \E id \in run.priors :
            \/ /\ Written(Superseded(Read(id).state)) /\ UNCHANGED budget
               /\ run' = [run EXCEPT !.priors = @ \ {id}, !.sweep = @ \cup {id}]
            \/ WriteFails(Superseded(Read(id).state)) /\ Goto("fail")
    /\ UNCHANGED <<partial, target, started, used>>

\* FilePlace::sweep: each superseded operation's partial.
sweep ==
    /\ run.pc = "sweep"
    /\ \/ run.sweep = {} /\ Goto("drop") /\ UNCHANGED <<partial, budget>>
       \/ \E id \in run.sweep :
            \/ partial' = partial \ {id} /\ UNCHANGED budget
               /\ run' = [run EXCEPT !.sweep = @ \ {id}, !.gone = @ \cup {id}]
            \/ Spend("fault") /\ UNCHANGED partial
               /\ run' = [run EXCEPT !.sweep = @ \ {id}]
    /\ UNCHANGED <<disk, target, started, hist>>

\* FilePlace::remove of each one whose partial is gone; a failure is a
\* warning.
drop ==
    /\ run.pc = "drop"
    /\ \/ run.gone = {} /\ Goto("finish") /\ UNCHANGED <<disk, wrote, asked, budget>>
       \/ \E id \in run.gone :
            /\ run' = [run EXCEPT !.gone = @ \ {id}]
            /\ (Removed(id) /\ UNCHANGED budget) \/ RemoveFails(id)
    /\ UNCHANGED <<partial, target, started, used>>

Artifacts(id) == IF wrote[id].cleanup = None THEN <<>>
                 ELSE Read(id).state.cleanup.cleanup_pending_artifacts
Recognised(id) == \A i \in DOMAIN Artifacts(id) : Artifacts(id)[i] = "own"

\* finish_priors, finish_completed: what each COMPLETED operation left, then
\* its record.  One name that is not the operation's keeps everything.
finish_priors ==
    /\ run.pc = "finish"
    /\ \/ run.completed = {} /\ Goto("transfer") /\ UNCHANGED <<disk, wrote, asked, partial, budget>>
       \/ \E id \in run.completed :
            /\ run' = [run EXCEPT !.completed = @ \ {id}]
            /\ \/ ~Recognised(id) /\ UNCHANGED <<disk, wrote, asked, partial, budget>>
               \/ /\ Recognised(id)
                  /\ (Removed(id) /\ UNCHANGED budget) \/ RemoveFails(id)
                  /\ partial' = IF Artifacts(id) = <<>> THEN partial ELSE partial \ {id}
               \/ /\ Recognised(id) /\ Artifacts(id) # <<>> /\ Spend("fault")
                  /\ UNCHANGED <<disk, wrote, asked, partial>>
    /\ UNCHANGED <<target, started, used>>

\* The last write of step 5.
transfer ==
    /\ run.pc = "transfer"
    /\ LET s == [run.state EXCEPT !.state = "TRANSFERRING"]
       IN  \/ /\ Written(s) /\ UNCHANGED budget
              /\ run' = [run EXCEPT !.pc = "copy", !.state = s]
              /\ used' = used \cup {<<s.operation_id, s.wal.wal_generation>>}
           \/ /\ WriteFails(s) /\ UNCHANGED used
              /\ run' = [run EXCEPT !.pc = "fail", !.state = s]
    /\ UNCHANGED <<partial, target, started>>

\* How the copy ends, as finish needs it.
Copied ==
    LET id == run.state.operation_id
    IN  \/ /\ Kind = "file"
           /\ run' = [run EXCEPT !.pc = "complete", !.published = run.id]
           /\ target' = run.id /\ partial' = partial \ {id}
        \/ \E n \in 0..MaxLeft :
             /\ Kind = "tree"
             /\ run' = [run EXCEPT !.pc = "complete", !.left = n]
             /\ partial' = IF n = 0 THEN partial \ {id} ELSE partial \cup {id}
             /\ UNCHANGED target
Skipped ==
    /\ Kind = "file" /\ run.state.config.options.existing # "overwrite" /\ target # None
    /\ Goto("complete") /\ UNCHANGED <<partial, target>>
Failed == /\ Goto("fail") /\ UNCHANGED target
          /\ partial' \in {partial, partial \cup {run.state.operation_id}}
RefusedUnchanged == /\ run.state.operation_id \notin partial
                    /\ Goto(IF run.adopted THEN "fail" ELSE "rollback")
                    /\ UNCHANGED <<partial, target>>
Lost == End /\ UNCHANGED <<partial, target>>

copy ==
    /\ run.pc = "copy"
    /\ Copied \/ Skipped \/ Failed \/ RefusedUnchanged \/ Lost
    /\ UNCHANGED <<disk, started, budget, hist>>

\* mutant: the published target is not recorded.
Done_unpublished ==
    [run.state EXCEPT !.state = "COMPLETED",
       !.cleanup = IF @ = None THEN None
                   ELSE [cleanup_pending |-> TRUE, cleanup_pending_artifacts |-> <<>>]]
\* The COMPLETED record: what is left to clean, and the published target.
Done ==
    [run.state EXCEPT !.state = "COMPLETED",
       !.cleanup = IF @ = None THEN None
                   ELSE [cleanup_pending |-> TRUE,
                         cleanup_pending_artifacts |-> [i \in 1..run.left |-> "own"]],
       !.file = IF @ = None \/ run.published = None THEN @
                ELSE [@ EXCEPT !.target_identity = run.published]]

\* Built as a copy, adopted only once the write succeeds: after one that
\* fails, FAILED is written from the state before it.
complete ==
    /\ run.pc = "complete"
    /\ \/ /\ Written(Done) /\ UNCHANGED budget
          /\ IF run.left > 0 THEN End ELSE run' = [run EXCEPT !.pc = "remove", !.state = Done]
       \/ WriteFails(Done) /\ Goto("fail")
    /\ UNCHANGED <<partial, target, started, used>>

\* remove_own, after COMPLETED and for a rollback.
remove_own ==
    /\ run.pc \in {"remove", "rollback"}
    /\ End
    /\ \/ Removed(run.state.operation_id) /\ UNCHANGED budget
       \/ RemoveFails(run.state.operation_id)
    /\ UNCHANGED <<partial, target, started, used>>

\* FAILED, from the state in hand, best effort.
fail ==
    /\ run.pc = "fail"
    /\ End
    /\ LET s == [run.state EXCEPT !.state = "FAILED"]
       IN  (Written(s) /\ UNCHANGED budget) \/ WriteFails(s)
    /\ UNCHANGED <<partial, target, started, used>>

-----------------------------------------------------------------------------
(* What the runs do not control. *)

Crash ==
    /\ run.pc # "idle"
    /\ Spend("crash") /\ End
    /\ UNCHANGED <<disk, partial, target, started, hist>>

\* Someone else puts a file at the target name.
Appear ==
    /\ Kind = "file" /\ target = None
    /\ Spend("appear")
    /\ target' = 0
    /\ UNCHANGED <<disk, partial, run, started, hist>>

\* A stored option is changed by hand, its fingerprint is not.
Edit ==
    /\ run.pc = "idle"
    /\ Spend("edit")
    /\ \E id \in OnDisk, cmd \in Commands :
         /\ "options" \in DOMAIN disk[id]
         /\ disk' = [disk EXCEPT ![id].options = options_json(cmd.options)]
    /\ UNCHANGED <<partial, target, run, started, hist>>

\* What earlier runs and binaries leave: a record of each version and state and its partial, one that lists a name
\* that is not its own, and one of a version to come.
Old(version, state) ==
    LET file == IF Kind = "file"
                THEN [attempt_id |-> 0, artifact_generation |-> 1, target_identity |-> 0] ELSE None
        s == [created_in(version, 0, file, Config(Former.roots, Former.options)) EXCEPT !.state = state]
    IN  IF state = "COMPLETED" /\ version >= V2
        THEN [s EXCEPT !.cleanup.cleanup_pending = TRUE,
                       !.cleanup.cleanup_pending_artifacts = <<"own">>]
        ELSE s
Leave(record, left) == [record |-> record, partial |-> left]
Found(what) ==
    CASE what = "nothing" -> {Leave(None, FALSE)}
      [] what = "older" -> {Leave(encode(Old(v, st)), v # V1 /\ st # "CREATED") :
                              v \in V1..FORMAT_VERSION, st \in {"CREATED", "FAILED", "COMPLETED", "ABANDONED"}}
      [] what = "stranger" ->
           {Leave(encode([Old(FORMAT_VERSION, "COMPLETED")
                            EXCEPT !.cleanup.cleanup_pending_artifacts = <<"own", "other">>]), TRUE)}
      [] what = "newer" -> {Leave(("format_version" :> 6) @@ ("something" :> 1), FALSE)}

Init ==
    /\ \E old \in UNION {Found(what) : what \in Staged} :
         /\ disk = [id \in Ids |-> IF id = 0 THEN old.record ELSE None]
         /\ wrote = [id \in Ids |-> IF id = 0 /\ old.record # None /\ decode(old.record).is = "ok"
                                    THEN decode(old.record).state ELSE None]
         /\ partial = IF old.partial THEN {0} ELSE {}
    /\ target \in Targets
    /\ run = Idle
    /\ started = 0
    /\ budget = [fault |-> Faults, crash |-> Crashes, edit |-> Edits, appear |-> Appears]
    /\ asked = [id \in Ids |-> None]
    /\ used = {}

Step == create \/ adopt \/ claim \/ supersede \/ sweep \/ drop \/ finish_priors
        \/ transfer \/ copy \/ complete \/ remove_own \/ fail

Next == (\E cmd \in Commands : Start(cmd)) \/ Step \/ Crash \/ Appear \/ Edit

Spec == Init /\ [][Next]_vars

-----------------------------------------------------------------------------
(* Properties. *)

\* The run's place, the records' owners and the budgets stay in their sets.
TypeOK ==
    /\ run.pc \in {"idle", "create", "adopt", "claim", "supersede", "sweep", "drop", "finish",
                   "transfer", "copy", "complete", "remove", "rollback", "fail"}
    /\ DOMAIN disk = Ids /\ partial \subseteq Ids
    /\ \A id \in Ids : wrote[id] # None => wrote[id].operation_id = id /\ disk[id] # None
    /\ run.pc \notin {"idle", "create", "adopt"} => run.state.state \in States
    /\ \A u \in used : u[1] \in Ids /\ u[2] \in Nat \ {0}

\* What complete may write that decode refuses: a skipped single file that
\* had no target when its operation was created, and a list of leftovers
\* past STATE_LIMIT.
Unreadable(s) ==
    /\ s.state = "COMPLETED"
    /\ \/ /\ s.file # None /\ s.file.target_identity = None
          /\ s.config.options.existing # "overwrite"
       \/ Length(encode(s)) > Limit

\* Every record the code writes is read back as the state it was written
\* from, whatever its version and whichever write failed on the way.  Two
\* COMPLETED records are not, and a later run refuses with STATE_CORRUPT.
WrittenIsReadable ==
    \A id \in Ids : wrote[id] # None =>
      decode(disk[id]) = IF Unreadable(wrote[id]) THEN Corrupt ELSE Ok(wrote[id])

\* The design document (docs/superpowers/specs/2026-10-02-cut-7b-state-v2-
\* and-heartbeat-design.md:109): a single file's COMPLETED record has a
\* target identity.
CompletedNamesTarget ==
    \A id \in Ids :
      wrote[id] # None /\ wrote[id].state = "COMPLETED" /\ wrote[id].file # None
        => wrote[id].file.target_identity # None

\* The command that last wrote a resumable record may resume it.
OwnCommandResumes ==
    \A id \in Resumable :
      asked[id] # None => resume_validate(Read(id).state, asked[id]) = "admitted"

\* A record of options that all have their default is one an older binary,
\* which knows none of the later keys, still reads.
OlderBinaryReads ==
    \A id \in OnDisk :
      ("options" \in DOMAIN disk[id] /\ wrote[id] # None
       /\ \A k \in DOMAIN NEW_OPTIONS : wrote[id].config.options[k] = NEW_OPTIONS[k])
        => /\ DOMAIN disk[id].options = OLD_OPTIONS
           /\ disk[id].configuration_fingerprint
                = <<wrote[id].config.options.preserve_times, wrote[id].config.options.safety,
                    wrote[id].config.options.existing>>

\* A partial on disk is named by a record on disk.
PartialsNamed == \A id \in partial : disk[id] # None

\* A COMPLETED record whose operation left something behind lists it.
LeftoversListed ==
    \A id \in partial \cap Completed : id # 0 => Artifacts(id) # <<>>

\* The copy runs under the options its operation was created with, as this
\* run asks them, whatever was done to the record in between.
CopiesAsAsked ==
    run.pc = "copy" =>
      /\ run.state.config.options = run.cmd.options
      /\ run.state.config.configuration_fingerprint = fingerprint(run.cmd.options)

\* The one terminal record a run writes over: its own COMPLETED, whose write
\* was reported as failed after the rename, becomes FAILED.
OwnUnflushed(a, b) ==
    /\ run.pc = "fail" /\ a.operation_id = run.state.operation_id
    /\ a.state = "COMPLETED" /\ b.state = "FAILED"

\* A rewrite never upgrades a record, never changes what it copies, lowers
\* neither its durability nor its generations, never forgets a takeover, and
\* revives no terminal state but the run's own whose write failed.
RewriteKeeps ==
    \A id \in Ids :
      (wrote[id] # None /\ wrote'[id] # None /\ wrote'[id] # wrote[id]) =>
        LET a == wrote[id]
            b == wrote'[id]
        IN  /\ a.format_version = b.format_version
            /\ is_resumable(a.state) \/ OwnUnflushed(a, b)
            /\ a.takeover # None => b.takeover # None
            /\ a.wal # None => b.wal.wal_generation >= a.wal.wal_generation
            /\ a.file # None => b.file.artifact_generation >= a.file.artifact_generation
            /\ a.config # None =>
                 /\ b.config.roots = a.config.roots
                 /\ \A k \in OPTIONS \ {"durability"} : b.config.options[k] = a.config.options[k]
                 /\ a.config.options.durability = "strict" => b.config.options.durability = "strict"

\* No two copies run under one WAL generation of one operation.
GenerationIsFresh ==
    (run'.pc = "copy" /\ run.pc = "transfer") =>
      <<run'.state.operation_id, run'.state.wal.wal_generation>> \notin used

\* An operation is abandoned only for one whose record is on disk.
HeirIsRecorded ==
    \A id \in Ids :
      (wrote'[id] # None /\ wrote'[id].state = "ABANDONED" /\ wrote'[id] # wrote[id])
        => wrote'[wrote'[id].superseded_by] # None

=============================================================================
