----------------------------- MODULE Workspace -----------------------------
(***************************************************************************)
(* The control directories of one tree destination, call by call: DEST,    *)
(* DEST/.flux, DEST/.flux/operations, and each operation's workspace as    *)
(* <id>.creating, <id> and <id>.removing with the files inside.  Runs      *)
(* follow one another under the destination's lock (DestLock); a process   *)
(* may die between any two calls, any call may fail, the power may be      *)
(* lost, and others may drop files among Flux's own.                       *)
(*                                                                         *)
(* A run executes a script of calls per phase: `run.todo` is what is left  *)
(* of the phase, `run.queue` the workspaces the phase still removes.       *)
(***************************************************************************)
EXTENDS Integers, FiniteSets, Sequences, SequencesExt

CONSTANTS MaxRuns,    \* runs of the program, one after another
          MaxFaults,  \* calls that fail
          MaxCrashes, \* processes that die
          MaxLosses,  \* power losses
          MaxForeign, \* objects put there by others
          Worlds,     \* destinations the first run finds: the arguments of Fresh
          None

VARIABLES cur,  \* the directories as every process sees them
          dur,  \* the directories as they are on the medium
          run,  \* the running process, or None
          out,  \* how the last run ended
          left  \* runs, faults, crashes, power losses, foreign objects left

vars == <<cur, dur, run, out, left>>

Ops == 1 .. MaxRuns
Files == {"manifest", "manifest.tmp", "probe", "probe.tmp", "state.db",
          "hardlinks.db", "scratch", "wal", "stranger"}
Records == {"manifest", "manifest.tmp"}
States == {"created", "transferring", "failed", "completed", "abandoned"}
Names == {"none", "creating", "id", "removing"}

\* A workspace: its entries, what the two records hold, which of them are
\* flushed, and the entries of wal/.
NoObject == [ent |-> {}, val |-> [f \in Records |-> "torn"], ok |-> {}, wal |-> {}]
NoOps == [o \in Ops |-> "none"]

\* A destination with no operations in it.
Fresh(dest, data, flux, ops, other) ==
    [dest |-> dest, data |-> data, flux |-> flux, ops |-> ops, other |-> other,
     name |-> NoOps, obj |-> [o \in Ops |-> NoObject]]

Idle == run = None
Rest == Tail(run.todo)
Is(c) == run # None /\ run.todo # << >> /\ Head(run.todo)[1] = c
O == Head(run.todo)[2]
Own == run.id

-----------------------------------------------------------------------------
\* Scripts

\* F4: the temporary removed, created, written and flushed, renamed over the
\* record, the directory flushed.
write_state(o, s) ==
    << <<"tmprm", o>>, <<"tmpnew", o>>, <<"tmpwrite", o, s>>, <<"tmpsync", o>>,
       <<"commit", o>>, <<"wssync", o>> >>

\* The known names, then wal/, then a scratch file's name, then the directory;
\* a name that is absent needs no call.
finish_retire(o) ==
    LET in(f) == f \in cur.obj[o].ent
        log == IF in("wal") THEN << <<"walrm", o, "segment">>, <<"walrm", o, "corrupt">>, <<"walrmdir", o>> >>
               ELSE << >>
        rm(fs) == [i \in 1 .. Len(fs) |-> <<"rm", o, fs[i]>>]
    IN  rm(SelectSeq(<<"manifest", "manifest.tmp", "probe", "probe.tmp", "state.db", "hardlinks.db">>, in))
           \o log \o rm(SelectSeq(<<"scratch">>, in)) \o << <<"rmws", o>> >>

\* Renamed to <id>.removing first, which no scan takes for an operation.
retire_workspace(o) == << <<"retire", o>> >> \o finish_retire(o)

operations_dir == << <<"mk", "flux">>, <<"mk", "ops">> >>

remove_control_dirs(rollback) ==
    << <<"rmdir", "ops">>, <<"rmdir", "flux">> >>
       \o (IF rollback THEN << <<"rmdest">> >> ELSE << >>)

\* mutant: the workspace takes its name before its manifest is in it.
publish_workspace_early(o) ==
    << <<"publish", o>>, <<"opssync">> >> \o write_state(o, "created")

\* The manifest written crash-safely, <id>.creating renamed without replacing,
\* operations/ flushed.
publish_workspace(o) ==
    write_state(o, "created") \o << <<"publish", o>>, <<"opssync">> >>

-----------------------------------------------------------------------------
\* What is at the destination

Has(o, f) == f \in cur.obj[o].ent
Man(o) == cur.obj[o].val["manifest"]
At(w) == {o \in Ops : cur.name[o] = w}
Listed == cur.dest = "dir" /\ cur.flux = "dir" /\ cur.ops = "dir"

\* `check_control_plane`: nothing foreign at a control path.
check_control_plane ==
    cur.dest = "dir" => cur.flux # "other" /\ (cur.flux = "dir" => cur.ops # "other")

\* `scan_tree`: the operations found, by their states; the debris by its name.
Found(ss) == IF Listed THEN {o \in At("id") : Man(o) \in ss} ELSE { }
Resumable == Found({"created", "transferring", "failed"})
Completed == Found({"completed"})
Debris == IF Listed THEN At("creating") \cup At("removing") ELSE { }
Corrupt == Listed /\ \E o \in At("id") : ~Has(o, "manifest") \/ Man(o) = "torn"

-----------------------------------------------------------------------------
\* A run's start and end

\* What a run found that its end is compared with.
Base(id) == [dest |-> cur.dest, data |-> cur.data, flux |-> cur.flux, name |-> cur.name[id]]

Ended(kind, changed) ==
    /\ out' = [kind |-> kind, changed |-> changed, id |-> Own, base |-> run.base,
               warned |-> run.warned]
    /\ run' = None

\* Completed, with a warning: a leftover keeps the workspace, or a removal
\* failed.
EndedKept ==
    /\ out' = [kind |-> "completed", changed |-> TRUE, id |-> Own, base |-> run.base, warned |-> TRUE]
    /\ run' = None

Refused(why, id) ==
    /\ out' = [kind |-> why, changed |-> FALSE, id |-> id, base |-> Base(id), warned |-> FALSE]
    /\ UNCHANGED run

Begun(id, phase, todo, priors, flag) ==
    [id |-> id, phase |-> phase, todo |-> todo, queue |-> << >>, base |-> Base(id),
     made |-> FALSE, warned |-> FALSE, priors |-> priors, completed |-> Completed,
     debris |-> Debris, end |-> flag, worked |-> FALSE]

CreateScript == (IF cur.dest = "absent" THEN << <<"dest">> >> ELSE << >>)
                   \o operations_dir \o << <<"begin">> >>

\* Steps 2 and 4: the control plane is checked and the priors are classified;
\* then the run makes its own workspace, or adopts the one resumable prior.
Start(mode) ==
    LET id == MaxRuns - left.runs + 1
    IN  /\ Idle /\ left.runs > 0
        /\ left' = [left EXCEPT !.runs = @ - 1]
        /\ CASE ~check_control_plane -> Refused("conflict", id)
             [] check_control_plane /\ Corrupt -> Refused("corrupt", id)
             [] check_control_plane /\ ~Corrupt /\ Resumable # {}
                  /\ ~(mode = "restart" \/ (mode = "resume" /\ Cardinality(Resumable) = 1))
                  -> Refused("resumable", id)
             [] check_control_plane /\ ~Corrupt /\ mode = "resume" /\ Cardinality(Resumable) = 1
                  -> LET o == CHOOSE p \in Resumable : TRUE
                     IN  /\ run' = Begun(o, "adopt", operations_dir \o << <<"openstore", o>> >>, {}, "adopted")
                         /\ UNCHANGED out
             [] OTHER
                  -> /\ run' = Begun(id, "create", CreateScript, Resumable, "new")
                     /\ UNCHANGED out
        /\ UNCHANGED <<cur, dur>>

-----------------------------------------------------------------------------
\* Phases: what follows a script that is done, and a call that fails

Enter(phase, todo) == [run EXCEPT !.phase = phase, !.todo = todo]
Queue(phase, set) == [run EXCEPT !.phase = phase, !.todo = << >>, !.queue = SetToSeq(set)]

\* The scripts of several ABANDONED writes, one prior after another.
Abandon(set) == FlattenSeq([i \in 1 .. Cardinality(set) |-> write_state(SetToSeq(set)[i], "abandoned")])

Transfer == Enter("transfer", write_state(Own, "transferring"))
Failing == Enter("failing", write_state(Own, "failed"))
Undo(kind) == [Enter("undo", remove_control_dirs(TRUE)) EXCEPT !.end = kind]
Warned(r) == [r EXCEPT !.warned = TRUE]

\* A retiring phase takes its next workspace; the artifacts of a COMPLETED
\* prior may refuse to go, which keeps its state.
NextRemoval ==
    /\ run # None /\ run.todo = << >> /\ run.queue # << >>
    /\ LET o == Head(run.queue)
           r == [run EXCEPT !.queue = Tail(@)]
       IN  \/ run' = [r EXCEPT !.todo = IF run.phase = "debris" THEN finish_retire(o)
                                       ELSE retire_workspace(o)]
           \/ run.phase = "completed" /\ run' = Warned(r)
    /\ UNCHANGED <<cur, dur, out, left>>

\* The claim store comes next.
AfterPublish == Enter("store", << <<"store">> >>)

\* The script of a phase is done.
PhaseDone ==
    /\ run # None /\ run.todo = << >> /\ run.queue = << >>
    /\ \/ run.phase = "create" /\ run' = Enter("probe", << <<"probenew">>, <<"probepub">> >>)
       \/ run.phase = "probe" /\ run' = Enter("publish", publish_workspace(Own))
       \/ run.phase = "publish" /\ run' = AfterPublish
       \/ run.phase = "store" /\ run' = Enter("supersede", Abandon(run.priors))
       \* J1: only a prior whose partials are gone loses its state.
       \/ run.phase = "supersede" /\ \E gone \in SUBSET run.priors : run' = Queue("retire", gone)
       \/ run.phase = "retire" /\ run' = Queue("completed", run.completed)
       \/ run.phase = "completed" /\ run' = Queue("debris", run.debris)
       \/ run.phase = "debris" /\ run' = Transfer
       \/ run.phase = "adopt" /\ run' = Queue("completed", run.completed)
       \/ run.phase = "transfer" /\ run' = Enter("work", << <<"work">> >>)
       \/ run.phase = "complete" /\ run' = Enter("own", retire_workspace(Own))
       \/ run.phase = "own" /\ run' = Enter("ctl", remove_control_dirs(FALSE))
       \/ run.phase = "unwind" /\ run' = Undo(run.end)
       \/ run.phase = "retract" /\ run' = Undo("failed")
       \/ run.phase = "rollback" /\ run' = Undo("refused")
    /\ UNCHANGED <<cur, dur, out, left>>

\* The last phase is done: what a refusal did is undone, so it reports no
\* change unless something could not be removed.
RunDone ==
    /\ run # None /\ run.todo = << >> /\ run.queue = << >>
    /\ \/ run.phase = "ctl" /\ Ended("completed", TRUE)
       \/ run.phase = "kept" /\ EndedKept
       \/ run.phase = "failing" /\ Ended("failed", TRUE)
       \/ run.phase = "undo" /\ Ended(IF run.warned THEN "failed" ELSE run.end, run.warned \/ run.end # "refused")
    /\ UNCHANGED <<cur, dur, left>>

\* What a failed call does to the run.
Failed ==
    CASE run.phase \in {"create", "publish", "adopt", "rollback", "failing"} -> Ended("failed", TRUE)
      [] run.phase \in {"supersede", "transfer", "complete", "kept"} -> run' = Failing /\ UNCHANGED out
      [] run.phase \in {"retire", "completed", "debris"} ->
           run' = Warned([run EXCEPT !.todo = << >>]) /\ UNCHANGED out
      [] run.phase = "probe" ->
           /\ run' = [Enter("unwind", << <<"rmcreating">> >>) EXCEPT !.end = "failed"]
           /\ UNCHANGED out
      [] run.phase = "unwind" -> run' = Warned(Undo(run.end)) /\ UNCHANGED out
      [] run.phase = "store" -> run' = Enter("retract", retire_workspace(Own)) /\ UNCHANGED out
      [] run.phase = "retract" -> run' = Warned(Undo("failed")) /\ UNCHANGED out
      [] run.phase = "undo" -> Ended(IF run.end = "refused" THEN "failed" ELSE run.end, TRUE)
      [] run.phase \in {"own", "ctl"} -> EndedKept

Fault == left.faults > 0 /\ left' = [left EXCEPT !.faults = @ - 1]
Done == run' = [run EXCEPT !.todo = Rest] /\ UNCHANGED <<out, left>>

-----------------------------------------------------------------------------
\* The calls

\* E1: DEST itself.
create_dest ==
    /\ Is("dest")
    /\ \/ /\ cur' = [cur EXCEPT !.dest = "dir"]
          /\ run' = [run EXCEPT !.todo = Rest, !.made = cur.dest = "absent"]
          /\ UNCHANGED <<dur, out, left>>
       \/ Fault /\ Failed /\ UNCHANGED <<cur, dur>>

\* `control_dir`: made, its parent flushed; an existing one is opened; a
\* foreign object is a refusal, which has changed DEST if this run made it.
control_dir ==
    LET n == O
    IN  /\ Is("mk")
        /\ \/ /\ cur[n] = "absent"
              /\ cur' = [cur EXCEPT ![n] = "dir"]
              /\ dur' = [dur EXCEPT ![n] = "dir"]
              /\ Done
           \/ /\ cur[n] = "absent" /\ Fault  \* the flush of the parent
              /\ cur' = [cur EXCEPT ![n] = "dir"]
              /\ Failed /\ UNCHANGED dur
           \/ cur[n] = "dir" /\ Done /\ UNCHANGED <<cur, dur>>
           \/ cur[n] = "other" /\ Ended("conflict", run.made) /\ UNCHANGED <<cur, dur, left>>
           \/ cur[n] # "other" /\ Fault /\ Failed /\ UNCHANGED <<cur, dur>>

begin_workspace ==
    /\ Is("begin")
    /\ \/ cur' = [cur EXCEPT !.name[Own] = "creating"] /\ Done
       \/ Fault /\ Failed /\ UNCHANGED cur
    /\ UNCHANGED dur

Add(o, f) == [cur EXCEPT !.obj[o].ent = @ \cup {f}]
Del(o, f) == [cur EXCEPT !.obj[o].ent = @ \ {f}]

\* Part P, the probe's first call.
probe_create ==
    /\ Is("probenew")
    /\ \/ cur' = Add(Own, "probe.tmp") /\ Done
       \/ Fault /\ Failed /\ UNCHANGED cur
    /\ UNCHANGED dur

\* The publish: available, and the probe file goes unless its removal fails;
\* not available, a refusal that unwinds; any other failure.
probe_publish ==
    /\ Is("probepub")
    /\ \/ cur' = Del(Own, "probe.tmp") /\ Done
       \/ /\ Fault
          /\ cur' = [cur EXCEPT !.obj[Own].ent = (@ \ {"probe.tmp"}) \cup {"probe"}]
          /\ run' = Warned([run EXCEPT !.todo = Rest]) /\ UNCHANGED out
       \/ /\ cur' = Del(Own, "probe.tmp")
          /\ run' = [Enter("unwind", << <<"rmcreating">> >>) EXCEPT !.end = "refused"]
          /\ UNCHANGED <<out, left>>
       \/ /\ Fault
          /\ run' = Warned([Enter("unwind", << <<"rmcreating">> >>) EXCEPT !.end = "refused"])
          /\ UNCHANGED <<cur, out>>
       \/ Fault /\ Failed /\ \E c \in {cur, Del(Own, "probe.tmp")} : cur' = c
    /\ UNCHANGED dur

\* `write_state`, up to the file being written.
write_temp ==
    LET c == Head(run.todo)[1]
    IN  /\ Is("tmprm") \/ Is("tmpnew") \/ Is("tmpwrite")
        /\ \/ /\ cur' = CASE c = "tmprm" -> [Del(O, "manifest.tmp") EXCEPT !.obj[O].ok = @ \ {"manifest.tmp"}]
                          [] c = "tmpnew" -> [Add(O, "manifest.tmp") EXCEPT !.obj[O].val["manifest.tmp"] = "torn"]
                          [] OTHER -> [cur EXCEPT !.obj[O].val["manifest.tmp"] = Head(run.todo)[3]]
              /\ Done
           \/ /\ Fault /\ Failed
              /\ \E d \in {cur, Del(O, "manifest.tmp")} : cur' = d
        /\ UNCHANGED dur

\* The temporary's flush.
write_sync ==
    /\ Is("tmpsync")
    /\ \/ cur' = [cur EXCEPT !.obj[O].ok = @ \cup {"manifest.tmp"}] /\ Done
       \/ Fault /\ Failed /\ \E d \in {cur, Del(O, "manifest.tmp")} : cur' = d
    /\ UNCHANGED dur

\* The commit point: the temporary renamed over the record.
write_commit ==
    LET w == cur.obj[O]
    IN  /\ Is("commit")
        /\ \/ /\ cur' = [cur EXCEPT !.obj[O] =
                    [w EXCEPT !.ent = (@ \ {"manifest.tmp"}) \cup {"manifest"},
                              !.val = ("manifest" :> @["manifest.tmp"]) @@ ("manifest.tmp" :> "torn"),
                              !.ok = IF "manifest.tmp" \in @ THEN {"manifest"} ELSE {}]]
              /\ Done
           \/ Fault /\ Failed /\ \E d \in {cur, Del(O, "manifest.tmp")} : cur' = d
        /\ UNCHANGED dur

\* The directory's flush.
write_flush ==
    /\ Is("wssync")
    /\ \/ dur' = [dur EXCEPT !.obj[O] = cur.obj[O]] /\ Done
       \/ Fault /\ Failed /\ UNCHANGED dur
    /\ UNCHANGED cur

publish_rename ==
    /\ Is("publish")
    /\ \/ cur' = [cur EXCEPT !.name[O] = "id"] /\ Done
       \/ Fault /\ Failed /\ UNCHANGED cur
    /\ UNCHANGED dur

operations_sync ==
    /\ Is("opssync")
    /\ \/ dur' = [dur EXCEPT !.name = cur.name] /\ Done
       \/ Fault /\ Failed /\ UNCHANGED dur
    /\ UNCHANGED cur

\* The claim store: its creation can fail with or without the file.
create_store ==
    /\ Is("store")
    /\ \/ cur' = Add(Own, "state.db") /\ Done
       \/ Fault /\ Failed /\ \E d \in {cur, Add(Own, "state.db")} : cur' = d
    /\ UNCHANGED dur

\* `adopt`: the store is opened; a CREATED prior without a usable one gets a
\* new one, any other is refused.  The old file is removed before.
adopt ==
    /\ Is("openstore")
    /\ \/ Has(O, "state.db") /\ Done /\ UNCHANGED cur
       \/ ~Has(O, "state.db") /\ Man(O) = "created" /\ cur' = Add(O, "state.db") /\ Done
       \/ Man(O) = "created" /\ Fault /\ Failed /\ \E d \in {cur, Del(O, "state.db")} : cur' = d
       \/ ~Has(O, "state.db") /\ Man(O) # "created" /\ Ended("corrupt", FALSE) /\ UNCHANGED <<cur, left>>
       \/ Fault /\ Failed /\ UNCHANGED cur
    /\ UNCHANGED dur

\* The copy: DEST gains entries, and the workspace the hardlink index and the
\* checkpoint log, where a damaged segment may be set aside.
Work ==
    /\ Is("work") /\ ~run.worked
    /\ \E fs \in {{}, {"hardlinks.db", "wal"}}, bad \in BOOLEAN, data \in BOOLEAN :
          /\ data \/ fs # {}
          /\ bad => "wal" \in fs
          /\ cur' = [cur EXCEPT !.data = @ \/ data,
                        !.obj[Own].ent = @ \cup fs,
                        !.obj[Own].wal = @ \cup (IF "wal" \in fs THEN {"segment"} ELSE {})
                                           \cup (IF bad THEN {"corrupt"} ELSE {})]
    /\ run' = [run EXCEPT !.worked = TRUE]
    /\ UNCHANGED <<dur, out, left>>

\* `finish`: COMPLETED, kept while a leftover of the copy stays; FAILED; or
\* refused with nothing changed, which rolls back what this run made but
\* keeps an adopted prior.
finish ==
    /\ Is("work")
    /\ \/ run' = Enter("complete", write_state(Own, "completed"))
       \/ run' = Enter("kept", write_state(Own, "completed"))
       \/ run' = Failing
       \/ run.end = "new" /\ cur.data = run.base.data /\ run' = Enter("rollback", retire_workspace(Own))
    /\ UNCHANGED <<cur, dur, out, left>>

retire_rename ==
    /\ Is("retire")
    /\ \/ cur' = [cur EXCEPT !.name[O] = "removing"] /\ Done
       \/ Fault /\ Failed /\ UNCHANGED cur
    /\ UNCHANGED dur

\* A known name goes; one that is absent is no failure.
remove_known ==
    LET f == Head(run.todo)[3]
    IN  /\ Is("rm")
        /\ \/ cur' = Del(O, f) /\ Done
           \/ Has(O, f) /\ Fault /\ Failed /\ UNCHANGED cur
        /\ UNCHANGED dur

\* A name in wal/, where there is one.
remove_segment ==
    LET f == Head(run.todo)[3]
    IN  /\ Is("walrm")
        /\ \/ cur' = [cur EXCEPT !.obj[O].wal = @ \ {f}] /\ Done
           \/ f \in cur.obj[O].wal /\ Fault /\ Failed /\ UNCHANGED cur
        /\ UNCHANGED dur

\* mutant: wal/ goes with whatever is in it.
remove_wal_all ==
    /\ Is("walrmdir")
    /\ cur' = [Del(O, "wal") EXCEPT !.obj[O].wal = {}] /\ Done
    /\ UNCHANGED dur

\* wal/ itself, which a stranger inside keeps.
remove_wal ==
    /\ Is("walrmdir")
    /\ \/ cur.obj[O].wal = {} /\ cur' = Del(O, "wal") /\ Done
       \/ cur.obj[O].wal # {} /\ Failed /\ UNCHANGED <<cur, left>>
       \/ cur.obj[O].wal = {} /\ Has(O, "wal") /\ Fault /\ Failed /\ UNCHANGED cur
    /\ UNCHANGED dur

\* A workspace's directory, which a stranger inside keeps.
remove_workspace ==
    LET o == IF Is("rmcreating") THEN Own ELSE O
    IN  /\ Is("rmws") \/ Is("rmcreating")
        /\ \/ cur.obj[o].ent = {} /\ cur' = [cur EXCEPT !.name[o] = "none", !.obj[o] = NoObject] /\ Done
           \/ cur.obj[o].ent # {} /\ Failed /\ UNCHANGED <<cur, left>>
           \/ cur.obj[o].ent = {} /\ Fault /\ Failed /\ UNCHANGED cur
        /\ UNCHANGED dur

\* `remove_empty_control_dirs`: each only if it is empty; one that is not, or
\* that Flux cannot open, is no failure.
Empty(n) == IF n = "ops" THEN \A o \in Ops : cur.name[o] = "none"
            ELSE cur.ops = "absent" /\ ~cur.other

remove_empty_control_dirs ==
    LET n == O
    IN  /\ Is("rmdir")
        /\ \/ /\ cur' = IF cur.flux = "dir" /\ cur[n] = "dir" /\ Empty(n) THEN [cur EXCEPT ![n] = "absent"] ELSE cur
              /\ Done
           \/ cur.flux = "dir" /\ cur[n] = "dir" /\ Empty(n) /\ Fault /\ Failed /\ UNCHANGED cur
        /\ UNCHANGED dur

DestEmpty == ~cur.data /\ cur.flux = "absent"

\* A DEST this run made, which must be empty.
remove_dest ==
    /\ Is("rmdest")
    /\ \/ ~run.made /\ Done /\ UNCHANGED cur
       \/ run.made /\ DestEmpty /\ cur' = [cur EXCEPT !.dest = "absent"] /\ Done
       \/ run.made /\ ~DestEmpty /\ Failed /\ UNCHANGED <<cur, left>>
       \/ run.made /\ DestEmpty /\ Fault /\ Failed /\ UNCHANGED cur
    /\ UNCHANGED dur

-----------------------------------------------------------------------------
\* The environment

\* The process dies; what it did stays.  A scratch file may keep its name.
Crash ==
    /\ run # None /\ left.crashes > 0
    /\ left' = [left EXCEPT !.crashes = @ - 1]
    /\ run' = None
    /\ out' = [kind |-> "crashed", changed |-> TRUE, id |-> Own, base |-> run.base, warned |-> FALSE]
    /\ \E c \in {cur} \cup (IF run.phase = "work" THEN {Add(Own, "scratch")} ELSE {}) : cur' = c
    /\ UNCHANGED dur

\* What a reader finds after a power loss in a directory that is, or is not,
\* on the medium as the processes saw it.
Torn(w) == [w EXCEPT !.val = [f \in Records |-> IF f \in w.ok THEN w.val[f] ELSE "torn"]]
Normal(c) ==
    IF c.dest = "absent" THEN Fresh("absent", FALSE, "absent", "absent", FALSE)
    ELSE IF c.flux # "dir" THEN [Fresh("dir", c.data, c.flux, "absent", FALSE) EXCEPT !.data = c.data]
    ELSE IF c.ops # "dir" THEN Fresh("dir", c.data, c.flux, c.ops, c.other)
    ELSE [c EXCEPT !.obj = [o \in Ops |-> IF c.name[o] = "none" THEN NoObject ELSE Torn(c.obj[o])]]

\* Each directory comes back as last flushed or as last seen; directories are
\* not ordered with one another.
PowerLoss ==
    /\ left.losses > 0
    /\ left' = [left EXCEPT !.losses = @ - 1]
    /\ run' = None
    /\ out' = [kind |-> "lost", changed |-> TRUE, id |-> IF run = None THEN 0 ELSE Own,
               base |-> Base(1), warned |-> run # None /\ run.phase = "work"]
    /\ \E dest \in {cur.dest, dur.dest}, flux \in {cur.flux, dur.flux}, ops \in {cur.ops, dur.ops},
          name \in {cur.name, dur.name}, keep \in SUBSET Ops :
          cur' = Normal([cur EXCEPT !.dest = dest, !.flux = flux, !.ops = ops, !.name = name,
                    !.obj = [o \in Ops |-> IF o \in keep THEN cur.obj[o] ELSE dur.obj[o]]])
    /\ dur' = cur'

\* Others put a file among Flux's, an object at .flux, or an entry into DEST.
Foreign ==
    /\ left.foreign > 0
    /\ left' = [left EXCEPT !.foreign = @ - 1]
    /\ cur.dest = "dir"
    /\ \/ cur.flux = "absent" /\ cur' = [cur EXCEPT !.flux = "other"] /\ dur' = [dur EXCEPT !.flux = "other"]
       \/ ~cur.data /\ cur' = [cur EXCEPT !.data = TRUE] /\ UNCHANGED dur
       \/ \E o \in Ops : /\ Listed /\ cur.name[o] # "none"
                         /\ \/ cur' = Add(o, "stranger")
                            \/ Has(o, "wal") /\ cur' = [cur EXCEPT !.obj[o].wal = @ \cup {"stranger"}]
                         /\ UNCHANGED dur
    /\ UNCHANGED <<run, out>>

-----------------------------------------------------------------------------
Init == /\ \E w \in Worlds : cur = Fresh(w[1], w[2], w[3], w[4], w[5])
        /\ dur = cur
        /\ run = None
        /\ out = [kind |-> "none", changed |-> FALSE, id |-> 0, base |-> Base(1), warned |-> FALSE]
        /\ left = [runs |-> MaxRuns, faults |-> MaxFaults, crashes |-> MaxCrashes,
                   losses |-> MaxLosses, foreign |-> MaxForeign]

Step == \/ \E mode \in {"plain", "restart", "resume"} : Start(mode)
        \/ NextRemoval \/ PhaseDone \/ RunDone
        \/ create_dest \/ control_dir \/ begin_workspace \/ probe_create \/ probe_publish
        \/ write_temp \/ write_sync \/ write_commit \/ write_flush
        \/ publish_rename \/ operations_sync \/ create_store \/ adopt \/ finish
        \/ retire_rename \/ remove_known \/ remove_segment \/ remove_wal
        \/ remove_workspace \/ remove_empty_control_dirs \/ remove_dest
Next == Step \/ Work \/ Crash \/ PowerLoss \/ Foreign

Spec == Init /\ [][Next]_vars

-----------------------------------------------------------------------------
\* Properties

TypeOK ==
    /\ \A c \in {cur, dur} :
          /\ c.dest \in {"absent", "dir"} /\ c.data \in BOOLEAN /\ c.other \in BOOLEAN
          /\ c.flux \in {"absent", "dir", "other"} /\ c.ops \in {"absent", "dir", "other"}
          /\ c.name \in [Ops -> Names]
          /\ \A o \in Ops : /\ c.obj[o].ent \subseteq Files /\ c.obj[o].ok \subseteq Records
                            /\ c.obj[o].val \in [Records -> States \cup {"torn"}]
                            /\ c.obj[o].wal \subseteq {"segment", "corrupt", "stranger"}
    /\ run # None => Own \in Ops /\ run.made \in BOOLEAN
    /\ out.kind \in {"none", "completed", "failed", "refused", "conflict", "corrupt",
                     "resumable", "crashed", "lost"}
    /\ \A k \in DOMAIN left : left[k] \in Nat

\* operations/<id> never exists without a readable manifest, whatever call
\* failed and wherever a process died (publish_workspace, retire_workspace).
\* A power loss is another matter: retire_workspace flushes nothing between
\* its rename and the removal of the manifest.
WorkspaceHasManifest ==
    Listed => \A o \in At("id") : Has(o, "manifest") /\ Man(o) # "torn"

\* An operation past CREATED has its claim store, so a later --resume can open
\* it (create_workspace, adopt).
ResumableHasStore ==
    Listed => \A o \in At("id") :
       Has(o, "manifest") /\ Man(o) \in {"transferring", "failed"} => Has(o, "state.db")

\* A run that reports a refusal with nothing changed leaves DEST as it was: it
\* made neither DEST nor a control directory nor a workspace that stays.
RefusalUnchanged ==
    (Idle /\ out.kind \in {"refused", "conflict", "resumable", "corrupt"} /\ ~out.changed
       /\ left.foreign = MaxForeign) =>
       /\ cur.dest = out.base.dest /\ cur.data = out.base.data
       /\ cur.flux # "absent" => out.base.flux # "absent"
       /\ cur.name[out.id] = out.base.name

\* A run that completes with no warning and meets nothing foreign leaves no
\* debris and no workspace of its own, and no .flux when no other operation
\* or reserved directory needs it.
CompletedIsClean ==
    (Idle /\ out.kind = "completed" /\ ~out.warned /\ left.foreign = MaxForeign) =>
       /\ At("creating") = {} /\ At("removing") = {} /\ cur.name[out.id] = "none"
       /\ At("id") = {} /\ ~cur.other => cur.flux = "absent"

\* What others put there stays: a stranger in a workspace or in its wal/, a
\* foreign object at .flux, the entries of DEST.
StrangersKept ==
    cur.dest = "dir" /\ left'.losses = left.losses =>
      /\ cur.flux = "other" => cur'.flux = "other"
      /\ cur.data => cur'.data /\ cur'.dest = "dir"
      /\ \A o \in Ops : /\ Has(o, "stranger") => "stranger" \in cur'.obj[o].ent /\ cur'.name[o] # "none"
                        /\ "stranger" \in cur.obj[o].wal
                             => "stranger" \in cur'.obj[o].wal /\ cur'.name[o] # "none"

\* A DEST that was there when a run began is never removed by it.
DestOnlyOwn ==
    (run # None /\ run.base.dest = "dir" /\ left'.losses = left.losses) => cur'.dest = "dir"

\* After a power loss during the copy, a DEST that is still there still holds
\* the operation, TRANSFERRING and with its store: nothing the copy wrote can
\* outlive the record of it.
CopyIsRecorded ==
    (out.kind = "lost" /\ Idle /\ left.runs = MaxRuns - out.id /\ out.warned /\ cur.dest = "dir") =>
       /\ Listed /\ cur.name[out.id] = "id" /\ Man(out.id) = "transferring"
       /\ Has(out.id, "state.db")

====
