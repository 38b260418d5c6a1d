------------------------------ MODULE HardLinks ------------------------------
(***************************************************************************)
(* Hardlink groups and symbolic links: the per-run index of hardlinks.rs,   *)
(* how copy_one meets a group's entry, link_member, link_one, and what      *)
(* recovery makes of a link that a crash interrupted.                       *)
(*                                                                         *)
(* The names of one directory are copied one after another in any order.    *)
(* An object is its place in `body', which says whose content it holds;     *)
(* 0 is no object, and what a filesystem without strong identities answers. *)
(* Foreign models another program that replaces or removes a destination    *)
(* entry under the run; Steal a lock that is lost; Crash the end of the     *)
(* process at any point.                                                    *)
(***************************************************************************)
EXTENDS Naturals, Sequences, FiniteSets

CONSTANTS
    Name,       \* the source names of the directory
    Kind,       \* [Name -> Kinds]: what each source name is
    Source,     \* [Name -> content]: the source object of each name
    Before,     \* the destinations a first run may find: [dest, body] records
    Modes,      \* the values of --hardlinks
    Policies,   \* the existing-file policies
    Durable,    \* the durabilities: TRUE is Strict
    Strongs,    \* whether the destination reports strong identities
    MaxRuns,    \* a bound on the runs of the operation
    MaxFaults,  \* a bound on failing calls and lost locks
    MaxSwaps,   \* a bound on what other programs change
    None

VARIABLES
    opt,        \* the options of the operation
    dest,       \* the object at each destination name
    temp,       \* the object at each name's temporary
    body,       \* the content of each object
    claims,     \* the claim store: None, "existing" or "created"
    notes,      \* the prepared notes
    slot,       \* the state of the HardlinkSlot
    index,      \* the hardlink index: an entry for each source object
    run,        \* the run and the entry it works on
    out,        \* what the run has reported
    touched,    \* the names another program changed
    ignored,    \* the names whose temporary stayed because a failed removal was ignored
    left        \* what is left of the bounds

vars == <<opt, dest, temp, body, claims, notes, slot, index, run, out, touched, ignored, left>>
disk == <<dest, temp, body>>
books == <<claims, notes>>

Kinds == {"linked", "weak", "unchecked", "single", "symlink"}
Sources == {Source[n] : n \in Name}
Live == {"idle", "check", "link", "verify", "stage", "note", "rename", "tidy", "record"}

Entry(k, n, o, m) == [kind |-> k, name |-> n, object |-> o, members |-> m]
NoEntry == Entry("none", None, 0, 0)
Meeting(k, e) == [kind |-> k, entry |-> e]
Ordinary == Meeting("ordinary", NoEntry)

NoRun == [pc |-> "idle", cur |-> None, replace |-> FALSE, meet |-> Ordinary, resume |-> FALSE,
          held |-> TRUE, todo |-> Name, object |-> 0]
NoOut == [said |-> [n \in Name |-> "none"], complaints |-> {}, degraded |-> [s \in Sources |-> 0],
          leftover |-> {}]

Init ==
    /\ opt \in [mode : Modes, policy : Policies, strict : Durable, strong : Strongs]
    /\ \E b \in Before : dest = b.dest /\ body = b.body
    /\ temp = [n \in Name |-> 0]
    /\ claims = [n \in Name |-> None]
    /\ notes = [n \in Name |-> None]
    /\ slot = "unopened"
    /\ index = [s \in Sources |-> NoEntry]
    /\ run = NoRun
    /\ out = NoOut
    /\ touched = {}
    /\ ignored = {}
    /\ left = [runs |-> MaxRuns - 1, faults |-> MaxFaults, swaps |-> MaxSwaps]

-----------------------------------------------------------------------------
Spend(k) == left.faults >= k /\ left' = [left EXCEPT !.faults = @ - k]
Preserve == opt.mode = "preserve"
\* strong: the object an anchor entry records.
Strong(o) == IF opt.strong THEN o ELSE 0
Copies(n) == body[dest[n]] = Source[n]

\* report and degrade_many, as functions of what was reported so far.
Complain(o, n) == [o EXCEPT !.complaints = @ \cup {n}]
Degrade(o, n, k) == [o EXCEPT !.degraded[Source[n]] = @ + k]
Say(o, n, what) == [o EXCEPT !.said[n] = what]

\* The entry is finished: the next one may start.
Advance(r) == [r EXCEPT !.pc = "idle", !.todo = @ \ {r.cur}, !.cur = None, !.replace = FALSE, !.meet = Ordinary,
                          !.object = 0]

\* hardlink_group over HardlinkSlot::with: the first use creates the index, and a failed creation answers every later
\* use. The cost is the number of failing calls.
Looks(n) ==
    LET Look(w, s, c) == [what |-> w, slot |-> s, cost |-> c]
    IN  IF Kind[n] # "linked" \/ opt.mode = "copy" THEN {Look("no", slot, 0)}
        ELSE IF slot = "failed" THEN {Look("unreadable", "failed", 0)}
        ELSE {Look("found", "open", 0), Look("unreadable", "open", 1)}
             \cup {Look("unreadable", "failed", 1) : x \in {slot} \cap {"unopened"}}

EntryOf(n, look) == IF look.what = "found" THEN index[Source[n]] ELSE NoEntry

\* register_outcome: a canonical's copy becomes the group's anchor and the members skipped before it are splits; a
\* canonical that failed blocks its group. `good' is whether the index takes the entry.
Registered(o, n, good, members) ==
    IF good THEN Degrade(o, n, members)
    ELSE IF Preserve THEN Complain(o, n)
    ELSE Degrade(o, n, 1)
Insert(n, good, entry) == index' = IF good THEN [index EXCEPT ![Source[n]] = entry] ELSE index

-----------------------------------------------------------------------------
\* resume_keeps: a completed member is kept unless its group's anchor is, or may be, another object.
Keeps(n, look) ==
    LET e == EntryOf(n, look)
    IN  \/ look.what = "no"
        \/ look.what = "unreadable" /\ ~Preserve
        \/ look.what = "found" /\ e.kind \in {"none", "skipped"}
        \/ look.what = "found" /\ e.kind = "anchor" /\ e.object # 0 /\ Strong(dest[n]) = e.object

Resumes(n, look) ==
    run.resume /\ dest[n] # 0 /\ claims[n] = "created" /\ Copies(n) /\ Keeps(n, look)

\* The policy decision: update skips a destination that already is the source's content, or an equal link.
Skips(n) ==
    dest[n] # 0 /\ (opt.policy = "skip" \/ (opt.policy = "update" /\ Copies(n)))

\* A completed destination of an earlier run is kept; the first one of its group becomes the anchor.
Resume(n) ==
    /\ run.pc = "idle" /\ n \in run.todo
    /\ \E look \in Looks(n), good \in BOOLEAN :
          LET e == EntryOf(n, look)
              registers == look.what = "found" /\ e.kind \in {"none", "skipped"}
              said == Say(out, n, "resumed")
          IN  /\ Resumes(n, look)
              /\ good \/ registers
              /\ Spend(look.cost + IF good THEN 0 ELSE 1)
              /\ slot' = look.slot
              /\ run' = Advance([run EXCEPT !.cur = n])
              /\ out' = IF registers THEN Registered(said, n, good, e.members)
                        ELSE IF look.what = "unreadable" THEN Degrade(said, n, 1)
                        ELSE said
              /\ Insert(n, registers /\ good, Entry("anchor", n, Strong(dest[n]), 0))
    /\ UNCHANGED <<opt, disk, books, touched, ignored>>

\* Whether a skipped member waits with the ones skipped before it, or is a split of its group already.
Joins(e, here) == e.kind = "none" \/ (e.kind = "skipped" /\ e.object # 0 /\ e.object = here)
Splits(e, here) == e.kind \in {"skipped", "anchor"} /\ (e.object = 0 \/ e.object # here)

\* skipped_member: a member the policy skips joins the ones skipped before it while they are one object.
Skip(n) ==
    /\ run.pc = "idle" /\ n \in run.todo
    /\ \E look \in Looks(n), good \in BOOLEAN :
          LET e == EntryOf(n, look)
              here == Strong(dest[n])
              joins == look.what = "found" /\ Joins(e, here)
              splits == look.what = "found" /\ Splits(e, here)
              said == Say(out, n, "skipped")
          IN  /\ ~Resumes(n, look) /\ Skips(n)
              /\ good \/ joins
              /\ Spend(look.cost + IF good THEN 0 ELSE 1)
              /\ slot' = look.slot
              /\ run' = Advance([run EXCEPT !.cur = n])
              /\ out' = IF splits \/ (~good /\ ~Preserve) THEN Degrade(said, n, 1) ELSE said
              /\ Insert(n, joins /\ good,
                        Entry("skipped", IF e.kind = "none" THEN n ELSE e.name, here, e.members + 1))
    /\ UNCHANGED <<opt, disk, books, touched, ignored>>

\* hardlink_degradation and meet_group under preserve, or behind a failed canonical: the member is refused.
Refused(n, look) ==
    \/ Kind[n] = "weak" /\ Preserve
    \/ look.what = "unreadable" /\ Preserve
    \/ EntryOf(n, look).kind = "failed"

Refuse(n) ==
    /\ run.pc = "idle" /\ n \in run.todo
    /\ \E look \in Looks(n) :
          /\ ~Resumes(n, look) /\ ~Skips(n) /\ Refused(n, look)
          /\ Spend(look.cost)
          /\ slot' = look.slot
    /\ run' = Advance([run EXCEPT !.cur = n])
    /\ out' = Complain(Say(out, n, "failed"), n)
    /\ UNCHANGED <<opt, disk, books, index, touched, ignored>>

\* The source of a symbolic link cannot be read, or --links=skip: reported, nothing is touched.
Unreadable(n) ==
    /\ run.pc = "idle" /\ n \in run.todo
    /\ Spend(1)
    /\ run' = Advance([run EXCEPT !.cur = n])
    /\ out' = Complain(Say(out, n, "failed"), n)
    /\ UNCHANGED <<opt, disk, books, slot, index, touched, ignored>>

\* meet_group: link to the anchor, copy as the group's canonical, or copy on its own.
Meet(n, look) ==
    LET e == EntryOf(n, look)
    IN  IF look.what # "found" THEN Ordinary
        ELSE IF e.kind = "anchor" THEN Meeting("link", e)
        ELSE Meeting("canonical", e)

Plan(n) ==
    /\ run.pc = "idle" /\ n \in run.todo
    /\ \E look \in Looks(n) :
          /\ ~Resumes(n, look) /\ ~Skips(n) /\ ~Refused(n, look)
          /\ Spend(look.cost)
          /\ slot' = look.slot
          /\ run' = [run EXCEPT !.pc = IF Meet(n, look).kind = "link" THEN "check" ELSE "stage", !.cur = n,
                                !.replace = dest[n] # 0, !.meet = Meet(n, look)]
          /\ out' = IF opt.mode = "auto" /\ (Kind[n] = "weak" \/ look.what = "unreadable")
                    THEN Degrade(out, n, 1) ELSE out
    /\ UNCHANGED <<opt, disk, books, index, touched, ignored>>

-----------------------------------------------------------------------------
cur == run.cur
Linking == run.meet.kind = "link"
Anchor == run.meet.entry.name
Object == run.meet.entry.object
At(pc) == run.pc = pc
AfterTemp == IF opt.strict THEN "note" ELSE "rename"

\* settle_link on LinkStep::Degrade: reported under preserve, counted and copied under auto. The member no longer
\* registers anything.
Degraded ==
    IF Preserve
    THEN run' = Advance(run) /\ out' = Complain(Say(out, cur, "failed"), cur)
    ELSE run' = [run EXCEPT !.pc = "stage", !.meet = Ordinary] /\ out' = Degrade(out, cur, 1)

\* link_member, 1 and 2: the anchor is still the registered object, then the leftover at the temporary's name goes, if
\* it can be removed.
AnchorHolds == Object # 0 /\ Strong(dest[Anchor]) = Object
Check ==
    /\ At("check") /\ AnchorHolds /\ run.held
    /\ \/ temp' = [temp EXCEPT ![cur] = 0] /\ UNCHANGED left
       \/ temp[cur] # 0 /\ Spend(1) /\ UNCHANGED temp
    /\ run' = [run EXCEPT !.pc = "link"]
    /\ UNCHANGED <<opt, dest, body, books, slot, index, out, touched, ignored>>

AnchorGone ==
    /\ At("check") /\ ~AnchorHolds
    /\ Degraded
    /\ UNCHANGED <<opt, disk, books, slot, index, touched, ignored, left>>

\* before_create: a replacement claims the stored name before its temporary is made.
Claimed == IF run.replace /\ claims[cur] = None THEN [claims EXCEPT ![cur] = "existing"] ELSE claims

\* link_member, 3: create_hardlink at the temporary, to whatever the anchor's name holds now.
Link ==
    /\ At("link") /\ run.held /\ dest[Anchor] # 0 /\ temp[cur] = 0
    /\ temp' = [temp EXCEPT ![cur] = dest[Anchor]]
    /\ ignored' = ignored \ {cur}
    /\ claims' = Claimed
    /\ run' = [run EXCEPT !.pc = "verify"]
    /\ UNCHANGED <<opt, dest, body, notes, slot, index, out, touched, left>>

LinkRefused ==
    /\ At("link") /\ run.held
    /\ Spend(1)
    /\ claims' = Claimed
    /\ Degraded
    /\ UNCHANGED <<opt, disk, notes, slot, index, touched, ignored>>

\* link_member, 4: only the registered object may be published.
IsRegistered == Strong(temp[cur]) = Object
Verify ==
    /\ At("verify") /\ IsRegistered
    /\ run' = [run EXCEPT !.pc = AfterTemp]
    /\ UNCHANGED <<opt, disk, books, slot, index, out, touched, ignored, left>>

\* mutant: the swapped temporary is removed without asking the guard.
Swapped_unguarded ==
    /\ At("verify") /\ ~IsRegistered
    /\ temp' = [temp EXCEPT ![cur] = 0]
    /\ Degraded
    /\ UNCHANGED <<opt, dest, body, books, slot, index, touched, ignored, left>>

\* Anything else is removed, and a failed removal is ignored.
Swapped ==
    /\ At("verify") /\ ~IsRegistered /\ run.held
    /\ \/ temp' = [temp EXCEPT ![cur] = 0] /\ UNCHANGED <<ignored, left>>
       \/ Spend(1) /\ ignored' = ignored \cup {cur} /\ UNCHANGED temp
    /\ Degraded
    /\ UNCHANGED <<opt, dest, body, books, slot, index, touched>>

\* The exclusive create: a fresh object at the temporary.
Created(content) ==
    /\ body' = Append(body, content)
    /\ temp' = [temp EXCEPT ![cur] = Len(body')]

\* A copy's stage_file, or publish_link up to create_symlink: the leftover goes, the claim, a fresh object at the
\* temporary.
Stage ==
    /\ At("stage") /\ run.held
    /\ Created(Source[cur])
    /\ ignored' = ignored \ {cur}
    /\ claims' = Claimed
    /\ run' = [run EXCEPT !.pc = AfterTemp]
    /\ UNCHANGED <<opt, dest, notes, slot, index, out, touched, left>>

\* before_publish: the Strict note.
Note ==
    /\ At("note")
    /\ notes' = [notes EXCEPT ![cur] = [object |-> temp[cur], replace |-> run.replace]]
    /\ run' = [run EXCEPT !.pc = "rename"]
    /\ UNCHANGED <<opt, disk, claims, slot, index, out, touched, ignored, left>>

\* publish_staged. A rename onto another name of the same object leaves both names.
Taken == ~run.replace /\ dest[cur] # 0
\* mutant: the second name a same-object rename leaves is forgotten.
Rename_untidied ==
    /\ At("rename") /\ run.held /\ ~Taken
    /\ dest' = [dest EXCEPT ![cur] = temp[cur]]
    /\ temp' = [temp EXCEPT ![cur] = IF dest[cur] = @ THEN @ ELSE 0]
    /\ run' = [run EXCEPT !.pc = "record", !.object = temp[cur]]
    /\ UNCHANGED <<opt, body, books, slot, index, out, touched, ignored, left>>

Rename ==
    /\ At("rename") /\ run.held /\ ~Taken
    /\ dest' = [dest EXCEPT ![cur] = temp[cur]]
    /\ temp' = [temp EXCEPT ![cur] = IF dest[cur] = @ THEN @ ELSE 0]
    /\ run' = [run EXCEPT !.pc = IF temp'[cur] # 0 THEN "tidy" ELSE "record", !.object = temp[cur]]
    /\ UNCHANGED <<opt, body, books, slot, index, out, touched, ignored, left>>

\* link_member, 6: the second name goes while the lock is held. A failed look at it leaves it without asking the guard,
\* a failed removal is ignored, and the member is linked all the same.
Tidy ==
    /\ At("tidy")
    /\ \/ run.held /\ temp' = [temp EXCEPT ![cur] = 0] /\ UNCHANGED <<ignored, left>>
       \/ Spend(1) /\ ignored' = ignored \cup {cur} /\ UNCHANGED temp
    /\ run' = [run EXCEPT !.pc = "record"]
    /\ UNCHANGED <<opt, dest, body, books, slot, index, out, touched>>

\* record_new and record_replace, then the count, and a canonical's register_outcome.
Record ==
    /\ At("record")
    /\ \E recorded \in BOOLEAN, good \in BOOLEAN :
          LET canonical == run.meet.kind = "canonical"
              said == Say(out, cur, IF Linking THEN "linked" ELSE "copied")
              counted == IF recorded THEN said ELSE Complain(said, cur)
          IN  /\ good \/ canonical
              /\ Spend((IF recorded THEN 0 ELSE 1) + IF good THEN 0 ELSE 1)
              /\ claims' = IF recorded THEN [claims EXCEPT ![cur] = "created"] ELSE claims
              /\ notes' = IF recorded THEN [notes EXCEPT ![cur] = None] ELSE notes
              /\ out' = IF canonical THEN Registered(counted, cur, good, run.meet.entry.members) ELSE counted
              /\ Insert(cur, canonical /\ good, Entry("anchor", cur, Strong(run.object), 0))
    /\ run' = Advance(run)
    /\ UNCHANGED <<opt, disk, slot, touched, ignored>>

\* The entry fails: the temporary is discarded (or reported, when it cannot be removed), the note with it, and the
\* group of a failed canonical is blocked.
MustFail == \/ At("link") /\ (dest[Anchor] = 0 \/ temp[cur] # 0)
            \/ At("rename") /\ Taken
Fail ==
    /\ run.pc \in {"check", "link", "verify", "stage", "note", "rename"} /\ run.held
    /\ \E removed \in BOOLEAN, good \in BOOLEAN :
          LET ours == run.pc \in {"verify", "note", "rename"}
              canonical == run.meet.kind = "canonical"
              failed == Complain(Say(out, cur, "failed"), cur)
          IN  /\ removed \/ ours
              /\ good \/ canonical
              /\ Spend((IF MustFail THEN 0 ELSE 1) + (IF removed THEN 0 ELSE 1) + IF good THEN 0 ELSE 1)
              /\ temp' = IF ours /\ removed THEN [temp EXCEPT ![cur] = 0] ELSE temp
              /\ out' = IF removed THEN failed ELSE [failed EXCEPT !.leftover = @ \cup {cur}]
              /\ Insert(cur, canonical /\ good, Entry("failed", cur, 0, 0))
    /\ claims' = IF At("link") THEN Claimed ELSE claims
    /\ notes' = IF At("rename") THEN [notes EXCEPT ![cur] = None] ELSE notes
    /\ run' = Advance(run)
    /\ UNCHANGED <<opt, dest, body, slot, touched, ignored>>

\* The guard or the heartbeat answers that the lock is lost: the run stops, and the temporary it made stays as the
\* leftover.
Guarded == {"check", "link", "verify", "stage", "rename", "tidy"}
Stop ==
    /\ run.pc \in Guarded /\ ~run.held
    /\ run.pc = "check" => AnchorHolds
    /\ run.pc = "verify" => ~IsRegistered
    /\ out' = IF run.pc \in {"verify", "rename", "tidy"} THEN [out EXCEPT !.leftover = @ \cup {cur}] ELSE out
    /\ run' = [run EXCEPT !.pc = "stopped"]
    /\ UNCHANGED <<opt, disk, books, slot, index, touched, ignored, left>>

\* Every name is done: the slot is closed.
Finish ==
    /\ At("idle") /\ run.todo = {}
    /\ run' = [run EXCEPT !.pc = "ended"]
    /\ slot' = "unopened"
    /\ index' = [s \in Sources |-> NoEntry]
    /\ UNCHANGED <<opt, disk, books, out, touched, ignored, left>>

-----------------------------------------------------------------------------
\* decide: what a note's temporary and name say about its rename. Without strong identities no two objects compare.
Same(a, b) == opt.strong /\ a = b
Differ(a, b) == opt.strong /\ a # b
Decide(n) ==
    LET t == temp[n]
        d == dest[n]
        r == notes[n].object
    IN  IF d # 0 /\ Same(d, r) THEN "renamed"
        ELSE IF t # 0 /\ (d = 0 \/ notes[n].replace) THEN "not"
        ELSE IF t # 0 /\ d # 0 /\ Same(t, r) /\ Differ(d, r) THEN "not"
        ELSE IF t = 0 /\ (d = 0 \/ Differ(d, r)) THEN "gone"
        ELSE "uncertain"
Noted == {n \in Name : notes[n] # None}
\* remove_stray: row 1's temporary goes only while it still is the published object.
Stray(n) == n \in Noted /\ Decide(n) = "renamed" /\ temp[n] # 0 /\ Same(temp[n], notes[n].object)

\* recover_publications: every note is decided, all in one transaction, then the stray temporaries go. One undecided
\* note refuses the resume.
Restart ==
    /\ run.pc \in {"dead", "stopped"} /\ left.runs > 0
    /\ \E kept \in BOOLEAN :
          LET refused == \E n \in Noted : Decide(n) = "uncertain"
              strays == {n \in Name : Stray(n)}
          IN  /\ kept => strays # {} /\ ~refused
              /\ left.faults > 0 \/ ~kept
              /\ left' = [left EXCEPT !.runs = @ - 1, !.faults = IF kept THEN @ - 1 ELSE @]
              /\ run' = [NoRun EXCEPT !.pc = IF refused THEN "refused" ELSE "idle", !.resume = TRUE]
              /\ claims' = IF refused THEN claims
                           ELSE [n \in Name |-> IF n \in Noted /\ Decide(n) = "renamed" THEN "created"
                                                ELSE claims[n]]
              /\ notes' = IF refused THEN notes ELSE [n \in Name |-> None]
              /\ temp' = IF refused \/ kept THEN temp ELSE [n \in Name |-> IF n \in strays THEN 0 ELSE temp[n]]
              /\ out' = [NoOut EXCEPT !.leftover = IF kept THEN strays ELSE {}]
    /\ slot' = "unopened"
    /\ index' = [s \in Sources |-> NoEntry]
    /\ UNCHANGED <<opt, dest, body, touched, ignored>>

Crash ==
    /\ run.pc \in Live /\ left.runs > 0
    /\ run' = [run EXCEPT !.pc = "dead"]
    /\ UNCHANGED <<opt, disk, books, slot, index, out, touched, ignored, left>>

Steal ==
    /\ run.pc \in Live /\ run.held
    /\ Spend(1)
    /\ run' = [run EXCEPT !.held = FALSE]
    /\ UNCHANGED <<opt, disk, books, slot, index, out, touched, ignored>>

Foreign(n) ==
    /\ run.pc \in Live /\ left.swaps > 0
    /\ left' = [left EXCEPT !.swaps = @ - 1]
    /\ \/ body' = Append(body, "foreign") /\ dest' = [dest EXCEPT ![n] = Len(body')]
       \/ UNCHANGED body /\ dest[n] # 0 /\ dest' = [dest EXCEPT ![n] = 0]
    /\ touched' = touched \cup {n}
    /\ UNCHANGED <<opt, temp, books, slot, index, run, out, ignored>>

Steps ==
    \/ \E n \in Name : Resume(n) \/ Skip(n) \/ Refuse(n) \/ Unreadable(n) \/ Plan(n)
    \/ Check \/ AnchorGone \/ Link \/ LinkRefused \/ Verify \/ Swapped
    \/ Stage \/ Note \/ Rename \/ Tidy \/ Record \/ Fail \/ Stop \/ Finish

Next == Steps \/ Restart \/ Crash \/ Steal \/ \E n \in Name : Foreign(n)

Spec == Init /\ [][Next]_vars

-----------------------------------------------------------------------------
Done == {"copied", "linked", "resumed"}
Members(s) == {n \in Name : Kind[n] = "linked" /\ Source[n] = s}
Published(s) == {n \in Members(s) \ touched : out.said[n] \in Done}

TypeOK ==
    /\ dest \in [Name -> 0 .. Len(body)] /\ temp \in [Name -> 0 .. Len(body)]
    /\ claims \in [Name -> {None, "existing", "created"}]
    /\ slot \in {"unopened", "open", "failed"}
    /\ run.pc \in Live \cup {"ended", "stopped", "dead", "refused"}
    /\ out.said \in [Name -> Done \cup {"none", "skipped", "failed"}]
    /\ run.cur # None <=> run.pc \in Live \ {"idle"} \/ (run.pc \in {"dead", "stopped"} /\ run.cur \in Name)

\* A claim that says Created is true of the disk: the name holds the source's content, whatever crashed, was linked,
\* degraded or recovered on the way.
CreatedIsTrue ==
    \A n \in Name \ touched : claims[n] = "created" => dest[n] # 0 /\ Copies(n)

\* --hardlinks=preserve: two published members of one source object are one destination object, or the run reported a
\* failure in their group.
PreserveOrReported ==
    (run.pc = "ended" /\ Preserve) =>
        \A s \in Sources :
            \/ Cardinality({dest[n] : n \in Published(s)}) <= 1
            \/ out.complaints \cap Members(s) # {}

\* --hardlinks=auto: every object a group was split into beyond the first is counted as a degradation, unless a
\* failure was reported in the group.
SplitsCounted ==
    (run.pc = "ended" /\ opt.mode = "auto") =>
        \A s \in Sources :
            \/ Cardinality({dest[n] : n \in Published(s)}) <= 1 + out.degraded[s]
            \/ out.complaints \cap Members(s) # {}

\* No member is counted as degraded twice, and the anchor not at all, however its skip, its copy and its index entry
\* went.
CountedOnce ==
    \A s \in Sources :
        out.degraded[s] + (IF index[s].kind = "anchor" THEN 1 ELSE 0) <=
            Cardinality({n \in Name : Source[n] = s /\ (out.said[n] # "none" \/ n = run.cur)})

\* A member that is done leaves nothing at its temporary's name that was not reported, but for one case: link_member
\* ignores a failed removal of the second name that a same-object rename leaves, and what stays then is that name of
\* the published object, not a second copy.
NoTempBehind ==
    \A n \in Name \ touched :
        out.said[n] \in Done /\ temp[n] # 0 => n \in out.leftover \/ (n \in ignored /\ temp[n] = dest[n])

\* The run publishes nothing but the source's content: also when the anchor was replaced between the check and the
\* link.
PublishesTheSource ==
    \A n \in Name : dest'[n] # dest[n] /\ touched' = touched /\ left'.swaps = left.swaps
                       => body'[dest'[n]] = Source[n]

\* After the lock is lost the run changes no destination entry and removes nothing.
LostLockIsFinal ==
    ~run.held /\ run'.pc \notin {"refused"} /\ ~run'.held => temp' = temp /\ (dest' = dest \/ left'.swaps # left.swaps)

=============================================================================
