--------------------------- MODULE CopyFileProofs ---------------------------
(***************************************************************************)
(* The copy of one file keeps its promises for every content, option,      *)
(* directory and log it starts from, and any number of edits, failing      *)
(* calls and losses of the lock: CopyInv is inductive, its promises hold   *)
(* of every copy that has ended, and every step changes the directory only *)
(* as the lock allows.                                                     *)
(***************************************************************************)
EXTENDS CopyFile, SequenceTheorems, TLAPS

\* What a copy that has ended promises.
Promised == PublishedIsVersion /\ FailureAccounted /\ StrictIsSynced /\ MetadataTold /\ ReuseAddsUp

\* The types, part by part.
LEMMA Flat ==
  ASSUME CopyInv
  PROVE  /\ run \in Locals /\ dir \in Dirs /\ left \in Bounds /\ lock \in BOOLEAN /\ opts \in Options
         /\ src.data \in Seq(Nat) /\ src.stamp \in Nat /\ src.there \in BOOLEAN
         /\ src \in [data : Seq(Nat), stamp : Nat, there : BOOLEAN]
         /\ run.pc \in Steps /\ run.pos \in Nat /\ run.hash \in Seq(Nat) /\ run.again \in Seq(Nat)
         /\ run.carry \in Seq(Nat) /\ run.reused \in Nat /\ run.copied \in Nat
         /\ run.meta # None => run.meta.len \in Nat /\ run.meta.stamp \in Nat
         /\ dir.temp \in Entry \cup {None} /\ dir.name \in Entry \cup {None}
         /\ dir.temp # None => dir.temp.data \in Seq(Nat)
         /\ left.edits \in 0 .. Edits /\ (run.res # None) = (run.pc = "ended")
  <1>1. TypeOK
    BY Zenon DEF CopyInv
  <1>2. run \in Locals /\ dir \in Dirs /\ left \in Bounds /\ src \in [data : Seq(Nat), stamp : Nat, there : BOOLEAN]
    BY Zenon, <1>1 DEF TypeOK
  <1>3. run.meta # None => run.meta \in Meta
    BY Zenon, <1>2 DEF Locals
  <1>4. dir.temp # None => dir.temp \in Entry
    BY Zenon, <1>2 DEF Dirs
  <1>5. dir.temp # None => dir.temp.data \in Seq(Nat)
    BY Zenon, <1>4 DEF Entry
  <1>6. run.meta # None => run.meta.len \in Nat /\ run.meta.stamp \in Nat
    BY Zenon, <1>3 DEF Meta
  <1>7. src.data \in Seq(Nat) /\ src.stamp \in Nat /\ src.there \in BOOLEAN /\ left.edits \in 0 .. Edits
    BY Zenon, <1>2 DEF Bounds
  <1>8. /\ run.pc \in Steps /\ run.pos \in Nat /\ run.hash \in Seq(Nat) /\ run.again \in Seq(Nat)
        /\ run.carry \in Seq(Nat) /\ run.reused \in Nat /\ run.copied \in Nat
    BY Zenon, <1>2 DEF Locals
  <1> QED
    BY Zenon, <1>1, <1>2, <1>5, <1>6, <1>7, <1>8 DEF TypeOK, Dirs

\* The length, domain and members of a content.
LEMMA SeqFacts ==
  ASSUME NEW s \in Seq(Nat)
  PROVE  /\ Len(s) \in Nat /\ DOMAIN s = 1 .. Len(s)
         /\ \A i \in DOMAIN s : s[i] \in Nat
  BY LenProperties

\* A content with one more unit.
LEMMA AppendFacts ==
  ASSUME NEW s \in Seq(Nat), NEW u \in Nat
  PROVE  /\ Append(s, u) \in Seq(Nat) /\ Len(Append(s, u)) = Len(s) + 1
         /\ DOMAIN Append(s, u) = 1 .. Len(s) + 1
         /\ \A i \in 1 .. Len(s) : Append(s, u)[i] = s[i]
         /\ Append(s, u)[Len(s) + 1] = u
  BY LenProperties

\* Contents of one length that agree at every unit are the same.
LEMMA SeqSame ==
  ASSUME NEW s \in Seq(Nat), NEW t \in Seq(Nat), Len(s) = Len(t), \A i \in DOMAIN s : s[i] = t[i]
  PROVE  s = t
  BY SeqEqual, LenProperties, SMTT(60)

\* A position up to n + 1 is up to n or the last.
LEMMA OneBeyond == \A n \in Nat : \A i \in 1 .. n + 1 : i \in 1 .. n \/ i = n + 1
  BY SMTT(60)

\* A number that is at most one and not zero.
LEMMA AtMostOne == \A n \in Nat : n <= 1 /\ n # 0 => n = 1 /\ 1 \in 1 .. n
  BY SMTT(60)

\* The position after one that is not the last.
LEMMA WithinOne == \A m, n \in Nat : m < n => m + 1 \in 1 .. n /\ m + 1 <= n /\ m + 1 \in Nat
  BY SMTT(60)

\* What is read is all there is.
LEMMA Squeeze == \A m, n, k \in Nat : k = m + 0 /\ k <= n /\ k >= n => m = n
  BY SMTT(60)

\* No position is zero.
LEMMA NotBelow == \A n \in Nat : \A i \in 1 .. n : ~ (i <= 0)
  BY SMTT(60)

\* A position is in the part read again, the next one or beyond it.
LEMMA ThreeWays ==
  \A n \in Nat : \A m \in Nat : \A i \in 1 .. m :
     \/ i <= n /\ i <= n + 1 /\ i \in 1 .. n
     \/ i = n + 1 /\ ~ (i <= n) /\ i <= n + 1
     \/ ~ (i <= n) /\ ~ (i <= n + 1)
  BY SMTT(60)

\* Equal domains have equal lengths.
LEMMA SameRange == \A m, n \in Nat : 1 .. m = 1 .. n => m = n
  BY SMTT(60)

\* A content with one unit changed is a content.
LEMMA UnitChanged == \A s \in Seq(Nat) : \A j \in DOMAIN s : \A u \in Nat : [s EXCEPT ![j] = u] \in Seq(Nat)
  BY Zenon, ExceptSeq, SeqFacts

\* A content without its last unit is a content.
LEMMA Shorter == \A s \in Seq(Nat) : SubSeq(s, 1, Len(s) - 1) \in Seq(Nat)
  BY SMTT(60)

\* Only the last of two changes of the temporary counts.
LEMMA TempTwice ==
  ASSUME NEW d \in Dirs, NEW t, NEW s
  PROVE  [[d EXCEPT !.temp = s] EXCEPT !.temp = t] = [d EXCEPT !.temp = t]
  BY Zenon DEF Dirs

\* One link is not more than one.
LEMMA OneLink == ~ (1 > 1)
  BY SMTT(60)

\* One unit more, and no carry.
LEMMA OneMoreUnit == \A n \in Nat : n + 1 = (n + 1) + 0 /\ 0 <= 1
  BY SMTT(60)

\* The locals a step that only moves on, or only notes something, leaves alone.
Keeps(q, r) ==
    /\ q.meta = r.meta /\ q.pos = r.pos /\ q.hash = r.hash /\ q.carry = r.carry
    /\ q.reused = r.reused /\ q.copied = r.copied /\ q.old = r.old /\ q.degraded = r.degraded

\* A step changes the place.
LEMMA RunGo ==
  ASSUME NEW r \in Locals, NEW s \in Steps, NEW q, q = [r EXCEPT !.pc = s]
  PROVE  /\ q \in Locals /\ q.pc = s /\ Keeps(q, r) /\ q.again = r.again
         /\ q.complaints = r.complaints /\ q.open = r.open /\ q.res = r.res
  BY Zenon DEF Locals, Keeps

\* A failing call takes from the failures left only.
LEMMA LeftIs ==
  ASSUME CopyConstants, left \in Bounds, Fault \/ NoFault
  PROVE  left' \in Bounds /\ left'.edits = left.edits
  BY SMTT(60) DEF CopyConstants, Bounds, Fault, NoFault

\* A copy that has not ended has promised nothing yet.
LEMMA GoesOn == ASSUME run'.pc # "ended" PROVE Promised'
  BY Zenon DEF Promised, Is, PublishedIsVersion, FailureAccounted, StrictIsSynced, MetadataTold,
               ReuseAddsUp

----------------------------------------------------------------------------
(* Ending *)

\* Ending without publishing keeps the invariant: a failure leaves no
\* temporary, never had one, or says so.
LEMMA Ends ==
  ASSUME CopyConstants, CopyInv, NEW e \in Result, e.what # "copied",
         run' = [run EXCEPT !.pc = "ended", !.res = e],
         dir' = dir \/ dir' = [dir EXCEPT !.temp = None],
         e.what = "failed" => dir'.temp = None \/ ~run.open \/ e.reported \/ e.kept,
         left' \in Bounds, left'.edits = left.edits,
         UNCHANGED <<src, lock, opts>>, src.data \in seen', seen' \subseteq Seq(Nat)
  PROVE  CopyInv'
  <1>0. e # None
    BY Zenon DEF CopyConstants
  <1>1. TypeOK' /\ run'.pc = "ended" /\ run'.res = e /\ run'.open = run.open
        /\ run'.hash = run.hash /\ run'.carry = run.carry
    <2>1. run \in Locals /\ dir \in Dirs /\ TypeOK
      BY Zenon DEF CopyInv, TypeOK
    <2>2. /\ run' \in Locals /\ run'.pc = "ended" /\ run'.res = e /\ run'.open = run.open
          /\ run'.hash = run.hash /\ run'.carry = run.carry
      BY Zenon, <2>1 DEF Locals, Steps
    <2>3. dir' \in Dirs
      BY Zenon, <2>1 DEF Dirs
    <2> QED  BY Zenon, <1>0, <2>1, <2>2, <2>3 DEF TypeOK
  <1>2. StepSays' /\ TempSays' /\ StampSays' /\ GateSays'
    BY SMTT(60), <1>1 DEF StepSays, TempSays, StampSays, GateSays, Planned, BeforeTemp, WithTemp,
       Reading, Compared, Past, Proving
  <1>3. QuietSays'
    BY SMTT(60), <1>1 DEF CopyInv, QuietSays, Older, Planned, BeforeTemp, WithTemp, Reading, Compared, Past
  <1>4. Promised'
    BY SMTT(60), <1>1 DEF Promised, Is, PublishedIsVersion, FailureAccounted, StrictIsSynced,
       MetadataTold, ReuseAddsUp
  <1> QED
    BY Zenon, <1>1, <1>2, <1>3, <1>4 DEF CopyInv, Promised

\* A refusal before there is a temporary.
LEMMA RefusedEnds ==
  ASSUME CopyConstants, CopyInv, Refused, run.pc \in BeforeTemp, Fault \/ NoFault,
         UNCHANGED <<src, lock, opts>>, src.data \in seen', seen' \subseteq Seq(Nat)
  PROVE  CopyInv'
  <1>1. ~run.open
    BY Zenon DEF CopyInv, StepSays
  <1>2. left' \in Bounds /\ left'.edits = left.edits
    BY Zenon, LeftIs DEF CopyInv, TypeOK
  <1>3. Ended("failed", FALSE, FALSE) \in Result /\ Ended("failed", FALSE, FALSE).what = "failed"
    BY SMTT(60) DEF Ended, Result
  <1> QED
    BY Zenon, <1>1, <1>2, <1>3, Ends DEF Refused, End

\* A failure or a mismatch that discards the temporary, or reports that it
\* could not.
LEMMA DiscardEnds ==
  ASSUME CopyConstants, CopyInv, FailAndDiscard \/ MismatchDiscards
  PROVE  CopyInv'
  <1>1. left' \in Bounds /\ left'.edits = left.edits
    <2>1. left \in Bounds
      BY Zenon DEF CopyInv, TypeOK
    <2>2. CASE FailAndDiscard
      <3>1. PICK n \in {1, 2} : left.faults >= n /\ left' = [left EXCEPT !.faults = left.faults - n]
        <4>1. left.faults \in Nat
          BY SMTT(60), <2>1 DEF Bounds, CopyConstants
        <4>2. \/ left.faults > 0 /\ left' = [left EXCEPT !.faults = left.faults - 1]
              \/ left.faults > 1 /\ left' = [left EXCEPT !.faults = left.faults - 2]
          BY Zenon, <2>2 DEF FailAndDiscard
        <4> QED  BY SMTT(60), <4>1, <4>2
      <3>2. left.faults - n \in 0 .. Faults
        BY SMTT(60), <2>1, <3>1 DEF Bounds, CopyConstants
      <3> QED  BY Zenon, <2>1, <3>1, <3>2 DEF Bounds
    <2>3. CASE MismatchDiscards
      BY Zenon, <2>1, <2>3, LeftIs DEF MismatchDiscards
    <2> QED  BY Zenon, <2>2, <2>3
  <1>2. UNCHANGED world
    BY Zenon DEF FailAndDiscard, MismatchDiscards
  <1>3. PICK b : Discard(b)
    BY Zenon DEF FailAndDiscard, MismatchDiscards
  <1>4. PICK e \in Result : /\ e.what = "failed" /\ run' = [run EXCEPT !.pc = "ended", !.res = e]
                            /\ dir' = dir \/ dir' = [dir EXCEPT !.temp = None]
                            /\ dir'.temp = None \/ e.reported
    <2>1. CASE ~lock \/ b
      <3>1. Ended("failed", TRUE, FALSE) \in Result /\ Ended("failed", TRUE, FALSE).what = "failed"
            /\ Ended("failed", TRUE, FALSE).reported
        BY SMTT(60) DEF Ended, Result
      <3> QED  BY Zenon, <1>3, <2>1, <3>1 DEF Discard, End
    <2>2. CASE ~(~lock \/ b)
      <3>1. Ended("failed", FALSE, FALSE) \in Result /\ Ended("failed", FALSE, FALSE).what = "failed"
        BY SMTT(60) DEF Ended, Result
      <3>2. dir' = [dir EXCEPT !.temp = None] /\ End(run, Ended("failed", FALSE, FALSE))
        BY Zenon, <1>3, <2>2 DEF Discard
      <3>3. dir'.temp = None
        BY Zenon, <3>2, Flat DEF Dirs
      <3> QED  BY Zenon, <3>1, <3>2, <3>3 DEF End
    <2> QED  BY Zenon, <2>1, <2>2
  <1> QED
    BY Zenon, <1>1, <1>2, <1>4, Ends DEF world, CopyInv

\* A failure that keeps the partial for a resume.
LEMMA KeptEnds ==
  ASSUME CopyConstants, CopyInv, KeepPartial, Fault, UNCHANGED world
  PROVE  CopyInv'
  <1>2. left' \in Bounds /\ left'.edits = left.edits
    BY Zenon, LeftIs DEF CopyInv, TypeOK
  <1>3. Ended("failed", FALSE, TRUE) \in Result /\ Ended("failed", FALSE, TRUE).what = "failed"
        /\ Ended("failed", FALSE, TRUE).kept
    BY SMTT(60) DEF Ended, Result
  <1> QED
    BY Zenon, <1>2, <1>3, Ends DEF KeepPartial, End, world, CopyInv

\* The sweep removes the temporary or leaves it.
LEMMA SweepTempIs ==
  ASSUME CopyConstants, TypeOK, SweepTemp \/ (UNCHANGED dir /\ NoFault)
  PROVE  /\ dir' \in Dirs /\ dir'.name = dir.name
         /\ (dir' = dir \/ dir' = [dir EXCEPT !.temp = None])
         /\ left' \in Bounds /\ left'.edits = left.edits
  <1>1. left' \in Bounds /\ left'.edits = left.edits
    BY Zenon, LeftIs DEF TypeOK, SweepTemp
  <1>2. dir' \in Dirs /\ dir'.name = dir.name
    BY Zenon DEF TypeOK, SweepTemp, Dirs
  <1> QED  BY Zenon, <1>1, <1>2 DEF SweepTemp

----------------------------------------------------------------------------
(* Before the temporary *)

\* The copy moves on before it has hashed anything.
LEMMA Approaches ==
  ASSUME CopyConstants, CopyInv, NEW s \in BeforeTemp, run' = [run EXCEPT !.pc = s],
         run.pc \in {"sweep", "open", "claim"}, s \in Planned => run.pc \in Planned,
         dir' \in Dirs, dir'.name = dir.name,
         s = "prove" => dir'.temp # None /\ dir'.temp.links = 1,
         left' \in Bounds, left'.edits = left.edits, UNCHANGED world
  PROVE  CopyInv'
  <1>1. s \in Steps /\ s # "ended" /\ run.pc \in BeforeTemp /\ run.pc # "ended" /\ ~ Proving /\ ~ run.old
    BY Zenon DEF BeforeTemp, Steps, Proving, CopyInv, StepSays
  <1>2. /\ run' \in Locals /\ run'.pc = s /\ Keeps(run', run) /\ run'.again = run.again
        /\ run'.open = run.open /\ run'.res = run.res
    BY SMTT(60), <1>1, RunGo, Flat
  <1>3. TypeOK'
    BY Zenon, <1>1, <1>2 DEF CopyInv, TypeOK, world
  <1>4. /\ ~ run.open /\ run.reused = 0 /\ run.copied = 0 /\ run.hash = << >> /\ run.carry = << >>
        /\ run.again = << >> /\ Len(run.carry) <= 1 /\ run.pos = Len(run.hash) + Len(run.carry)
        /\ run.pc \in Planned => run.meta # None
    BY Zenon, <1>1 DEF CopyInv, StepSays, BeforeTemp, Compared
  <1>5. StepSays'
    <2>1. /\ s \notin WithTemp /\ s \notin Compared /\ s \notin {"begin", "carry", "ended"}
          /\ Proving' <=> s = "prove"
      BY Zenon, <1>1, <1>2 DEF WithTemp, Compared, BeforeTemp, Proving, Keeps
    <2> QED  BY Zenon, <1>1, <1>2, <1>4, <2>1 DEF StepSays, Keeps
  <1>6. TempSays'
    <2>1. Len(run'.hash) = 0 /\ DOMAIN run'.hash = {}
      BY SMTT(60), <1>2, <1>4 DEF Keeps
    <2>2. s = "prove" => Len(dir'.temp.data) \in Nat
      BY SMTT(60), SeqFacts DEF Dirs, Entry
    <2> QED  BY SMTT(60), <1>1, <1>2, <2>1, <2>2 DEF TempSays, Proving, BeforeTemp, WithTemp, Keeps
  <1>7. StampSays' /\ QuietSays'
    <2>1. Len(run'.hash) = 0 /\ DOMAIN run'.hash = {} /\ DOMAIN run'.carry = {} /\ run'.pos = 0
          /\ Len(src.data) \in Nat /\ src' = src /\ seen' = seen /\ opts' = opts
      BY SMTT(60), <1>2, <1>4, Flat, SeqFacts DEF Keeps, world
    <2>2. run'.pc \in Planned => run'.meta.stamp <= src.stamp \/ ~Stamped
      BY Zenon, <1>2 DEF CopyInv, StampSays, Keeps
    <2>3. s \notin WithTemp /\ s \notin Past /\ s \notin Compared
      BY Zenon DEF WithTemp, Past, Compared, BeforeTemp
    <2>4. \A i \in DOMAIN src.data : ~Stamped => Older(src.data[i])
      BY Zenon DEF CopyInv, QuietSays
    <2>5. StampSays'
      BY SMTT(60), <1>2, <2>1, <2>2, <2>3 DEF StampSays
    <2>6. QuietSays'
      <3>1. 0 <= Len(src.data) /\ s # "second"
        BY SMTT(60), <2>1 DEF BeforeTemp
      <3> QED  BY Zenon, <1>2, <2>1, <2>3, <2>4, <3>1 DEF QuietSays, Older
    <2> QED  BY Zenon, <2>5, <2>6
  <1>8. GateSays'
    <2>1. s \notin Past /\ s \notin {"perms", "sync", "recheck"}
      BY Zenon DEF Past, BeforeTemp
    <2> QED  BY Zenon, <1>2, <2>1 DEF GateSays, CopyInv, Keeps, world, SameFile
  <1>9. Promised'
    BY Zenon, <1>1, <1>2, GoesOn
  <1> QED  BY Zenon, <1>3, <1>5, <1>6, <1>7, <1>8, <1>9 DEF CopyInv, Promised, world

\* Sweep: the sweep of step 1.
LEMMA SweepKeeps ==
  ASSUME CopyConstants, CopyInv, Sweep
  PROVE  CopyInv'
  <1>1. run.pc = "sweep" /\ UNCHANGED world
    BY Zenon DEF Sweep
  <1>2. CASE Refused
    <2>1. run.pc \in BeforeTemp /\ UNCHANGED <<src, lock, opts>> /\ src.data \in seen' /\ seen' \subseteq Seq(Nat)
      BY Zenon, <1>1 DEF BeforeTemp, CopyInv, world
    <2>2. Fault \/ NoFault
      BY Zenon, <1>2 DEF Sweep, SweepTemp
    <2> QED  BY Zenon, <1>2, <2>1, <2>2, RefusedEnds
  <1>3. CASE Go(run, "plan") /\ (SweepTemp \/ (UNCHANGED dir /\ NoFault))
    <2>1. /\ dir' \in Dirs /\ dir'.name = dir.name /\ left' \in Bounds /\ left'.edits = left.edits
      BY Zenon, <1>3, SweepTempIs DEF CopyInv
    <2>2. "plan" \in BeforeTemp /\ "plan" \notin Planned /\ run' = [run EXCEPT !.pc = "plan"]
      BY Zenon, <1>3 DEF BeforeTemp, Planned, Go
    <2> QED  BY Zenon, <1>1, <2>1, <2>2, Approaches
  <1> QED
    BY Zenon, <1>2, <1>3 DEF Sweep

\* OpenSource: the source is opened.
LEMMA OpenKeeps ==
  ASSUME CopyConstants, CopyInv, OpenSource
  PROVE  CopyInv'
  <1>1. /\ run.pc = "open" /\ UNCHANGED world /\ run.pc \in BeforeTemp /\ UNCHANGED <<src, lock, opts>>
        /\ src.data \in seen' /\ seen' \subseteq Seq(Nat) /\ (Fault \/ NoFault)
    BY Zenon DEF OpenSource, BeforeTemp, CopyInv, world
  <1>2. CASE Refused
    BY Zenon, <1>1, <1>2, RefusedEnds
  <1>3. CASE Go(run, "claim") /\ UNCHANGED dir /\ NoFault
    <2>1. dir' \in Dirs /\ dir'.name = dir.name /\ left' \in Bounds /\ left'.edits = left.edits
      BY Zenon, <1>3, SweepTempIs DEF CopyInv
    <2>2. "claim" \in BeforeTemp /\ run.pc \in Planned /\ run' = [run EXCEPT !.pc = "claim"]
      BY Zenon, <1>1, <1>3 DEF BeforeTemp, Planned, Steps, Go
    <2> QED  BY Zenon, <1>1, <2>1, <2>2, Approaches
  <1> QED
    BY Zenon, <1>2, <1>3 DEF OpenSource

\* The plan fixes what the source was, and the gate what may be replaced.
LEMMA PlanGoes ==
  ASSUME CopyConstants, CopyInv, run.pc = "plan", NEW b \in BOOLEAN,
         run' = [[run EXCEPT !.meta = [len |-> Len(src.data), stamp |-> src.stamp], !.degraded = b]
                   EXCEPT !.pc = "open"],
         dir.name # None /\ SameFile(dir.name) => b /\ opts.safety = "default",
         UNCHANGED <<src, dir, lock, opts>>, left' \in Bounds, left'.edits = left.edits,
         seen' = {src.data}
  PROVE  CopyInv'
  <1>1. [len |-> Len(src.data), stamp |-> src.stamp] \in Meta /\ Len(src.data) \in Nat
    BY SMTT(60), Flat, SeqFacts DEF Meta
  <1>2. /\ run' \in Locals /\ run'.pc = "open" /\ run'.meta = [len |-> Len(src.data), stamp |-> src.stamp]
        /\ run'.degraded = b /\ run'.again = run.again /\ run'.open = run.open /\ run'.res = run.res
        /\ run'.pos = run.pos /\ run'.hash = run.hash /\ run'.carry = run.carry /\ run'.reused = run.reused
        /\ run'.copied = run.copied /\ run'.old = run.old
    <2>1. run \in Locals
      BY Zenon, Flat
    <2> QED  BY Zenon, <1>1, <2>1 DEF Locals, Steps
  <1>3. run'.meta # None /\ run'.meta.stamp = src.stamp
    <2>1. run'.meta # None
      BY Zenon, <1>1, <1>2 DEF CopyConstants
    <2>2. run'.meta.stamp = src.stamp
      <3>1. run'.meta = [len |-> Len(src.data), stamp |-> src.stamp]
        BY Zenon, <1>2
      <3> QED  BY SMTT(60), <3>1
    <2> QED  BY Zenon, <2>1, <2>2
  <1>4. TypeOK'
    BY Zenon, <1>2 DEF CopyInv, TypeOK
  <1>5. /\ ~ run.open /\ run.reused = 0 /\ run.copied = 0 /\ run.hash = << >> /\ run.carry = << >>
        /\ run.again = << >> /\ ~ run.old /\ run.pos = Len(run.hash) + Len(run.carry)
    BY Zenon DEF CopyInv, StepSays, BeforeTemp, Compared, Proving
  <1>6. StepSays' /\ TempSays'
    <2>1. /\ "open" \notin WithTemp /\ "open" \notin Compared /\ "open" \in BeforeTemp /\ ~ Proving'
          /\ Len(run'.carry) <= 1
      BY SMTT(60), <1>2, <1>5 DEF WithTemp, Compared, BeforeTemp, Proving
    <2> QED  BY Zenon, <1>2, <1>3, <1>5, <2>1 DEF StepSays, TempSays
  <1>7. StampSays' /\ QuietSays'
    <2>1. Len(run'.hash) = 0 /\ DOMAIN run'.hash = {} /\ DOMAIN run'.carry = {} /\ run'.pos = 0 /\ src.stamp \in Nat
      BY SMTT(60), <1>2, <1>5, Flat
    <2>2. \A i \in DOMAIN src.data : ~Stamped => Older(src.data[i])
      BY Zenon DEF CopyInv, QuietSays
    <2> QED
      BY SMTT(60), <1>1, <1>2, <1>3, <2>1, <2>2 DEF StampSays, QuietSays, Older, WithTemp, Past, Compared, BeforeTemp
  <1>8. GateSays'
    BY Zenon, <1>2 DEF GateSays, Past, SameFile
  <1>9. Promised'
    BY Zenon, <1>2, GoesOn
  <1> QED  BY Zenon, <1>4, <1>6, <1>7, <1>8, <1>9, Flat DEF CopyInv, Promised

\* PlanFile: the source's metadata, the gate and the policy.
LEMMA PlanKeeps ==
  ASSUME CopyConstants, CopyInv, PlanFile
  PROVE  CopyInv'
  <1>1. /\ run.pc = "plan" /\ run.pc \in BeforeTemp /\ UNCHANGED <<src, lock, opts>>
        /\ seen' = {src.data} /\ src.data \in seen' /\ seen' \subseteq Seq(Nat)
    BY Zenon, Flat DEF PlanFile, BeforeTemp
  <1>2. CASE Refused /\ (Fault \/ NoFault)
    BY Zenon, <1>1, <1>2, RefusedEnds
  <1>3. ASSUME NEW b \in BOOLEAN, Fault \/ NoFault, UNCHANGED dir,
               Go([run EXCEPT !.meta = [len |-> Len(src.data), stamp |-> src.stamp], !.degraded = b], "open"),
               dir.name # None /\ SameFile(dir.name) => b /\ opts.safety = "default"
        PROVE  CopyInv'
    <2>1. left' \in Bounds /\ left'.edits = left.edits
      BY Zenon, <1>3, LeftIs DEF CopyInv, TypeOK
    <2> QED  BY Zenon, <1>1, <1>3, <2>1, PlanGoes DEF Go
  <1>4. opts.safety \in {"default", "strict"}
    BY Zenon, Flat DEF CopyConstants
  <1>5. ASSUME NEW v, NEW k, PlanTo(v, k), v # "refused" /\ dir.name # None /\ SameFile(dir.name) =>
                                             v = "degraded" /\ opts.safety = "default"
        PROVE  CopyInv'
    <2>1. CASE v = "refused"
      BY Zenon, <1>2, <1>5, <2>1 DEF PlanTo
    <2>2. CASE v # "refused" /\ k
      <3>1. CASE Hooked /\ ~lock
        BY Zenon, <1>2, <1>5, <2>2, <3>1 DEF PlanTo
      <3>2. CASE ~(Hooked /\ ~lock)
        <4>1. /\ SweepTemp \/ (UNCHANGED dir /\ NoFault)
              /\ run' = [run EXCEPT !.pc = "ended", !.res = Ended("skipped", FALSE, FALSE)]
          BY Zenon, <1>5, <2>2, <3>2 DEF PlanTo, End
        <4>2. Ended("skipped", FALSE, FALSE) \in Result /\ Ended("skipped", FALSE, FALSE).what = "skipped"
          BY SMTT(60) DEF Ended, Result
        <4>3. left' \in Bounds /\ left'.edits = left.edits /\ (dir' = dir \/ dir' = [dir EXCEPT !.temp = None])
          BY Zenon, <4>1, SweepTempIs DEF CopyInv
        <4> QED  BY Zenon, <1>1, <4>1, <4>2, <4>3, Ends
      <3> QED  BY Zenon, <3>1, <3>2
    <2>3. CASE v # "refused" /\ ~k
      BY Zenon, <1>3, <1>5, <2>3 DEF PlanTo
    <2> QED  BY Zenon, <2>1, <2>2, <2>3
  <1>6. CASE GateUnread # "refused" /\ Fault /\ UNCHANGED dir
             /\ Go([run EXCEPT !.meta = [len |-> Len(src.data), stamp |-> src.stamp], !.degraded = TRUE], "open")
    <2>1. opts.safety = "default"
      BY Zenon, <1>4, <1>6 DEF GateUnread
    <2> QED  BY Zenon, <1>3, <1>6, <2>1
  <1>7. CASE dir.name = None /\ PlanTo("ok", FALSE)
    BY Zenon, <1>5, <1>7
  <1>8. CASE dir.name # None /\ PlanTo(Gate(dir.name), Skips(dir.name))
    <2>1. Gate(dir.name) # "refused" /\ SameFile(dir.name) => Gate(dir.name) = "degraded" /\ opts.safety = "default"
      BY Zenon, <1>4 DEF Gate
    <2> QED  BY Zenon, <1>5, <1>8, <2>1
  <1> QED
    BY Zenon, <1>2, <1>6, <1>7, <1>8 DEF PlanFile

----------------------------------------------------------------------------
(* The partial and the temporary *)

\* A fresh temporary holds nothing, as nothing was hashed.
LEMMA CreateKeeps ==
  ASSUME CopyConstants, CopyInv, CreateFresh, UNCHANGED world,
         run.pc = "claim" \/ (run.pc = "make" /\ ~ run.old)
  PROVE  CopyInv'
  <1>1. /\ run.pc \in BeforeTemp /\ UNCHANGED <<src, lock, opts>> /\ src.data \in seen'
        /\ seen' \subseteq Seq(Nat) /\ (Fault \/ NoFault) /\ run.pc # "ended" /\ ~ Proving
        /\ run.pc \in Planned
    BY Zenon DEF CreateFresh, BeforeTemp, CopyInv, world, Proving, Planned, Steps
  <1>2. left' \in Bounds /\ left'.edits = left.edits
    BY Zenon, <1>1, LeftIs DEF CopyInv, TypeOK
  <1>3. CASE Refused
    BY Zenon, <1>1, <1>3, RefusedEnds
  <1>4. CASE dir' = [dir EXCEPT !.temp = None] /\ End(run, Ended("failed", FALSE, FALSE))
    <2>1. Ended("failed", FALSE, FALSE) \in Result /\ Ended("failed", FALSE, FALSE).what = "failed"
      BY SMTT(60) DEF Ended, Result
    <2>2. dir'.temp = None
      BY Zenon, <1>4, Flat DEF Dirs
    <2> QED  BY Zenon, <1>1, <1>2, <1>4, <2>1, <2>2, Ends DEF End
  <1>5. CASE dir' = [dir EXCEPT !.temp = Object(<<>>, NewObj, 1)] /\ Go([run EXCEPT !.open = TRUE], "begin")
    <2>1. /\ Object(<<>>, NewObj, 1) \in Entry /\ Object(<<>>, NewObj, 1).links = 1
          /\ Object(<<>>, NewObj, 1).data = <<>>
      BY SMTT(60) DEF Object, Entry, NewObj
    <2>2. /\ dir' \in Dirs /\ dir'.temp = Object(<<>>, NewObj, 1) /\ dir'.name = dir.name
          /\ dir'.temp # None
      BY Zenon, <1>5, <2>1, Flat DEF Dirs, CopyConstants
    <2>3. /\ run' \in Locals /\ run'.pc = "begin" /\ Keeps(run', run) /\ run'.again = run.again
          /\ run'.res = run.res
      <3>1. run \in Locals
        BY Zenon, Flat
      <3> QED  BY Zenon, <1>5, <3>1 DEF Locals, Keeps, Steps, Go
    <2>4. TypeOK'
      BY Zenon, <1>1, <1>2, <2>2, <2>3 DEF CopyInv, TypeOK
    <2>5. /\ run.reused = 0 /\ run.copied = 0 /\ run.hash = << >> /\ run.again = << >>
          /\ Len(run.carry) <= 1 /\ run.pos = Len(run.hash) + Len(run.carry) /\ run.meta # None
      BY Zenon, <1>1 DEF CopyInv, StepSays, Compared
    <2>6. StepSays' /\ TempSays'
      <3>1. /\ "begin" \in WithTemp /\ "begin" \notin Compared /\ "begin" \notin BeforeTemp /\ ~ Proving'
            /\ Len(dir'.temp.data) = 0 /\ Len(run'.hash) = 0 /\ run'.reused + run'.copied = 0
        BY SMTT(60), <2>1, <2>2, <2>3, <2>5 DEF WithTemp, Planned, Steps, Compared, BeforeTemp, Proving, Keeps
      <3> QED  BY Zenon, <2>1, <2>2, <2>3, <2>5, <3>1 DEF StepSays, TempSays, Keeps
    <2>7. StampSays' /\ QuietSays'
      <3>1. "begin" \in Planned \ Past /\ "begin" \in Reading /\ "begin" \notin Compared
        BY Zenon DEF Planned, Past, Reading, Compared, Steps
      <3>2. run.pc \notin Past
        BY Zenon, <1>1 DEF Past
      <3> QED  BY Zenon, <1>1, <1>2, <2>3, <3>1, <3>2 DEF CopyInv, StampSays, QuietSays, Older, Keeps, world
    <2>8. GateSays'
      BY Zenon, <1>1, <2>2, <2>3 DEF CopyInv, GateSays, Past, Keeps, SameFile
    <2>9. Promised'
      BY Zenon, <2>3, GoesOn
    <2> QED  BY Zenon, <1>1, <2>4, <2>6, <2>7, <2>8, <2>9 DEF CopyInv, Promised, world
  <1> QED
    BY Zenon, <1>3, <1>4, <1>5 DEF CreateFresh

\* Claim: the claim, and the look for a partial.
LEMMA ClaimKeeps ==
  ASSUME CopyConstants, CopyInv, Claim
  PROVE  CopyInv'
  <1>1. /\ run.pc = "claim" /\ UNCHANGED world /\ run.pc \in BeforeTemp /\ UNCHANGED <<src, lock, opts>>
        /\ src.data \in seen' /\ seen' \subseteq Seq(Nat)
    BY Zenon DEF Claim, BeforeTemp, CopyInv, world
  <1>2. CASE Refused /\ (Fault \/ NoFault)
    BY Zenon, <1>1, <1>2, RefusedEnds
  <1>3. CASE CreateFresh
    BY Zenon, <1>1, <1>3, CreateKeeps
  <1>4. CASE NoFault /\ UNCHANGED dir
             /\ Go(run, IF Checkpointed /\ LogAnswers /\ Reusable(dir.temp) THEN "prove" ELSE "make")
    <2>1. PICK s \in {"prove", "make"} :
             /\ run' = [run EXCEPT !.pc = s]
             /\ s = "prove" => dir'.temp # None /\ dir'.temp.links = 1
      BY Zenon, <1>4 DEF Go, Reusable
    <2>2. s \in BeforeTemp /\ run.pc \in Planned
      BY Zenon, <1>1 DEF BeforeTemp, Planned, Steps
    <2>3. dir' \in Dirs /\ dir'.name = dir.name /\ left' \in Bounds /\ left'.edits = left.edits
      BY Zenon, <1>4, Flat DEF NoFault
    <2> QED  BY Zenon, <1>1, <2>1, <2>2, <2>3, Approaches
  <1> QED
    BY Zenon, <1>2, <1>3, <1>4 DEF Claim

\* What the decider knows while it proves a partial.
LEMMA ProvingFacts ==
  ASSUME CopyInv, run.pc = "prove"
  PROVE  /\ ~ run.open /\ run.reused = 0 /\ run.copied = 0 /\ run.carry = << >> /\ run.again = << >>
         /\ run.pos = Len(run.hash) /\ run.meta # None /\ dir.temp # None /\ dir.temp.links = 1
         /\ Len(run.hash) <= Len(dir.temp.data) /\ \A i \in DOMAIN run.hash : dir.temp.data[i] = run.hash[i]
  <1>1. /\ run.pc \in BeforeTemp /\ Proving /\ run.pc \notin Compared /\ run.pc \in Planned /\ run.pc # "ended"
        /\ run.pc \notin {"make", "begin", "carry", "ended"}
    BY Zenon DEF BeforeTemp, Proving, Compared, Planned, Steps
  <1>2. /\ ~ run.open /\ run.reused = 0 /\ run.copied = 0 /\ run.carry = << >> /\ run.again = << >>
        /\ run.pos = Len(run.hash) + Len(run.carry) /\ run.meta # None /\ dir.temp # None
        /\ dir.temp.links = 1
    BY Zenon, <1>1 DEF CopyInv, StepSays
  <1>3. Len(run.hash) <= Len(dir.temp.data) /\ \A i \in DOMAIN run.hash : dir.temp.data[i] = run.hash[i]
    BY Zenon, <1>1 DEF CopyInv, TempSays
  <1>4. run.pos = Len(run.hash)
    BY SMTT(60), <1>2, Flat, SeqFacts
  <1> QED  BY Zenon, <1>2, <1>3, <1>4

\* A proven chunk is the source's and the partial's.
LEMMA ProveChunk ==
  ASSUME CopyConstants, CopyInv, run.pc = "prove", NEW unit, unit = src.data[ProveAt],
         ProveAt <= Len(src.data), ProveAt <= Len(dir.temp.data), dir.temp.data[ProveAt] = unit,
         run' = [run EXCEPT !.pos = @ + 1, !.hash = Append(@, unit)],
         UNCHANGED dir, NoFault, UNCHANGED world
  PROVE  CopyInv'
  <1>0. /\ run.pos = Len(run.hash) /\ run.carry = <<>> /\ Len(run.hash) \in Nat /\ run.hash \in Seq(Nat)
        /\ DOMAIN run.hash = 1 .. Len(run.hash) /\ Len(src.data) \in Nat /\ Len(dir.temp.data) \in Nat
        /\ DOMAIN src.data = 1 .. Len(src.data) /\ dir.temp.data \in Seq(Nat)
    BY Zenon, ProvingFacts, Flat, SeqFacts
  <1>1. unit \in Nat /\ run.pos + 1 \in Nat /\ ProveAt \in DOMAIN src.data
    BY SMTT(60), <1>0, Flat, SeqFacts DEF ProveAt
  <1>2. /\ Append(run.hash, unit) \in Seq(Nat) /\ Len(Append(run.hash, unit)) = Len(run.hash) + 1
        /\ DOMAIN Append(run.hash, unit) = 1 .. Len(run.hash) + 1
        /\ \A i \in 1 .. Len(run.hash) : Append(run.hash, unit)[i] = run.hash[i]
        /\ Append(run.hash, unit)[Len(run.hash) + 1] = unit
    BY Zenon, <1>0, <1>1, AppendFacts
  <1>3. /\ run' \in Locals /\ run'.pc = "prove" /\ run'.hash = Append(run.hash, unit)
        /\ run'.pos = run.pos + 1 /\ run'.carry = run.carry /\ run'.meta = run.meta /\ run'.open = run.open
        /\ run'.reused = run.reused /\ run'.copied = run.copied /\ run'.again = run.again
        /\ run'.res = run.res /\ run'.old = run.old /\ run'.degraded = run.degraded
    <2>1. run \in Locals
      BY Zenon, Flat
    <2> QED  BY Zenon, <1>1, <1>2, <2>1 DEF Locals
  <1>4. TypeOK'
    BY Zenon, <1>3 DEF CopyInv, TypeOK, world, NoFault
  <1>5. /\ "prove" \in BeforeTemp /\ Proving' /\ "prove" \notin Compared /\ "prove" \in Planned \ Past
        /\ "prove" \notin WithTemp /\ "prove" \notin {"make", "begin", "carry", "ended", "second"}
    BY Zenon, <1>3 DEF BeforeTemp, Proving, Compared, Planned, Steps, WithTemp, Past
  <1>6. StepSays'
    <2>1. run'.pos = run.pos + 1 /\ Len(run'.hash) = Len(run.hash) + 1 /\ run'.carry = << >>
      BY Zenon, <1>0, <1>2, <1>3
    <2>2. run'.pos = Len(run'.hash) + Len(run'.carry) /\ Len(run'.carry) <= 1
      <3>1. Len(<< >>) = 0
        BY SMTT(60)
      <3>2. Len(run'.carry) = 0 /\ run.pos = Len(run.hash) /\ Len(run.hash) \in Nat
        BY Zenon, <1>0, <2>1, <3>1
      <3> QED  BY Zenon, <2>1, <3>2, OneMoreUnit
    <2> QED  BY Zenon, <1>0, <1>3, <1>5, <2>2, ProvingFacts DEF StepSays
  <1>7. TempSays'
    <2>1. Len(run'.hash) <= Len(dir.temp.data) /\ \A i \in DOMAIN run'.hash : dir.temp.data[i] = run'.hash[i]
      BY SMTT(60), <1>0, <1>2, <1>3, ProvingFacts DEF ProveAt
    <2> QED  BY Zenon, <1>3, <1>5, <2>1 DEF TempSays
  <1>8. StampSays'
    <2> SUFFICES ASSUME Stamped PROVE StampSays'
      BY Zenon DEF StampSays
    <2>1. /\ run.meta.stamp <= src.stamp
          /\ src.stamp = run.meta.stamp => \A i \in DOMAIN run.hash : run.hash[i] = src.data[i]
      BY Zenon, <1>5 DEF CopyInv, StampSays
    <2>2. src.stamp = run.meta.stamp => \A i \in DOMAIN run'.hash : run'.hash[i] = src.data[i]
      BY SMTT(60), <1>0, <1>2, <1>3, <2>1 DEF ProveAt
    <2>3. run'.pos <= Len(src.data) /\ DOMAIN run'.carry = {}
      BY SMTT(60), <1>0, <1>3 DEF ProveAt
    <2> QED  BY Zenon, <1>3, <1>5, <2>1, <2>2, <2>3 DEF StampSays, world
  <1>9. QuietSays'
    <2> SUFFICES ASSUME ~Stamped PROVE QuietSays'
      BY Zenon DEF QuietSays
    <2>1. /\ \A i \in DOMAIN src.data : Older(src.data[i])
          /\ \A i \in DOMAIN run.hash : Older(run.hash[i])
      BY Zenon DEF CopyInv, QuietSays
    <2>2. Older(unit)
      BY Zenon, <1>1, <2>1
    <2>3. \A i \in DOMAIN run'.hash : Older(run'.hash[i])
      <3> SUFFICES ASSUME NEW i \in DOMAIN run'.hash PROVE Older(run'.hash[i])
        OBVIOUS
      <3>1. (i \in DOMAIN run.hash /\ run'.hash[i] = run.hash[i]) \/ run'.hash[i] = unit
        BY SMTT(60), <1>0, <1>2, <1>3
      <3> QED  BY Zenon, <2>1, <2>2, <3>1
    <2>4. run'.pos <= Len(src.data) /\ DOMAIN run'.carry = {}
      BY SMTT(60), <1>0, <1>3 DEF ProveAt
    <2> QED  BY Zenon, <1>3, <1>5, <2>1, <2>3, <2>4 DEF QuietSays, Older, world, NoFault, Planned, BeforeTemp
  <1>10. GateSays'
    BY Zenon, <1>3, <1>5 DEF CopyInv, GateSays, Past, SameFile, world
  <1>11. Promised'
    BY Zenon, <1>3, GoesOn
  <1> QED  BY Zenon, <1>4, <1>6, <1>7, <1>8, <1>9, <1>10, <1>11 DEF CopyInv, Promised, world

\* The verdict: what is hashed stays, and the unit read past it waits.
LEMMA VerdictKeeps ==
  ASSUME CopyConstants, CopyInv, run.pc = "prove", NEW c \in Seq(Nat), Verdict(c), Len(c) <= 1,
         run.pos + Len(c) <= Len(src.data) \/ c = <<>>, \A i \in DOMAIN c : c[i] = src.data[Len(run.hash) + i],
         UNCHANGED dir, NoFault, UNCHANGED world
  PROVE  CopyInv'
  <1>0. /\ run.pos = Len(run.hash) /\ run.carry = <<>> /\ Len(run.hash) \in Nat /\ run.hash \in Seq(Nat)
        /\ DOMAIN run.hash = 1 .. Len(run.hash) /\ Len(src.data) \in Nat
        /\ DOMAIN src.data = 1 .. Len(src.data) /\ Len(c) \in Nat /\ DOMAIN c = 1 .. Len(c)
    BY Zenon, ProvingFacts, Flat, SeqFacts
  <1>1. run.pos + Len(c) \in Nat /\ (run.pos > 0) \in BOOLEAN
    BY SMTT(60), <1>0
  <1>2. /\ run' \in Locals /\ run'.pc = "make" /\ run'.hash = run.hash
        /\ run'.pos = run.pos + Len(c) /\ run'.carry = c /\ run'.meta = run.meta /\ run'.open = run.open
        /\ run'.reused = run.reused /\ run'.copied = run.copied /\ run'.again = run.again
        /\ run'.res = run.res /\ run'.old = (run.pos > 0) /\ run'.degraded = run.degraded
    <2>1. run \in Locals
      BY Zenon, Flat
    <2> QED  BY Zenon, <1>1, <2>1 DEF Locals, Verdict, Go, Steps
  <1>3. TypeOK'
    BY Zenon, <1>2 DEF CopyInv, TypeOK, world, NoFault
  <1>4. /\ "make" \in BeforeTemp /\ "make" \notin Compared /\ "make" \in Planned \ Past
        /\ "make" \notin WithTemp /\ "make" \notin {"sweep", "plan", "open", "claim", "ended", "second"}
        /\ Proving' <=> run.pos > 0
    BY Zenon, <1>2 DEF BeforeTemp, Proving, Compared, Planned, Steps, WithTemp, Past
  <1>5. StepSays'
    <2>1. ~ (run.pos > 0) => run.hash = <<>>
      BY SMTT(60), <1>0, EmptySeq
    <2>2. run'.pos = Len(run'.hash) + Len(run'.carry) /\ Len(run'.carry) <= 1
      BY Zenon, <1>0, <1>2
    <2> QED  BY Zenon, <1>2, <1>4, <2>1, <2>2, ProvingFacts DEF StepSays
  <1>6. TempSays'
    BY Zenon, <1>2, <1>4, ProvingFacts DEF TempSays
  <1>7. run.pos <= Len(src.data) => run'.pos <= Len(src.data)
    <2>1. Len(<<>>) = 0
      BY SMTT(60)
    <2>2. run'.pos = run.pos + Len(c) /\ (c = <<>> => Len(c) = 0)
      BY Zenon, <1>2, <2>1
    <2> QED  BY SMTT(60), <1>0, <2>2
  <1>8. StampSays'
    <2>1. "prove" \in Planned \ Past
      BY Zenon DEF Planned, Past, Steps
    <2> QED  BY Zenon, <1>2, <1>4, <1>7, <2>1 DEF CopyInv, StampSays, world
  <1>9. QuietSays'
    <2> SUFFICES ASSUME ~Stamped PROVE QuietSays'
      BY Zenon DEF QuietSays
    <2>1. /\ \A i \in DOMAIN src.data : Older(src.data[i])
          /\ \A i \in DOMAIN run.hash : Older(run.hash[i])
          /\ run.pos <= Len(src.data)
      BY Zenon DEF CopyInv, QuietSays
    <2>2. \A i \in DOMAIN c : Len(run.hash) + i \in DOMAIN src.data
      <3>1. DOMAIN <<>> = {}
        BY SMTT(60)
      <3>2. \/ c = <<>> /\ DOMAIN c = {}
            \/ run.pos + Len(c) <= Len(src.data)
        BY Zenon, <3>1
      <3> QED  BY SMTT(60), <1>0, <3>2
    <2>3. \A i \in DOMAIN c : Older(c[i])
      BY Zenon, <2>1, <2>2
    <2> QED  BY Zenon, <1>2, <1>4, <1>7, <2>1, <2>3 DEF QuietSays, Older, world, NoFault
  <1>10. GateSays'
    <2>1. "prove" \in Planned
      BY Zenon DEF Planned, Steps
    <2> QED  BY Zenon, <1>2, <1>4, <2>1 DEF CopyInv, GateSays, Past, SameFile, world
  <1>11. Promised'
    BY Zenon, <1>2, GoesOn
  <1> QED  BY Zenon, <1>3, <1>5, <1>6, <1>8, <1>9, <1>10, <1>11 DEF CopyInv, Promised, world

\* Prove: one turn of decide or decide_full.
LEMMA ProveKeeps ==
  ASSUME CopyConstants, CopyInv, Prove
  PROVE  CopyInv'
  <1>1. /\ run.pc = "prove" /\ UNCHANGED dir /\ UNCHANGED world /\ run.pc \in BeforeTemp
        /\ UNCHANGED <<src, lock, opts>> /\ src.data \in seen' /\ seen' \subseteq Seq(Nat)
    BY Zenon DEF Prove, BeforeTemp, CopyInv, world
  <1>2. CASE Refused /\ Fault
    BY Zenon, <1>1, <1>2, RefusedEnds
  <1>3. CASE NoFault /\ Verdict(<<>>)
    <2>1. <<>> \in Seq(Nat) /\ Len(<<>>) <= 1 /\ DOMAIN <<>> = {}
      BY SMTT(60)
    <2> QED  BY Zenon, <1>1, <1>3, <2>1, VerdictKeeps
  <1>4. CASE NoFault /\ ~ (ProvenAll \/ ProveAt > Len(src.data))
    <2>0. /\ run.pos = Len(run.hash) /\ Len(run.hash) \in Nat /\ Len(src.data) \in Nat
          /\ Len(dir.temp.data) \in Nat /\ DOMAIN src.data = 1 .. Len(src.data)
          /\ \A i \in DOMAIN src.data : src.data[i] \in Nat
      BY Zenon, ProvingFacts, Flat, SeqFacts, <1>1
    <2>1. ~ (ProveAt > Len(dir.temp.data)) /\ ~ (ProveAt > Len(src.data))
      BY Zenon, <1>4 DEF ProvenAll
    <2>2. ProveAt <= Len(dir.temp.data) /\ ProveAt <= Len(src.data) /\ ProveAt \in DOMAIN src.data
      BY SMTT(60), <2>0, <2>1 DEF ProveAt
    <2> DEFINE unit == src.data[ProveAt]
    <2>3. unit \in Nat
      BY Zenon, <2>0, <2>2
    <2>4. CASE ChunkProven(unit) /\ run' = [run EXCEPT !.pos = @ + 1, !.hash = Append(@, unit)]
      BY Zenon, <1>1, <1>4, <2>2, <2>4, ProveChunk DEF ChunkProven
    <2>5. CASE Verdict(<<unit>>)
      <3> HIDE DEF unit
      <3>1. <<unit>> \in Seq(Nat) /\ Len(<<unit>>) = 1 /\ DOMAIN <<unit>> = {1} /\ <<unit>>[1] = unit
        BY SMTT(60), <2>3
      <3>2. unit = src.data[Len(run.hash) + 1]
        BY Zenon, <2>0 DEF unit, ProveAt
      <3>3. \A i \in DOMAIN <<unit>> : <<unit>>[i] = src.data[Len(run.hash) + i]
        BY Zenon, <3>1, <3>2
      <3>4. Len(<<unit>>) <= 1 /\ run.pos + Len(<<unit>>) <= Len(src.data)
        BY SMTT(60), <2>0, <2>2, <3>1 DEF ProveAt
      <3> QED  BY Zenon, <1>1, <1>4, <2>5, <3>1, <3>3, <3>4, VerdictKeeps
    <2> QED  BY Zenon, <1>1, <1>2, <1>3, <1>4, <2>4, <2>5 DEF Prove
  <1> QED
    BY Zenon, <1>2, <1>3, <1>4 DEF Prove

\* A reopened partial is cut at what was proven, so that it holds just that.
LEMMA ReopenKeeps ==
  ASSUME CopyConstants, CopyInv, run.pc = "make", run.old, NoFault, UNCHANGED world,
         dir' = [dir EXCEPT !.temp = Cut(@)],
         Go([run EXCEPT !.reused = Len(run.hash), !.open = TRUE], "begin")
  PROVE  CopyInv'
  <1>0. /\ Proving /\ run.pc \in BeforeTemp /\ run.pc \notin Compared /\ run.pc \in Planned \ Past
        /\ run.pc \notin {"ended", "second"}
    BY Zenon DEF Proving, BeforeTemp, Compared, Planned, Past, Steps
  <1>1. /\ run.copied = 0 /\ run.again = <<>> /\ Len(run.carry) <= 1 /\ run.meta # None
        /\ run.pos = Len(run.hash) + Len(run.carry) /\ dir.temp # None /\ dir.temp.links = 1
        /\ Len(run.hash) <= Len(dir.temp.data) /\ \A i \in DOMAIN run.hash : dir.temp.data[i] = run.hash[i]
    BY Zenon, <1>0 DEF CopyInv, StepSays, TempSays
  <1>2. /\ run.hash \in Seq(Nat) /\ dir.temp.data \in Seq(Nat) /\ Len(run.hash) \in Nat
        /\ Len(dir.temp.data) \in Nat /\ run \in Locals /\ dir \in Dirs /\ dir.temp \in Entry
    BY Zenon, <1>1, Flat, SeqFacts
  <1>3. SubSeq(dir.temp.data, 1, Len(run.hash)) = run.hash
    <2> DEFINE cut == SubSeq(dir.temp.data, 1, Len(run.hash))
    <2>1. \A i \in 1 .. Len(run.hash) : cut[i] = dir.temp.data[i]
      BY SMTT(60), <1>1, <1>2, SubSeqProperties
    <2>2. cut \in Seq(Nat) /\ Len(cut) = Len(run.hash)
      BY SMTT(60), <1>1, <1>2, SubSeqProperties
    <2>3. DOMAIN run.hash = 1 .. Len(run.hash)
      BY Zenon, <1>2, SeqFacts
    <2> HIDE DEF cut
    <2>4. \A i \in DOMAIN run.hash : run.hash[i] = cut[i]
      BY Zenon, <1>1, <2>1, <2>3
    <2>5. run.hash = cut
      BY Zenon, <1>2, <2>2, <2>4, SeqSame
    <2> QED  BY Zenon, <2>5 DEF cut
  <1>4. /\ dir' \in Dirs /\ dir'.temp \in Entry /\ dir'.temp.data = run.hash /\ dir'.temp.links = 1
        /\ dir'.name = dir.name /\ dir'.temp # None
    <2>1. Cut(dir.temp) = [dir.temp EXCEPT !.data = run.hash, !.safe = FALSE]
      BY Zenon, <1>3 DEF Cut
    <2>2. Cut(dir.temp) \in Entry /\ Cut(dir.temp).data = run.hash /\ Cut(dir.temp).links = 1
      BY Zenon, <1>1, <1>2, <2>1 DEF Entry
    <2>3. dir' = [dir EXCEPT !.temp = Cut(dir.temp)]
      OBVIOUS
    <2> QED  BY Zenon, <1>2, <2>2, <2>3 DEF Dirs, CopyConstants
  <1>5. /\ run' \in Locals /\ run'.pc = "begin" /\ run'.hash = run.hash /\ run'.carry = run.carry
        /\ run'.pos = run.pos /\ run'.meta = run.meta /\ run'.again = run.again /\ run'.old = run.old
        /\ run'.reused = Len(run.hash) /\ run'.copied = run.copied /\ run'.res = run.res
        /\ run'.degraded = run.degraded
    BY Zenon, <1>2 DEF Locals, Go, Steps
  <1>6. TypeOK'
    BY Zenon, <1>0, <1>4, <1>5 DEF CopyInv, TypeOK, world, NoFault
  <1>7. /\ "begin" \in WithTemp /\ "begin" \notin Compared /\ "begin" \notin BeforeTemp /\ ~ Proving'
        /\ "begin" \in Planned \ Past /\ "begin" \in Reading
    BY Zenon, <1>5 DEF WithTemp, Planned, Steps, Compared, BeforeTemp, Proving, Past, Reading
  <1>8. StepSays'
    BY Zenon, <1>1, <1>4, <1>5, <1>7 DEF StepSays
  <1>9. TempSays'
    <2>1. run'.reused + run'.copied = Len(run'.hash)
      BY SMTT(60), <1>1, <1>2, <1>5
    <2> QED  BY Zenon, <1>4, <1>5, <1>7, <2>1 DEF TempSays
  <1>10. StampSays' /\ QuietSays'
    <2>1. StampSays'
      BY ZenonT(30), <1>0, <1>5, <1>7 DEF CopyInv, StampSays, Older, world, NoFault
    <2>2. QuietSays'
      BY ZenonT(30), <1>0, <1>5, <1>7 DEF CopyInv, QuietSays, Older, world, NoFault
    <2> QED  BY Zenon, <2>1, <2>2
  <1>11. GateSays'
    BY Zenon, <1>0, <1>4, <1>5, <1>7 DEF CopyInv, GateSays, Past, SameFile, world
  <1>12. Promised'
    BY Zenon, <1>5, GoesOn
  <1> QED  BY Zenon, <1>6, <1>8, <1>9, <1>10, <1>11, <1>12 DEF CopyInv, Promised, world

\* MakeTemp: the partial reopened or a temporary created.
LEMMA MakeKeeps ==
  ASSUME CopyConstants, CopyInv, MakeTemp
  PROVE  CopyInv'
  <1>1. /\ run.pc = "make" /\ UNCHANGED world /\ run.pc \in BeforeTemp
        /\ UNCHANGED <<src, lock, opts>> /\ src.data \in seen' /\ seen' \subseteq Seq(Nat)
    BY Zenon DEF MakeTemp, BeforeTemp, CopyInv, world
  <1> QED
    BY Zenon, <1>1, RefusedEnds, KeptEnds, ReopenKeeps, CreateKeeps DEF MakeTemp

----------------------------------------------------------------------------
(* The content *)

\* What a write of one unit leaves in the directory.
LEMMA WriteIs ==
  ASSUME CopyConstants, CopyInv, run.pc \in {"carry", "stream"}, NEW w \in Nat, Write(w)
  PROVE  /\ dir' \in Dirs /\ dir'.temp # None /\ dir'.temp.data = Append(dir.temp.data, w)
         /\ dir'.temp.links = dir.temp.links /\ dir'.name = dir.name
  <1>1. dir.temp # None /\ dir.temp \in Entry /\ dir \in Dirs /\ dir.temp.data \in Seq(Nat)
    <2>1. run.pc \in WithTemp
      BY Zenon DEF WithTemp, Planned, Steps, BeforeTemp
    <2> QED  BY Zenon, <2>1, Flat DEF CopyInv, StepSays
  <1> DEFINE more == Append(dir.temp.data, w)
             temp == [dir.temp EXCEPT !.data = more, !.safe = FALSE]
  <1>2. more \in Seq(Nat)
    BY Zenon, <1>1, AppendFacts
  <1>3. dir' = [dir EXCEPT !.temp = temp]
    <2> DEFINE once == [dir EXCEPT !.temp = [dir.temp EXCEPT !.data = more]]
    <2>1. dir' = [once EXCEPT !.temp = [once.temp EXCEPT !.safe = FALSE]]
      BY Zenon DEF Write
    <2>2. once.temp = [dir.temp EXCEPT !.data = more]
      BY Zenon, <1>1 DEF Dirs
    <2>3. dir' = [once EXCEPT !.temp = temp]
      BY Zenon, <2>1, <2>2
    <2> HIDE DEF temp, more
    <2> QED  BY Zenon, <2>3, TempTwice, <1>1
  <1> HIDE DEF more
  <1>4. temp \in Entry /\ temp.data = more /\ temp.links = dir.temp.links
    BY Zenon, <1>1, <1>2 DEF Entry
  <1> HIDE DEF temp
  <1> QED  BY Zenon, <1>1, <1>3, <1>4 DEF Dirs, CopyConstants, more

\* A unit is hashed as it was read and stored as the device will have it.
LEMMA Writes ==
  ASSUME CopyConstants, CopyInv, run.pc \in {"carry", "stream"},
         NEW u \in Nat, NEW w \in Nat, w = u \/ opts.corrupt,
         dir' \in Dirs, dir'.temp # None, dir'.temp.data = Append(dir.temp.data, w),
         dir'.temp.links = dir.temp.links, dir'.name = dir.name,
         run' \in Locals, run'.pc = "stream", run'.hash = Append(run.hash, u),
         run'.copied = run.copied + 1, run'.reused = run.reused, run'.meta = run.meta,
         run'.again = run.again, run'.degraded = run.degraded, run'.res = run.res,
         run'.carry = <<>>, run'.pos = Len(run.hash) + 1,
         Stamped /\ src.stamp = run.meta.stamp =>
            Len(run.hash) + 1 <= Len(src.data) /\ u = src.data[Len(run.hash) + 1],
         ~ Stamped => Len(run.hash) + 1 <= Len(src.data) /\ Older(u),
         left' \in Bounds, left'.edits = left.edits, UNCHANGED world
  PROVE  CopyInv'
  <1>0. /\ run.pc \in WithTemp \ Compared /\ run.pc \in Planned \ Past /\ run.pc # "ended" /\ run.pc # "second"
        /\ "stream" \in WithTemp /\ "stream" \in Planned \ Past /\ "stream" \in Reading
        /\ "stream" \notin Compared /\ "stream" \notin BeforeTemp /\ ~ Proving'
        /\ "stream" \notin {"make", "begin", "carry", "ended", "second"} /\ run.pc \notin Compared \cup {"ended"}
    BY Zenon DEF WithTemp, Compared, Planned, Past, Steps, BeforeTemp, Reading, Proving
  <1>1. /\ run.again = << >> /\ run.meta # None /\ dir.temp.links = 1 /\ dir.temp # None
        /\ Len(dir.temp.data) = Len(run.hash) /\ run.reused + run.copied = Len(run.hash)
        /\ ~ opts.corrupt => dir.temp.data = run.hash
    BY Zenon, <1>0 DEF CopyInv, StepSays, TempSays
  <1>2. /\ run.hash \in Seq(Nat) /\ dir.temp.data \in Seq(Nat) /\ Len(run.hash) \in Nat
        /\ Len(src.data) \in Nat /\ DOMAIN run.hash = 1 .. Len(run.hash)
        /\ run.reused \in Nat /\ run.copied \in Nat
    BY Zenon, <1>1, Flat, SeqFacts
  <1>3. /\ Len(run'.hash) = Len(run.hash) + 1 /\ DOMAIN run'.hash = 1 .. Len(run.hash) + 1
        /\ \A i \in 1 .. Len(run.hash) : run'.hash[i] = run.hash[i]
        /\ run'.hash[Len(run.hash) + 1] = u /\ Len(dir'.temp.data) = Len(run.hash) + 1
    <2>1. /\ Len(run'.hash) = Len(run.hash) + 1 /\ DOMAIN run'.hash = 1 .. Len(run.hash) + 1
          /\ \A i \in 1 .. Len(run.hash) : run'.hash[i] = run.hash[i]
          /\ run'.hash[Len(run.hash) + 1] = u
      <3>1. /\ Len(Append(run.hash, u)) = Len(run.hash) + 1
            /\ DOMAIN Append(run.hash, u) = 1 .. Len(run.hash) + 1
            /\ \A i \in 1 .. Len(run.hash) : Append(run.hash, u)[i] = run.hash[i]
            /\ Append(run.hash, u)[Len(run.hash) + 1] = u
        BY Zenon, <1>2, AppendFacts
      <3> QED  BY Zenon, <3>1
    <2>2. Len(Append(dir.temp.data, w)) = Len(dir.temp.data) + 1
      BY Zenon, <1>2, AppendFacts
    <2> QED  BY Zenon, <1>1, <2>1, <2>2
  <1>4. Len(<<>>) = 0 /\ DOMAIN <<>> = {}
    BY SMTT(60)
  <1>5. TypeOK'
    BY Zenon, <1>0 DEF CopyInv, TypeOK, world
  <1>6. StepSays'
    <2>1. run'.pos = Len(run'.hash) + Len(run'.carry) /\ Len(run'.carry) <= 1
      BY Zenon, <1>2, <1>3, <1>4, OneMoreUnit
    <2> QED  BY Zenon, <1>0, <1>1, <2>1 DEF StepSays
  <1>7. TempSays'
    <2>1. run'.reused + run'.copied = Len(run'.hash)
      <3>1. run.reused + (run.copied + 1) = Len(run.hash) + 1
        <4>1. /\ run.reused \in Nat /\ run.copied \in Nat /\ Len(run.hash) \in Nat
              /\ run.reused + run.copied = Len(run.hash)
          BY Zenon, <1>1, <1>2
        <4> QED  BY SMTT(60), <4>1
      <3>2. Len(run'.hash) = Len(run.hash) + 1
        BY Zenon, <1>3
      <3> QED  BY Zenon, <3>1, <3>2
    <2>2. Len(dir'.temp.data) = Len(run'.hash)
      BY Zenon, <1>3
    <2>3. opts' = opts
      BY Zenon DEF world
    <2>4. ~ opts.corrupt => dir'.temp.data = run'.hash
      BY Zenon, <1>1
    <2> QED  BY Zenon, <1>0, <2>1, <2>2, <2>3, <2>4 DEF TempSays
  <1>8. StampSays'
    <2> SUFFICES ASSUME Stamped PROVE StampSays'
      BY Zenon DEF StampSays
    <2>1. /\ run.meta.stamp <= src.stamp
          /\ src.stamp = run.meta.stamp => \A i \in DOMAIN run.hash : run.hash[i] = src.data[i]
      BY Zenon, <1>0 DEF CopyInv, StampSays
    <2>2. src.stamp = run.meta.stamp => \A i \in DOMAIN run'.hash : run'.hash[i] = src.data[i]
      <3> SUFFICES ASSUME src.stamp = run.meta.stamp, NEW i \in DOMAIN run'.hash
                   PROVE  run'.hash[i] = src.data[i]
        OBVIOUS
      <3>1. i \in 1 .. Len(run.hash) + 1
        BY Zenon, <1>3
      <3>2. i \in 1 .. Len(run.hash) \/ i = Len(run.hash) + 1
        BY OneBeyond, <1>2, <3>1, Zenon
      <3> QED  BY Zenon, <1>2, <1>3, <2>1, <3>2
    <2> QED  BY Zenon, <1>0, <1>4, <2>1, <2>2 DEF StampSays, world
  <1>9. QuietSays'
    <2> SUFFICES ASSUME ~Stamped PROVE QuietSays'
      BY Zenon DEF QuietSays
    <2>1. /\ \A i \in DOMAIN src.data : Older(src.data[i])
          /\ \A i \in DOMAIN run.hash : Older(run.hash[i])
      BY Zenon DEF CopyInv, QuietSays
    <2>2. \A i \in DOMAIN run'.hash : Older(run'.hash[i])
      <3> SUFFICES ASSUME NEW i \in DOMAIN run'.hash PROVE Older(run'.hash[i])
        OBVIOUS
      <3>1. i \in 1 .. Len(run.hash) + 1
        BY Zenon, <1>3
      <3>2. i \in 1 .. Len(run.hash) \/ i = Len(run.hash) + 1
        BY OneBeyond, <1>2, <3>1, Zenon
      <3> QED  BY Zenon, <1>2, <1>3, <2>1, <3>2
    <2> QED  BY Zenon, <1>0, <1>4, <2>1, <2>2 DEF QuietSays, Older, world
  <1>10. GateSays'
    <2>1. "stream" \notin {"perms", "sync", "recheck"} \cup Past /\ "stream" \notin {"sync", "recheck"} \cup Past
          /\ "stream" \notin {"recheck"} \cup Past
      BY Zenon DEF Past
    <2> QED  BY Zenon, <1>0, <2>1 DEF CopyInv, GateSays, SameFile, world
  <1>11. Promised'
    BY Zenon, <1>0, GoesOn
  <1> QED  BY Zenon, <1>5, <1>6, <1>7, <1>8, <1>9, <1>10, <1>11 DEF CopyInv, Promised, world

\* The unit the decider read past the proven prefix is written.
LEMMA CarryKeeps ==
  ASSUME CopyConstants, CopyInv, run.pc = "carry", run.carry # <<>>, UNCHANGED world,
         \/ Write(run.carry[1]) /\ NoFault
         \/ opts.corrupt /\ Write(Bad) /\ Fault,
         Go([Written(run, run.carry[1]) EXCEPT !.carry = <<>>], "stream")
  PROVE  CopyInv'
  <1> DEFINE u == run.carry[1]
  <1>0. run.pc \in {"carry", "stream"} /\ run.pc \in Planned \ Past /\ run.pc # "ended"
    BY Zenon DEF Planned, Past, Steps
  <1>1. /\ run \in Locals /\ run.hash \in Seq(Nat) /\ run.carry \in Seq(Nat) /\ Len(run.carry) <= 1
        /\ run.pos = Len(run.hash) + Len(run.carry) /\ Len(run.hash) \in Nat /\ Len(run.carry) \in Nat
        /\ DOMAIN run.carry = 1 .. Len(run.carry)
    BY Zenon, <1>0, Flat, SeqFacts DEF CopyInv, StepSays
  <1>2. Len(run.carry) # 0
    BY Zenon, <1>1, EmptySeq
  <1>3. Len(run.carry) = 1 /\ 1 \in DOMAIN run.carry
    BY AtMostOne, <1>1, <1>2, Zenon
  <1>4. u \in Nat
    BY Zenon, <1>1, <1>3, SeqFacts
  <1>5. PICK w \in Nat : (w = u \/ opts.corrupt) /\ Write(w)
    <2>1. Bad \in Nat
      BY SMTT(60) DEF Bad
    <2> QED  BY Zenon, <1>4, <2>1
  <1>6. left' \in Bounds /\ left'.edits = left.edits
    BY Zenon, LeftIs DEF CopyInv, TypeOK
  <1>7. run.copied \in Nat /\ run.copied + 1 \in Nat
    BY SMTT(60), Flat
  <1>8. Append(run.hash, u) \in Seq(Nat)
    BY Zenon, <1>1, <1>4, AppendFacts
  <1>9. /\ run' \in Locals /\ run'.pc = "stream" /\ run'.hash = Append(run.hash, u)
        /\ run'.copied = run.copied + 1 /\ run'.reused = run.reused /\ run'.meta = run.meta
        /\ run'.again = run.again /\ run'.degraded = run.degraded /\ run'.res = run.res
        /\ run'.carry = <<>> /\ run'.pos = run.pos
    <2>1. <<>> \in Seq(Nat)
      BY Zenon, EmptySeq
    <2> HIDE DEF u
    <2>2. run' = [[[run EXCEPT !.hash = Append(@, u), !.copied = @ + 1] EXCEPT !.carry = <<>>] EXCEPT !.pc = "stream"]
      BY Zenon DEF Go, Written, u
    <2> QED  BY Zenon, <1>1, <1>7, <1>8, <2>1, <2>2 DEF Locals, Steps
  <1>10. Stamped /\ src.stamp = run.meta.stamp =>
            Len(run.hash) + 1 <= Len(src.data) /\ u = src.data[Len(run.hash) + 1]
    BY Zenon, <1>0, <1>1, <1>3 DEF CopyInv, StampSays
  <1>11. ~ Stamped => Len(run.hash) + 1 <= Len(src.data) /\ Older(u)
    BY Zenon, <1>0, <1>1, <1>3 DEF CopyInv, QuietSays
  <1>12. run'.pos = Len(run.hash) + 1
    BY Zenon, <1>1, <1>3, <1>9
  <1>13. /\ dir' \in Dirs /\ dir'.temp # None /\ dir'.temp.data = Append(dir.temp.data, w)
         /\ dir'.temp.links = dir.temp.links /\ dir'.name = dir.name
    BY Zenon, <1>0, <1>5, WriteIs
  <1> HIDE DEF u
  <1> QED  BY Zenon, <1>0, <1>4, <1>5, <1>6, <1>9, <1>10, <1>11, <1>12, <1>13, Writes

\* A unit of the stream is written.
LEMMA StreamKeeps ==
  ASSUME CopyConstants, CopyInv, run.pc = "stream", run.pos < Len(src.data), UNCHANGED world,
         \/ Write(src.data[run.pos + 1]) /\ NoFault
         \/ opts.corrupt /\ Write(Bad) /\ Fault,
         run' = [Written(run, src.data[run.pos + 1]) EXCEPT !.pos = @ + 1]
  PROVE  CopyInv'
  <1> DEFINE u == src.data[run.pos + 1]
  <1>0. /\ run.pc \in {"carry", "stream"} /\ run.pc # "ended"
        /\ run.pc \notin {"make", "begin", "carry", "ended"}
    OBVIOUS
  <1>1. /\ run \in Locals /\ run.hash \in Seq(Nat) /\ src.data \in Seq(Nat) /\ run.carry = <<>>
        /\ run.pos = Len(run.hash) + Len(run.carry) /\ Len(run.hash) \in Nat /\ Len(src.data) \in Nat
        /\ DOMAIN src.data = 1 .. Len(src.data) /\ run.pos \in Nat
    BY Zenon, <1>0, Flat, SeqFacts DEF CopyInv, StepSays
  <1>2. run.pos = Len(run.hash)
    <2>1. Len(<<>>) = 0
      BY SMTT(60)
    <2>2. run.pos = Len(run.hash) + 0
      BY Zenon, <1>1, <2>1
    <2> QED  BY SMTT(60), <1>1, <2>2
  <1>3. run.pos + 1 \in DOMAIN src.data /\ run.pos + 1 <= Len(src.data) /\ run.pos + 1 \in Nat
    BY WithinOne, <1>1, Zenon
  <1>4. u \in Nat
    BY Zenon, <1>1, <1>3, SeqFacts
  <1>5. PICK w \in Nat : (w = u \/ opts.corrupt) /\ Write(w)
    <2>1. Bad \in Nat
      BY SMTT(60) DEF Bad
    <2> QED  BY Zenon, <1>4, <2>1
  <1>6. left' \in Bounds /\ left'.edits = left.edits
    BY Zenon, LeftIs DEF CopyInv, TypeOK
  <1>7. run.copied \in Nat /\ run.copied + 1 \in Nat
    <2>1. run.copied \in Nat
      BY Zenon, Flat
    <2>2. \A n \in Nat : n + 1 \in Nat
      BY SMTT(60)
    <2> QED  BY Zenon, <2>1, <2>2
  <1>8. Append(run.hash, u) \in Seq(Nat)
    BY Zenon, <1>1, <1>4, AppendFacts
  <1>9. /\ run' \in Locals /\ run'.pc = "stream" /\ run'.hash = Append(run.hash, u)
        /\ run'.copied = run.copied + 1 /\ run'.reused = run.reused /\ run'.meta = run.meta
        /\ run'.again = run.again /\ run'.degraded = run.degraded /\ run'.res = run.res
        /\ run'.carry = run.carry /\ run'.pos = run.pos + 1
    <2> HIDE DEF u
    <2> DEFINE r == [run EXCEPT !.hash = Append(run.hash, u), !.copied = run.copied + 1]
    <2>1. run' = [r EXCEPT !.pos = r.pos + 1]
      BY Zenon DEF Written, u
    <2>2. r.pos = run.pos
      BY Zenon, <1>1 DEF Locals
    <2>3. run' = [r EXCEPT !.pos = run.pos + 1]
      BY Zenon, <2>1, <2>2
    <2>4. /\ r \in Locals /\ r.pc = run.pc /\ r.hash = Append(run.hash, u) /\ r.copied = run.copied + 1
          /\ r.reused = run.reused /\ r.meta = run.meta /\ r.again = run.again /\ r.degraded = run.degraded
          /\ r.res = run.res /\ r.carry = run.carry
      BY Zenon, <1>1, <1>7, <1>8 DEF Locals
    <2> HIDE DEF r
    <2>5. run.pos + 1 \in Nat
      BY Zenon, <1>3
    <2>6. /\ run' \in Locals /\ run'.pc = r.pc /\ run'.hash = r.hash /\ run'.copied = r.copied
          /\ run'.reused = r.reused /\ run'.meta = r.meta /\ run'.again = r.again
          /\ run'.degraded = r.degraded /\ run'.res = r.res /\ run'.carry = r.carry /\ run'.pos = run.pos + 1
      BY ZenonT(30), <2>3, <2>4, <2>5 DEF Locals
    <2> QED  BY Zenon, <2>4, <2>6
  <1>10. Len(run.hash) + 1 <= Len(src.data) /\ u = src.data[Len(run.hash) + 1]
    BY Zenon, <1>2, <1>3
  <1>11. ~ Stamped => Older(u)
    BY Zenon, <1>3 DEF CopyInv, QuietSays
  <1>12. run'.pos = Len(run.hash) + 1 /\ run'.carry = <<>>
    BY Zenon, <1>1, <1>2, <1>9
  <1>13. /\ dir' \in Dirs /\ dir'.temp # None /\ dir'.temp.data = Append(dir.temp.data, w)
         /\ dir'.temp.links = dir.temp.links /\ dir'.name = dir.name
    BY Zenon, <1>0, <1>5, WriteIs
  <1> HIDE DEF u
  <1> QED  BY Zenon, <1>0, <1>4, <1>5, <1>6, <1>9, <1>10, <1>11, <1>12, <1>13, Writes

\* A step with the temporary that leaves its content and the hash alone: what
\* it has to know when it goes past the stream, the re-read, the second read or
\* the last recheck.
LEMMA Advance ==
  ASSUME CopyConstants, CopyInv, run.pc \in WithTemp, run'.pc \in WithTemp,
         run' \in Locals, Keeps(run', run), run'.again = run.again, run'.res = run.res,
         dir' \in Dirs, dir'.temp # None, dir'.temp.data = dir.temp.data,
         dir'.temp.links = dir.temp.links, left' \in Bounds, left'.edits = left.edits, UNCHANGED world,
         run'.pc \notin {"begin", "carry"} => run.carry = << >>,
         run.pc \in Compared => run'.pc \in Compared,
         run'.pc \in Compared => run.pc \in Compared \/ ~ Rereads \/ dir.temp.data = run.hash,
         run'.pc \notin Reading => run.pc \notin Reading \/ run.pos >= Len(src.data),
         run.pc \in Past => run'.pc \in Past,
         run'.pc \in Past => run.pc \in Past \/ (run.pc = "recheck" /\ SourceSame),
         run'.pc = "second" => run.pc = "reread",
         run'.pc \in Compared \ {"second"} =>
            run.pc \in Compared \ {"second"} \/ opts.verify # "full" \/ Stamped \/ run.hash \in seen,
         GateSays'
  PROVE  CopyInv'
  <1>0. /\ run.pc \in Planned /\ run'.pc \in Planned /\ run.pc # "ended" /\ run'.pc # "ended"
        /\ run.pc \notin BeforeTemp /\ run'.pc \notin BeforeTemp /\ ~ Proving /\ ~ Proving'
        /\ src' = src /\ opts' = opts /\ seen' = seen
    BY Zenon DEF WithTemp, Planned, Proving, BeforeTemp, world
  <1>1. /\ run.hash \in Seq(Nat) /\ src.data \in Seq(Nat) /\ Len(run.hash) \in Nat
        /\ Len(src.data) \in Nat /\ DOMAIN run.hash = 1 .. Len(run.hash) /\ run.pos \in Nat
        /\ run.pos = Len(run.hash) + Len(run.carry) /\ Len(run.carry) <= 1
    BY Zenon, <1>0, Flat, SeqFacts DEF CopyInv, StepSays
  <1>2. TypeOK'
    BY Zenon, <1>0 DEF CopyInv, TypeOK, world
  <1>3. StepSays'
    <2>1. run'.pc \notin {"make", "begin", "carry", "ended"} => run.carry = << >>
      BY Zenon
    <2>2. run'.pc \notin Compared \cup {"ended"} => run.again = << >>
      BY Zenon, <1>0 DEF CopyInv, StepSays
    <2>3. /\ run'.pc \notin {"sweep", "plan", "open", "claim"} /\ run.meta # None
          /\ dir.temp # None /\ dir.temp.links = 1
      BY Zenon, <1>0 DEF CopyInv, StepSays, BeforeTemp
    <2> QED  BY Zenon, <1>0, <1>1, <2>1, <2>2, <2>3 DEF StepSays, Keeps
  <1>4. TempSays'
    <2>1. /\ Len(dir.temp.data) = Len(run.hash) /\ run.reused + run.copied = Len(run.hash)
          /\ ~ opts.corrupt => dir.temp.data = run.hash
          /\ Rereads /\ run.pc \in Compared => dir.temp.data = run.hash
      BY Zenon DEF CopyInv, TempSays
    <2>2. Rereads' = Rereads
      BY Zenon, <1>0 DEF Rereads
    <2> QED  BY Zenon, <1>0, <2>1, <2>2 DEF TempSays, Keeps
  <1>5. run'.pc \notin Reading /\ run.pc \in Reading /\ run.pos <= Len(src.data) => Len(run.hash) = Len(src.data)
    <2> SUFFICES ASSUME run'.pc \notin Reading, run.pc \in Reading, run.pos <= Len(src.data)
                 PROVE  Len(run.hash) = Len(src.data)
      OBVIOUS
    <2>1. run.carry = << >> /\ run.pos >= Len(src.data)
      BY Zenon DEF Reading
    <2>2. Len(<< >>) = 0
      BY SMTT(60)
    <2>3. run.pos = Len(run.hash) + 0
      BY Zenon, <1>1, <2>1, <2>2
    <2> QED  BY Squeeze, <1>1, <2>1, <2>3, Zenon
  <1>6. StampSays'
    <2> SUFFICES ASSUME Stamped PROVE StampSays'
      BY Zenon DEF StampSays
    <2>1. /\ run.meta.stamp <= src.stamp
          /\ run.pc \notin Past /\ src.stamp = run.meta.stamp =>
                /\ run.pos <= Len(src.data)
                /\ \A i \in DOMAIN run.hash : run.hash[i] = src.data[i]
                /\ \A i \in DOMAIN run.carry : run.carry[i] = src.data[Len(run.hash) + i]
                /\ run.pc \notin Reading => Len(run.hash) = Len(src.data)
          /\ run.pc \in Past => run.hash \in seen
      BY Zenon, <1>0 DEF CopyInv, StampSays
    <2>2. run'.pc \in Past => run.hash \in seen
      <3> SUFFICES ASSUME run'.pc \in Past, run.pc \notin Past PROVE run.hash \in seen
        BY Zenon, <2>1
      <3>1. run.pc = "recheck" /\ run.pc \notin Reading /\ src.stamp = run.meta.stamp
        BY Zenon DEF SourceSame, Reading
      <3>2. run.hash = src.data
        BY Zenon, <1>1, <2>1, <3>1, SeqSame
      <3> QED  BY Zenon, <3>2 DEF CopyInv
    <2> QED  BY Zenon, <1>0, <1>5, <2>1, <2>2 DEF StampSays, Keeps
  <1>7. QuietSays'
    <2> SUFFICES ASSUME ~ Stamped PROVE QuietSays'
      BY Zenon DEF QuietSays
    <2>1. /\ \A i \in DOMAIN src.data : Older(src.data[i])
          /\ \A i \in DOMAIN run.hash : Older(run.hash[i])
          /\ \A i \in DOMAIN run.carry : Older(run.carry[i])
          /\ run.pos <= Len(src.data)
          /\ run.pc \notin Reading => Len(run.hash) = Len(src.data)
          /\ run.pc \in Compared \ {"second"} /\ opts.verify = "full" => run.hash \in seen
      BY Zenon, <1>0 DEF CopyInv, QuietSays
    <2>2. run'.pc = "second" => (\E d \in seen : Witnesses(d))'
      <3> SUFFICES ASSUME run.pc = "reread" PROVE (\E d \in seen : Witnesses(d))'
        BY Zenon
      <3>1. run.pc \notin Reading /\ run.again = << >>
        BY Zenon, <1>0 DEF Reading, Compared, CopyInv, StepSays
      <3>2. Len(src.data) = Len(run.hash) /\ src.data \in seen
        BY Zenon, <2>1, <3>1 DEF CopyInv
      <3>3. Len(run'.again) = 0
        <4>1. Len(<< >>) = 0
          BY SMTT(60)
        <4> QED  BY Zenon, <3>1, <4>1
      <3>4. \A i \in 1 .. Len(run.hash) : ~ (i <= 0)
        BY NotBelow, Zenon, <1>1
      <3>5. Witnesses(src.data)'
        BY Zenon, <1>0, <1>1, <3>2, <3>3, <3>4 DEF Witnesses, Keeps
      <3> QED  BY Zenon, <1>0, <3>2, <3>5
    <2>3. \A u : Older(u) => Older(u)'
      BY Zenon DEF Older
    <2>4. run'.pc \in Compared \ {"second"} /\ opts.verify = "full" => run.hash \in seen
      BY Zenon, <2>1
    <2> QED  BY Zenon, <1>0, <1>5, <2>1, <2>2, <2>3, <2>4 DEF QuietSays, Keeps
  <1>8. Promised'
    BY Zenon, <1>0, GoesOn
  <1> QED  BY Zenon, <1>0, <1>2, <1>3, <1>4, <1>6, <1>7, <1>8 DEF CopyInv, Promised

\* The copy moves on to step s, and nothing else happens that it relies on.
LEMMA Moves ==
  ASSUME CopyConstants, CopyInv, NEW s \in WithTemp, run.pc \in WithTemp, UNCHANGED <<dir, world>>, NoFault,
         \/ Go(run, s)
         \/ Go([run EXCEPT !.verified = TRUE], s)
         \/ Go([run EXCEPT !.open = FALSE], s),
         s \notin {"begin", "carry"} => run.carry = << >>,
         run.pc \in Compared => s \in Compared,
         s \in Compared => run.pc \in Compared \/ ~ Rereads \/ dir.temp.data = run.hash,
         s \notin Reading => run.pc \notin Reading \/ run.pos >= Len(src.data),
         run.pc \in Past => s \in Past,
         s \in Past => run.pc \in Past \/ (run.pc = "recheck" /\ SourceSame /\ opts.at = "staging"),
         s = "second" => run.pc = "reread",
         s \in Compared \ {"second"} =>
            run.pc \in Compared \ {"second"} \/ opts.verify # "full" \/ Stamped \/ run.hash \in seen,
         s \in {"perms", "sync", "recheck"} \cup Past =>
            run.pc \in {"perms", "sync", "recheck"} \cup Past \/ opts.times = "off",
         s \in {"sync", "recheck"} \cup Past =>
            run.pc \in {"sync", "recheck"} \cup Past \/ opts.perms = "off",
         s \in {"recheck"} \cup Past => run.pc \in {"recheck"} \cup Past
  PROVE  CopyInv'
  <1>1. run \in Locals /\ s \in Steps
    BY Zenon, Flat DEF WithTemp, Planned
  <1>2. /\ run' \in Locals /\ run'.pc = s /\ Keeps(run', run) /\ run'.again = run.again
        /\ run'.res = run.res /\ run'.complaints = run.complaints
    <2>1. CASE Go(run, s)
      BY Zenon, <1>1, <2>1 DEF Go, Locals, Keeps
    <2>2. CASE Go([run EXCEPT !.verified = TRUE], s)
      BY Zenon, <1>1, <2>2 DEF Go, Locals, Keeps
    <2>3. CASE Go([run EXCEPT !.open = FALSE], s)
      BY Zenon, <1>1, <2>3 DEF Go, Locals, Keeps
    <2> QED  BY Zenon, <2>1, <2>2, <2>3
  <1>3. dir' = dir /\ opts' = opts /\ run.pc \in Planned /\ dir.temp # None
    BY Zenon DEF world, WithTemp, CopyInv, StepSays
  <1>4. GateSays'
    <2>1. s \in {"perms", "sync", "recheck"} \cup Past => Told(dir.temp, "times", opts.times)'
      BY Zenon, <1>2, <1>3 DEF CopyInv, GateSays, Told
    <2>2. s \in {"sync", "recheck"} \cup Past => Told(dir.temp, "perms", opts.perms)'
      BY Zenon, <1>2, <1>3 DEF CopyInv, GateSays, Told
    <2>3. /\ s \in {"recheck"} \cup Past /\ SyncsHere => dir.temp.safe
          /\ s \in Past => opts.at = "staging"
          /\ dir.name # None /\ SameFile(dir.name) => run.degraded /\ opts.safety = "default"
      BY Zenon, <1>2, <1>3 DEF CopyInv, GateSays
    <2>4. SyncsHere' = SyncsHere /\ SameFile(dir.name)' = SameFile(dir.name)
      BY Zenon, <1>3 DEF SyncsHere, SameFile
    <2> QED  BY Zenon, <1>2, <1>3, <2>1, <2>2, <2>3, <2>4 DEF GateSays, Keeps
  <1>5. left' \in Bounds /\ left'.edits = left.edits /\ dir' \in Dirs
    BY Zenon, <1>3, Flat DEF NoFault
  <1> QED  BY ZenonT(30), <1>2, <1>3, <1>4, <1>5, Advance

\* BeginSink: the sink begins.
LEMMA BeginKeeps ==
  ASSUME CopyConstants, CopyInv, BeginSink
  PROVE  CopyInv'
  <1>1. CASE Go(run, "carry") /\ UNCHANGED <<dir, world>> /\ NoFault
    <2>1. /\ run.pc \in WithTemp /\ run.pc \notin Compared /\ run.pc \notin Past
          /\ "carry" \in WithTemp /\ "carry" \notin Compared \cup Past /\ "carry" \in Reading
          /\ "carry" \notin {"perms", "sync", "recheck", "second"}
      BY Zenon DEF BeginSink, WithTemp, Planned, Steps, BeforeTemp, Compared, Past, Reading
    <2> QED  BY Zenon, <1>1, <2>1, Moves
  <1> QED
    BY Zenon, <1>1, KeptEnds, DiscardEnds DEF BeginSink

\* WriteCarry: the carry is written, if there is one.
LEMMA WriteCarryKeeps ==
  ASSUME CopyConstants, CopyInv, WriteCarry
  PROVE  CopyInv'
  <1>0. run.pc = "carry"
    BY Zenon DEF WriteCarry
  <1>1. CASE run.carry = <<>> /\ Go(run, "stream") /\ UNCHANGED <<dir, world>> /\ NoFault
    <2>1. /\ run.pc \in WithTemp /\ run.pc \notin Compared /\ run.pc \notin Past
          /\ "stream" \in WithTemp /\ "stream" \notin Compared \cup Past /\ "stream" \in Reading
          /\ "stream" \notin {"perms", "sync", "recheck", "second"}
      BY Zenon, <1>0 DEF WithTemp, Planned, Steps, BeforeTemp, Compared, Past, Reading
    <2> QED  BY Zenon, <1>1, <2>1, Moves
  <1>2. CASE /\ run.carry # <<>> /\ UNCHANGED world
             /\ \/ Write(run.carry[1]) /\ NoFault
                \/ opts.corrupt /\ Write(Bad) /\ Fault
             /\ Go([Written(run, run.carry[1]) EXCEPT !.carry = <<>>], "stream")
    BY Zenon, <1>0, <1>2, CarryKeeps
  <1> QED
    BY Zenon, <1>1, <1>2, KeptEnds, DiscardEnds DEF WriteCarry

\* Stream: one turn of the loop, or its end.
LEMMA StreamedKeeps ==
  ASSUME CopyConstants, CopyInv, Stream
  PROVE  CopyInv'
  <1>0. run.pc = "stream"
    BY Zenon DEF Stream
  <1>1. CASE run.pos >= Len(src.data) /\ Go(run, "complete") /\ UNCHANGED <<dir, world>> /\ NoFault
    <2>1. /\ run.pc \in WithTemp /\ run.pc \notin Compared /\ run.pc \notin Past
          /\ "complete" \in WithTemp /\ "complete" \notin Compared \cup Past
          /\ "complete" \notin {"perms", "sync", "recheck", "second"}
          /\ run.pc \notin {"make", "begin", "carry", "ended"}
      BY Zenon, <1>0 DEF WithTemp, Planned, Steps, BeforeTemp, Compared, Past
    <2>2. run.carry = << >>
      BY Zenon, <2>1 DEF CopyInv, StepSays
    <2> QED  BY Zenon, <1>1, <2>1, <2>2, Moves
  <1>2. CASE /\ run.pos < Len(src.data) /\ UNCHANGED world
             /\ \/ Write(src.data[run.pos + 1]) /\ NoFault
                \/ opts.corrupt /\ Write(Bad) /\ Fault
             /\ run' = [Written(run, src.data[run.pos + 1]) EXCEPT !.pos = @ + 1]
    BY Zenon, <1>0, <1>2, StreamKeeps
  <1> QED
    BY Zenon, <1>1, <1>2, KeptEnds, DiscardEnds DEF Stream

\* Past the stream nothing waits to be written.
LEMMA NoCarry ==
  ASSUME CopyInv, run.pc \in WithTemp \ Reading
  PROVE  run.carry = << >> /\ run.pc # "ended"
  <1>1. run.pc \notin {"make", "begin", "carry", "ended"}
    BY Zenon DEF WithTemp, Planned, BeforeTemp, Reading
  <1> QED  BY Zenon, <1>1 DEF CopyInv, StepSays

\* CompleteSink: after the stream.
LEMMA CompleteKeeps ==
  ASSUME CopyConstants, CopyInv, CompleteSink
  PROVE  CopyInv'
  <1>0. /\ run.pc = "complete" /\ run.pc \in WithTemp \ Reading /\ run.pc \notin Compared /\ run.pc \notin Past
        /\ {"verify", "times"} \subseteq WithTemp /\ "verify" \notin Compared
        /\ "verify" \notin Past /\ "times" \notin Past /\ "verify" \notin {"perms", "sync", "recheck", "second"}
        /\ "times" \notin {"perms", "sync", "recheck", "second"}
    BY Zenon DEF CompleteSink, WithTemp, Planned, Steps, BeforeTemp, Compared, Past, Reading
  <1>1. CASE Rereads /\ Go(run, "verify") /\ UNCHANGED <<dir, world>> /\ NoFault
    BY Zenon, <1>0, <1>1, NoCarry, Moves
  <1>2. CASE ~ Rereads /\ Go(run, "times") /\ UNCHANGED <<dir, world>> /\ NoFault
    <2>1. opts.verify # "full"
      BY Zenon, <1>2 DEF Rereads
    <2> QED  BY Zenon, <1>0, <1>2, <2>1, NoCarry, Moves
  <1> QED
    BY Zenon, <1>1, <1>2, KeptEnds, DiscardEnds DEF CompleteSink

\* VerifySource: the recheck before the re-read.
LEMMA VerifyKeeps ==
  ASSUME CopyConstants, CopyInv, VerifySource
  PROVE  CopyInv'
  <1>0. /\ run.pc = "verify" /\ run.pc \in WithTemp \ Reading /\ run.pc \notin Compared /\ run.pc \notin Past
        /\ "reread" \in WithTemp /\ "reread" \notin Compared
        /\ "reread" \notin Past /\ "reread" \notin {"perms", "sync", "recheck", "second"}
    BY Zenon DEF VerifySource, WithTemp, Planned, Steps, BeforeTemp, Compared, Past, Reading
  <1>1. CASE Go(run, "reread") /\ UNCHANGED <<dir, world>> /\ NoFault
    BY Zenon, <1>0, <1>1, NoCarry, Moves
  <1> QED
    BY Zenon, <1>1, DiscardEnds DEF VerifySource, Recheck

\* Reread: the temporary's own bytes are what was hashed.
LEMMA RereadKeeps ==
  ASSUME CopyConstants, CopyInv, Reread
  PROVE  CopyInv'
  <1>0. /\ run.pc = "reread" /\ run.pc \in WithTemp \ Reading /\ run.pc \notin Compared /\ run.pc \notin Past
        /\ {"second", "times"} \subseteq WithTemp
        /\ "second" \notin Past /\ "times" \notin Past /\ "second" \notin {"perms", "sync", "recheck"}
        /\ "times" \notin {"perms", "sync", "recheck", "second"}
    BY Zenon DEF Reread, WithTemp, Planned, Steps, BeforeTemp, Compared, Past, Reading
  <1>1. CASE dir.temp.data = run.hash /\ Go(run, "second") /\ UNCHANGED <<dir, world>> /\ NoFault
    BY Zenon, <1>0, <1>1, NoCarry, Moves
  <1>2. CASE /\ dir.temp.data = run.hash /\ opts.verify # "full" /\ Go([run EXCEPT !.verified = TRUE], "times")
             /\ UNCHANGED <<dir, world>> /\ NoFault
    BY Zenon, <1>0, <1>2, NoCarry, Moves
  <1> QED
    BY Zenon, <1>1, <1>2, DiscardEnds DEF Reread

\* The second read adds the unit the source has now.
LEMMA AgainKeeps ==
  ASSUME CopyConstants, CopyInv, run.pc = "second", Len(run.again) < Len(src.data),
         run' = [run EXCEPT !.again = Append(@, src.data[Len(@) + 1])], UNCHANGED <<dir, world>>, NoFault
  PROVE  CopyInv'
  <1> DEFINE n == Len(run.again)
             u == src.data[n + 1]
  <1>0. /\ run \in Locals /\ run.again \in Seq(Nat) /\ src.data \in Seq(Nat) /\ n \in Nat /\ Len(src.data) \in Nat
        /\ DOMAIN src.data = 1 .. Len(src.data) /\ DOMAIN run.hash = 1 .. Len(run.hash) /\ Len(run.hash) \in Nat
    BY Zenon, Flat, SeqFacts
  <1>1. n + 1 \in DOMAIN src.data /\ n + 1 \in Nat
    BY WithinOne, <1>0, Zenon
  <1>2. u \in Nat
    BY Zenon, <1>0, <1>1, SeqFacts
  <1> HIDE DEF u
  <1>3. /\ Append(run.again, u) \in Seq(Nat) /\ Len(Append(run.again, u)) = n + 1
        /\ \A i \in 1 .. n : Append(run.again, u)[i] = run.again[i] /\ Append(run.again, u)[n + 1] = u
    BY Zenon, <1>0, <1>2, AppendFacts
  <1>4. /\ run' \in Locals /\ run'.pc = "second" /\ Keeps(run', run) /\ run'.again = Append(run.again, u)
        /\ run'.res = run.res /\ run'.complaints = run.complaints
    <2>1. run' = [run EXCEPT !.again = Append(run.again, u)]
      BY Zenon DEF u
    <2> QED  BY ZenonT(30), <1>0, <1>3, <2>1 DEF Locals, Keeps
  <1>5. /\ run.pc \in WithTemp \ Reading /\ run.pc \notin BeforeTemp /\ run.pc \in Compared /\ run.pc # "ended"
        /\ src' = src /\ opts' = opts /\ seen' = seen /\ dir' = dir /\ left' = left /\ lock' = lock
        /\ run.pc \notin Past /\ run.pc \in Planned
    BY Zenon DEF WithTemp, Planned, Steps, BeforeTemp, Compared, Reading, world, Past, NoFault
  <1>6. TypeOK' /\ StepSays' /\ TempSays' /\ StampSays' /\ GateSays'
    <2>1. TypeOK'
      BY Zenon, <1>4, <1>5 DEF CopyInv, TypeOK
    <2>2. ~ Proving' /\ Rereads' = Rereads /\ SyncsHere' = SyncsHere
      BY Zenon, <1>4, <1>5 DEF Proving, Rereads, SyncsHere
    <2>3. StepSays'
      BY Zenon, <1>4, <1>5, <2>2 DEF CopyInv, StepSays, Keeps
    <2>4. TempSays' /\ StampSays'
      BY ZenonT(30), <1>4, <1>5, <2>2 DEF CopyInv, TempSays, StampSays, Keeps
    <2>5. GateSays'
      BY Zenon, <1>4, <1>5, <2>2 DEF CopyInv, GateSays, Told, Keeps, SameFile
    <2> QED  BY Zenon, <2>1, <2>3, <2>4, <2>5
  <1>7. QuietSays'
    <2> SUFFICES ASSUME ~ Stamped PROVE QuietSays'
      BY Zenon DEF QuietSays
    <2>1. PICK d \in seen : Witnesses(d)
      BY Zenon DEF CopyInv, QuietSays
    <2>2. \A i \in DOMAIN run.hash :
             \/ d[i] = run.hash[i]
             \/ IF i <= Len(run'.again) THEN run'.again[i] # run.hash[i] ELSE src.data[i] # run.hash[i]
      <3> SUFFICES ASSUME NEW i \in 1 .. Len(run.hash), d[i] # run.hash[i]
                   PROVE  IF i <= n + 1 THEN Append(run.again, u)[i] # run.hash[i] ELSE src.data[i] # run.hash[i]
        BY Zenon, <1>0, <1>3, <1>4
      <3>1. IF i <= n THEN run.again[i] # run.hash[i] ELSE src.data[i] # run.hash[i]
        BY Zenon, <1>0, <2>1 DEF Witnesses
      <3>2. \/ i <= n /\ i <= n + 1 /\ i \in 1 .. n
            \/ i = n + 1 /\ ~ (i <= n) /\ i <= n + 1
            \/ ~ (i <= n) /\ ~ (i <= n + 1)
        BY ThreeWays, <1>0, Zenon
      <3>3. CASE i <= n /\ i <= n + 1 /\ i \in 1 .. n
        <4>1. Append(run.again, u)[i] = run.again[i]
          BY Zenon, <1>3, <3>3
        <4> QED  BY Zenon, <3>1, <3>3, <4>1
      <3>4. CASE i = n + 1 /\ ~ (i <= n) /\ i <= n + 1
        <4>1. Append(run.again, u)[i] = src.data[i]
          BY Zenon, <1>0, <1>2, <3>4, AppendFacts DEF u
        <4> QED  BY Zenon, <3>1, <3>4, <4>1
      <3>5. CASE ~ (i <= n) /\ ~ (i <= n + 1)
        BY Zenon, <3>1, <3>5
      <3> QED  BY Zenon, <3>2, <3>3, <3>4, <3>5
    <2>3. Witnesses(d)'
      BY Zenon, <1>4, <1>5, <2>1, <2>2 DEF Witnesses, Keeps
    <2>4. \A x : Older(x) => Older(x)'
      BY Zenon, <1>5 DEF Older
    <2> QED  BY Zenon, <1>4, <1>5, <2>1, <2>3, <2>4 DEF CopyInv, QuietSays, Keeps
  <1>8. Promised'
    BY Zenon, <1>4, GoesOn
  <1> QED  BY Zenon, <1>5, <1>6, <1>7, <1>8 DEF CopyInv, Promised

\* What both reads agree on is a content the source had.
LEMMA BothReads ==
  ASSUME CopyInv, ~ Stamped, run.pc = "second", Len(run.again) >= Len(src.data), run.again = run.hash
  PROVE  run.hash \in seen
  <1>1. run.pc \in WithTemp \ Reading
    BY Zenon DEF WithTemp, Planned, Steps, BeforeTemp, Reading
  <1>2. PICK d \in seen : Witnesses(d)
    BY Zenon DEF CopyInv, QuietSays
  <1>3. d \in Seq(Nat) /\ run.hash \in Seq(Nat) /\ DOMAIN run.hash = 1 .. Len(run.hash)
    BY Zenon, Flat, SeqFacts DEF CopyInv
  <1>4. \A i \in DOMAIN run.hash : i <= Len(run.hash)
    BY SMTT(60), <1>3
  <1>5. \A i \in DOMAIN run.hash : run.hash[i] = d[i]
    BY Zenon, <1>2, <1>4 DEF Witnesses
  <1>6. run.hash = d
    BY Zenon, <1>2, <1>3, <1>5, SeqSame DEF Witnesses
  <1> QED  BY Zenon, <1>2, <1>6

\* SecondRead: the source is read again and compared.
LEMMA SecondKeeps ==
  ASSUME CopyConstants, CopyInv, SecondRead
  PROVE  CopyInv'
  <1>0. /\ run.pc = "second" /\ run.pc \in WithTemp \ Reading /\ run.pc \in Compared /\ run.pc \notin Past
        /\ "times" \in WithTemp /\ "times" \in Compared
        /\ "times" \notin Past /\ "times" \notin {"perms", "sync", "recheck", "second"}
    BY Zenon DEF SecondRead, WithTemp, Planned, Steps, BeforeTemp, Compared, Past, Reading
  <1>1. CASE /\ Len(run.again) < Len(src.data)
             /\ run' = [run EXCEPT !.again = Append(@, src.data[Len(@) + 1])]
             /\ UNCHANGED <<dir, world>> /\ NoFault
    BY Zenon, <1>0, <1>1, AgainKeeps
  <1>2. CASE /\ Len(run.again) >= Len(src.data) /\ run.again = run.hash
             /\ Go([run EXCEPT !.verified = TRUE], "times") /\ UNCHANGED <<dir, world>> /\ NoFault
    <2>1. Stamped \/ run.hash \in seen
      BY Zenon, <1>0, <1>2, BothReads
    <2> QED  BY Zenon, <1>0, <1>2, <2>1, NoCarry, Moves
  <1> QED
    BY Zenon, <1>1, <1>2, DiscardEnds DEF SecondRead

----------------------------------------------------------------------------
(* Metadata, durability, publication *)

\* What an item applied to the temporary leaves in the directory.
LEMMA ItemIs ==
  ASSUME CopyConstants, dir \in Dirs, dir.temp \in Entry, NEW item \in {"times", "perms"},
         dir' = [dir EXCEPT !.temp[item] = TRUE, !.temp.safe = FALSE]
  PROVE  /\ dir' \in Dirs /\ dir'.temp # None /\ dir'.temp.data = dir.temp.data
         /\ dir'.temp.links = dir.temp.links /\ dir'.name = dir.name /\ dir'.temp[item]
         /\ \A x \in {"times", "perms"} : dir.temp[x] => dir'.temp[x]
  <1> DEFINE one == [dir.temp EXCEPT ![item] = TRUE]
             once == [dir EXCEPT !.temp = one]
             temp == [one EXCEPT !.safe = FALSE]
  <1>1. dir' = [dir EXCEPT !.temp = temp]
    <2>1. dir' = [once EXCEPT !.temp = [once.temp EXCEPT !.safe = FALSE]]
      OBVIOUS
    <2>2. once.temp = one
      BY Zenon DEF Dirs
    <2>3. dir' = [once EXCEPT !.temp = temp]
      BY Zenon, <2>1, <2>2
    <2> HIDE DEF temp, one
    <2> QED  BY Zenon, <2>3, TempTwice
  <1>2. /\ temp \in Entry /\ temp.data = dir.temp.data /\ temp.links = dir.temp.links /\ temp[item]
        /\ \A x \in {"times", "perms"} : dir.temp[x] => temp[x]
    <2>1. CASE item = "times"
      BY Zenon, <2>1 DEF Entry
    <2>2. CASE item = "perms"
      BY Zenon, <2>2 DEF Entry
    <2> QED  BY Zenon, <2>1, <2>2
  <1> HIDE DEF temp
  <1>3. dir' \in Dirs /\ dir'.temp = temp /\ dir'.name = dir.name
    BY Zenon, <1>1, <1>2 DEF Dirs
  <1>4. temp # None
    BY Zenon, <1>2 DEF CopyConstants
  <1> QED  BY Zenon, <1>2, <1>3, <1>4

\* The temporary this copy has.
LEMMA HasTemp ==
  ASSUME CopyInv, run.pc \in WithTemp
  PROVE  dir \in Dirs /\ dir.temp # None /\ dir.temp \in Entry /\ run \in Locals /\ run.pc \in Planned
  BY Zenon, Flat DEF CopyInv, StepSays, WithTemp

\* SetTimes: the times are applied, or it is told that they were not.
LEMMA TimesKeep ==
  ASSUME CopyConstants, CopyInv, SetTimes
  PROVE  CopyInv'
  <1>0. /\ run.pc = "times" /\ run.pc \in WithTemp \ Reading /\ run.pc \in Compared \ {"second"} /\ run.pc \notin Past
        /\ "perms" \in WithTemp \ Reading /\ "perms" \in Compared \ {"second"} /\ "perms" \in Steps
        /\ "perms" \notin Past /\ "perms" \notin {"sync", "recheck"} \cup Past
        /\ "perms" \notin {"recheck"} \cup Past
    BY Zenon DEF SetTimes, WithTemp, Planned, Steps, BeforeTemp, Compared, Past, Reading
  <1>1. CASE opts.times = "off" /\ Go(run, "perms") /\ UNCHANGED <<dir, world>> /\ NoFault
    BY Zenon, <1>0, <1>1, NoCarry, Moves
  <1>2. CASE /\ Go(run, "perms") /\ UNCHANGED world /\ NoFault
             /\ dir' = [dir EXCEPT !.temp["times"] = TRUE, !.temp.safe = FALSE]
    <2>1. /\ run' \in Locals /\ run'.pc = "perms" /\ Keeps(run', run) /\ run'.again = run.again
          /\ run'.res = run.res /\ run'.complaints = run.complaints
      BY Zenon, <1>0, <1>2, HasTemp DEF Go, Locals, Keeps
    <2>2. /\ dir' \in Dirs /\ dir'.temp # None /\ dir'.temp.data = dir.temp.data
          /\ dir'.temp.links = dir.temp.links /\ dir'.name = dir.name /\ dir'.temp["times"]
      BY Zenon, <1>0, <1>2, HasTemp, ItemIs
    <2>3. GateSays'
      BY Zenon, <1>0, <1>2, <2>1, <2>2, HasTemp DEF CopyInv, GateSays, Told, Keeps, SameFile, world
    <2>4. left' \in Bounds /\ left'.edits = left.edits
      BY Zenon, <1>2, Flat DEF NoFault
    <2> QED  BY Zenon, <1>0, <1>2, <2>1, <2>2, <2>3, <2>4, NoCarry, Advance
  <1>3. CASE /\ opts.times = "default" /\ Go([run EXCEPT !.complaints = @ \cup {"times"}], "perms")
             /\ UNCHANGED <<dir, world>> /\ Fault
    <2>1. /\ run' \in Locals /\ run'.pc = "perms" /\ Keeps(run', run) /\ run'.again = run.again
          /\ run'.res = run.res /\ "times" \in run'.complaints
      <3>1. run.complaints \cup {"times"} \in SUBSET {"times", "perms"}
        BY Zenon, <1>0, HasTemp DEF Locals
      <3> QED  BY Zenon, <1>0, <1>3, <3>1, HasTemp DEF Go, Locals, Keeps
    <2>2. GateSays'
      BY Zenon, <1>0, <1>3, <2>1, HasTemp DEF CopyInv, GateSays, Told, Keeps, SameFile, world
    <2>3. left' \in Bounds /\ left'.edits = left.edits
      BY Zenon, <1>3, LeftIs DEF CopyInv, TypeOK
    <2> QED  BY Zenon, <1>0, <1>3, <2>1, <2>2, <2>3, NoCarry, HasTemp, Advance
  <1> QED
    BY Zenon, <1>1, <1>2, <1>3, DiscardEnds DEF SetTimes, Metadata

\* SetPermissions: likewise for the permissions.
LEMMA PermissionsKeep ==
  ASSUME CopyConstants, CopyInv, SetPermissions
  PROVE  CopyInv'
  <1>0. /\ run.pc = "perms" /\ run.pc \in WithTemp \ Reading /\ run.pc \in Compared \ {"second"} /\ run.pc \notin Past
        /\ "sync" \in WithTemp \ Reading /\ "sync" \in Compared \ {"second"} /\ "sync" \in Steps
        /\ "sync" \notin Past /\ "sync" \notin {"recheck"} \cup Past
    BY Zenon DEF SetPermissions, WithTemp, Planned, Steps, BeforeTemp, Compared, Past, Reading
  <1>1. CASE opts.perms = "off" /\ Go(run, "sync") /\ UNCHANGED <<dir, world>> /\ NoFault
    BY Zenon, <1>0, <1>1, NoCarry, Moves
  <1>2. CASE /\ Go(run, "sync") /\ UNCHANGED world /\ NoFault
             /\ dir' = [dir EXCEPT !.temp["perms"] = TRUE, !.temp.safe = FALSE]
    <2>1. /\ run' \in Locals /\ run'.pc = "sync" /\ Keeps(run', run) /\ run'.again = run.again
          /\ run'.res = run.res /\ run'.complaints = run.complaints
      BY Zenon, <1>0, <1>2, HasTemp DEF Go, Locals, Keeps
    <2>2. /\ dir' \in Dirs /\ dir'.temp # None /\ dir'.temp.data = dir.temp.data
          /\ dir'.temp.links = dir.temp.links /\ dir'.name = dir.name /\ dir'.temp["perms"]
          /\ dir.temp["times"] => dir'.temp["times"]
      BY Zenon, <1>0, <1>2, HasTemp, ItemIs
    <2>3. GateSays'
      BY Zenon, <1>0, <1>2, <2>1, <2>2, HasTemp DEF CopyInv, GateSays, Told, Keeps, SameFile, world
    <2>4. left' \in Bounds /\ left'.edits = left.edits
      BY Zenon, <1>2, Flat DEF NoFault
    <2> QED  BY Zenon, <1>0, <1>2, <2>1, <2>2, <2>3, <2>4, NoCarry, Advance
  <1>3. CASE /\ opts.perms = "default" /\ Go([run EXCEPT !.complaints = @ \cup {"perms"}], "sync")
             /\ UNCHANGED <<dir, world>> /\ Fault
    <2>1. /\ run' \in Locals /\ run'.pc = "sync" /\ Keeps(run', run) /\ run'.again = run.again
          /\ run'.res = run.res /\ run'.complaints = run.complaints \cup {"perms"}
      <3>1. run.complaints \cup {"perms"} \in SUBSET {"times", "perms"}
        BY Zenon, <1>0, HasTemp DEF Locals
      <3> QED  BY Zenon, <1>0, <1>3, <3>1, HasTemp DEF Go, Locals, Keeps
    <2>2. GateSays'
      BY Zenon, <1>0, <1>3, <2>1, HasTemp DEF CopyInv, GateSays, Told, Keeps, SameFile, world
    <2>3. left' \in Bounds /\ left'.edits = left.edits
      BY Zenon, <1>3, LeftIs DEF CopyInv, TypeOK
    <2> QED  BY Zenon, <1>0, <1>3, <2>1, <2>2, <2>3, NoCarry, HasTemp, Advance
  <1> QED
    BY Zenon, <1>1, <1>2, <1>3, DiscardEnds DEF SetPermissions, Metadata

\* One sync covers the data and the metadata, where this copy is to sync.
LEMMA DataSynced ==
  ASSUME CopyConstants, CopyInv, SyncData
  PROVE  CopyInv'
  <1>0. /\ run.pc = "sync" /\ run.pc \in WithTemp \ Reading /\ run.pc \in Compared \ {"second"} /\ run.pc \notin Past
        /\ "recheck" \in WithTemp \ Reading /\ "recheck" \in Compared \ {"second"} /\ "recheck" \in Steps
        /\ "recheck" \notin Past
    BY Zenon DEF SyncData, WithTemp, Planned, Steps, BeforeTemp, Compared, Past, Reading
  <1>1. CASE /\ Go(run, "recheck") /\ UNCHANGED world /\ NoFault
             /\ dir' = IF SyncsHere THEN [dir EXCEPT !.temp.safe = TRUE] ELSE dir
    <2>1. /\ run' \in Locals /\ run'.pc = "recheck" /\ Keeps(run', run) /\ run'.again = run.again
          /\ run'.res = run.res /\ run'.complaints = run.complaints
      BY Zenon, <1>0, <1>1, HasTemp DEF Go, Locals, Keeps
    <2>2. /\ dir' \in Dirs /\ dir'.temp # None /\ dir'.temp.data = dir.temp.data
          /\ dir'.temp.links = dir.temp.links /\ dir'.name = dir.name
          /\ dir'.temp["times"] = dir.temp["times"] /\ dir'.temp["perms"] = dir.temp["perms"]
          /\ SyncsHere => dir'.temp.safe
      <3> DEFINE temp == [dir.temp EXCEPT !.safe = TRUE]
      <3>1. CASE SyncsHere
        <4>1. dir' = [dir EXCEPT !.temp = temp]
          BY SMTT(60), <1>1, <3>1 DEF Dirs
        <4>2. /\ temp \in Entry /\ temp.data = dir.temp.data /\ temp.links = dir.temp.links /\ temp.safe
              /\ temp["times"] = dir.temp["times"] /\ temp["perms"] = dir.temp["perms"]
          BY Zenon, <1>0, HasTemp DEF Entry
        <4> HIDE DEF temp
        <4> QED  BY Zenon, <1>0, <4>1, <4>2, HasTemp DEF Dirs, CopyConstants
      <3>2. CASE ~ SyncsHere
        BY Zenon, <1>0, <1>1, <3>2, HasTemp
      <3> QED  BY Zenon, <3>1, <3>2
    <2>3. GateSays'
      <3>1. SyncsHere' = SyncsHere
        BY Zenon, <1>1 DEF SyncsHere, world
      <3> QED  BY Zenon, <1>0, <1>1, <2>1, <2>2, <3>1, HasTemp DEF CopyInv, GateSays, Told, Keeps, SameFile, world
    <2>4. left' \in Bounds /\ left'.edits = left.edits
      BY Zenon, <1>1, Flat DEF NoFault
    <2> QED  BY Zenon, <1>0, <1>1, <2>1, <2>2, <2>3, <2>4, NoCarry, Advance
  <1> QED
    BY Zenon, <1>1, DiscardEnds DEF SyncData

\* RecheckSource: the last look at the source, and the handing out at the
\* barrier.
LEMMA RecheckKeeps ==
  ASSUME CopyConstants, CopyInv, RecheckSource
  PROVE  CopyInv'
  <1>0. /\ run.pc = "recheck" /\ run.pc \in WithTemp \ Reading /\ run.pc \in Compared \ {"second"} /\ run.pc \notin Past
        /\ "intent" \in WithTemp \ Reading /\ "intent" \in Compared \ {"second"} /\ "intent" \in Past
    BY Zenon DEF RecheckSource, WithTemp, Planned, Steps, BeforeTemp, Compared, Past, Reading
  <1>1. CASE End(run, Ended("staged", FALSE, FALSE)) /\ UNCHANGED <<dir, world>> /\ NoFault
    <2>1. Ended("staged", FALSE, FALSE) \in Result /\ Ended("staged", FALSE, FALSE).what = "staged"
      BY SMTT(60) DEF Ended, Result
    <2>2. left' \in Bounds /\ left'.edits = left.edits
      BY Zenon, <1>1, Flat DEF NoFault
    <2> QED  BY Zenon, <1>1, <2>1, <2>2, Ends DEF End, world, CopyInv
  <1>2. CASE ~ (opts.at = "barrier" /\ SourceSame) /\ SourceSame /\ Go(run, "intent") /\ UNCHANGED <<dir, world>> /\ NoFault
    <2>1. opts.at = "staging"
      BY Zenon, <1>2, Flat DEF CopyConstants
    <2> QED  BY Zenon, <1>0, <1>2, <2>1, NoCarry, Moves
  <1> QED
    BY Zenon, <1>1, <1>2, DiscardEnds DEF RecheckSource, Recheck

\* BeforePublish: the intent is recorded.
LEMMA BeforePublishKeeps ==
  ASSUME CopyConstants, CopyInv, BeforePublish
  PROVE  CopyInv'
  <1>0. /\ run.pc = "intent" /\ run.pc \in WithTemp \ Reading /\ run.pc \in Compared \ {"second"} /\ run.pc \in Past
        /\ "publish" \in WithTemp \ Reading /\ "publish" \in Compared \ {"second"} /\ "publish" \in Past
    BY Zenon DEF BeforePublish, WithTemp, Planned, Steps, BeforeTemp, Compared, Past, Reading
  <1>1. CASE Go([run EXCEPT !.open = FALSE], "publish") /\ UNCHANGED <<dir, world>> /\ NoFault
    BY Zenon, <1>0, <1>1, NoCarry, Moves
  <1> QED
    BY Zenon, <1>1, DiscardEnds DEF BeforePublish

\* The rename makes the temporary the target.
LEMMA RenamedKeeps ==
  ASSUME CopyConstants, CopyInv, run.pc = "publish", Renamed, NoFault, UNCHANGED world
  PROVE  CopyInv'
  <1> DEFINE e == Ended("copied", FALSE, FALSE)
  <1>0. /\ run.pc \in WithTemp /\ run.pc \in Compared \ {"second"} /\ run.pc \in Past /\ run.pc \in Compared
        /\ run.pc \in {"recheck"} \cup Past /\ run.pc \in {"sync", "recheck"} \cup Past
        /\ run.pc \in {"perms", "sync", "recheck"} \cup Past
    BY Zenon DEF WithTemp, Planned, Steps, BeforeTemp, Compared, Past
  <1>1. e \in Result /\ e.what = "copied" /\ e # None
    <2>1. e \in Result /\ e.what = "copied"
      BY SMTT(60) DEF Ended, Result
    <2> HIDE DEF e
    <2> QED  BY Zenon, <2>1 DEF CopyConstants
  <1> HIDE DEF e
  <1>2. /\ run' \in Locals /\ run'.pc = "ended" /\ run'.res = e /\ run'.hash = run.hash /\ run'.carry = run.carry
        /\ run'.reused = run.reused /\ run'.copied = run.copied /\ run'.complaints = run.complaints
    <2>1. run' = [run EXCEPT !.pc = "ended", !.res = e]
      BY Zenon DEF Renamed, End, e
    <2> QED  BY Zenon, <1>0, <1>1, <2>1, HasTemp DEF Locals, Steps
  <1>3. dir' \in Dirs /\ dir'.name = dir.temp /\ dir'.temp = None
    BY SMTT(60), <1>0, HasTemp DEF Renamed, Dirs
  <1>4. src' = src /\ opts' = opts /\ seen' = seen /\ left' = left /\ lock' = lock
    BY Zenon DEF world, NoFault
  <1>5. TypeOK'
    BY Zenon, <1>1, <1>2, <1>3, <1>4 DEF CopyInv, TypeOK
  <1>6. StepSays' /\ TempSays' /\ StampSays' /\ GateSays'
    <2>1. /\ "ended" \notin Planned /\ "ended" \notin WithTemp /\ "ended" \notin BeforeTemp /\ "ended" \notin Past
          /\ ~ Proving' /\ "ended" \notin {"sweep", "plan", "open", "claim"}
          /\ "ended" \notin {"perms", "sync", "recheck"}
      BY Zenon, <1>2 DEF Planned, WithTemp, BeforeTemp, Past, Proving
    <2> QED  BY Zenon, <1>2, <2>1 DEF StepSays, TempSays, StampSays, GateSays
  <1>7. QuietSays'
    <2>1. "ended" \notin WithTemp \ Reading /\ "ended" \notin Compared /\ "ended" # "second"
      BY Zenon DEF Planned, WithTemp, Compared
    <2>2. \A x : Older(x) => Older(x)'
      BY Zenon, <1>4 DEF Older
    <2> QED  BY Zenon, <1>2, <1>4, <2>1, <2>2 DEF CopyInv, QuietSays
  <1>8. Promised'
    <2>1. PublishedIsVersion'
      <3> SUFFICES ASSUME Stamped \/ opts.verify = "full", opts.corrupt => Rereads
                   PROVE  dir.temp.data \in seen
        BY Zenon, <1>3, <1>4 DEF PublishedIsVersion, Rereads
      <3>1. dir.temp.data = run.hash
        BY Zenon, <1>0 DEF CopyInv, TempSays
      <3>2. run.hash \in seen
        BY Zenon, <1>0 DEF CopyInv, StampSays, QuietSays
      <3> QED  BY Zenon, <3>1, <3>2
    <2>2. FailureAccounted'
      BY Zenon, <1>3 DEF FailureAccounted
    <2>3. StrictIsSynced'
      BY Zenon, <1>0, <1>3, <1>4 DEF CopyInv, GateSays, StrictIsSynced, SyncsHere
    <2>4. MetadataTold'
      <3>1. Told(dir.temp, "times", opts.times) /\ Told(dir.temp, "perms", opts.perms)
        BY Zenon, <1>0 DEF CopyInv, GateSays
      <3> QED  BY SMTT(60), <1>2, <1>3, <1>4, <3>1 DEF Told, MetadataTold
    <2>5. ReuseAddsUp'
      <3>1. Len(dir.temp.data) = Len(run.hash) /\ run.reused + run.copied = Len(run.hash)
        BY Zenon, <1>0 DEF CopyInv, TempSays
      <3> QED  BY Zenon, <1>2, <1>3, <3>1 DEF ReuseAddsUp
    <2> QED  BY Zenon, <2>1, <2>2, <2>3, <2>4, <2>5 DEF Promised
  <1> QED  BY Zenon, <1>4, <1>5, <1>6, <1>7, <1>8 DEF CopyInv, Promised

\* Publish: the guarded rename and its failures.
LEMMA PublishKeeps ==
  ASSUME CopyConstants, CopyInv, Publish
  PROVE  CopyInv'
  <1>0. run.pc = "publish"
    BY Zenon DEF Publish
  <1>1. CASE NoFault /\ UNCHANGED <<dir, world>> /\ End(run, Ended("failed", TRUE, FALSE))
    <2>1. /\ Ended("failed", TRUE, FALSE) \in Result /\ Ended("failed", TRUE, FALSE).what = "failed"
          /\ Ended("failed", TRUE, FALSE).reported
      BY SMTT(60) DEF Ended, Result
    <2>2. left' \in Bounds /\ left'.edits = left.edits
      BY Zenon, <1>1, Flat DEF NoFault
    <2> QED  BY Zenon, <1>1, <2>1, <2>2, Ends DEF End, world, CopyInv
  <1> QED
    BY Zenon, <1>0, <1>1, RenamedKeeps, DiscardEnds DEF Publish

----------------------------------------------------------------------------
(* The others *)

\* What an edit makes of the source.
LEMMA EditIs ==
  ASSUME CopyConstants, CopyInv, EditSource
  PROVE  /\ src' \in [data : Seq(Nat), stamp : Nat, there : BOOLEAN]
         /\ \/ src'.data = src.data /\ src'.stamp = src.stamp
            \/ Stamped /\ src'.stamp = src.stamp + 1
            \/ /\ ~ Stamped /\ src'.stamp = src.stamp
               /\ \E j \in DOMAIN src.data : src'.data = [src.data EXCEPT ![j] = New + left.edits]
  <1>0. /\ src \in [data : Seq(Nat), stamp : Nat, there : BOOLEAN] /\ src.data \in Seq(Nat) /\ src.stamp \in Nat
        /\ Len(src.data) \in Nat /\ left.edits \in 0 .. Edits
    BY Zenon, Flat, SeqFacts
  <1>1. CASE src' = [src EXCEPT !.there = FALSE]
    BY Zenon, <1>0, <1>1
  <1>2. ASSUME NEW d \in EditedData, src' = [src EXCEPT !.data = d, !.stamp = IF Stamped THEN @ + 1 ELSE @]
        PROVE  /\ src' \in [data : Seq(Nat), stamp : Nat, there : BOOLEAN]
               /\ \/ Stamped /\ src'.stamp = src.stamp + 1
                  \/ /\ ~ Stamped /\ src'.stamp = src.stamp
                     /\ \E j \in DOMAIN src.data : src'.data = [src.data EXCEPT ![j] = New + left.edits]
    <2>1. New \in Nat /\ New + left.edits \in Nat /\ src.stamp + 1 \in Nat
      BY SMTT(60), <1>0 DEF New, CopyConstants
    <2>2. \A j \in DOMAIN src.data : [src.data EXCEPT ![j] = New + left.edits] \in Seq(Nat)
      BY UnitChanged, <1>0, <2>1, Zenon
    <2>3. Append(src.data, New) \in Seq(Nat)
      BY Zenon, <1>0, <2>1, AppendFacts
    <2>4. SubSeq(src.data, 1, Len(src.data) - 1) \in Seq(Nat)
      BY Zenon, <1>0, Shorter
    <2>5. d \in Seq(Nat)
      BY Zenon, <1>2, <2>2, <2>3, <2>4 DEF EditedData
    <2>6. ~ Stamped => \E j \in DOMAIN src.data : d = [src.data EXCEPT ![j] = New + left.edits]
      BY Zenon, <1>2 DEF EditedData
    <2>7. CASE Stamped
      BY Zenon, <1>0, <1>2, <2>1, <2>5, <2>7
    <2>8. CASE ~ Stamped
      <3>1. src' = [src EXCEPT !.data = d, !.stamp = src.stamp]
        BY Zenon, <1>2, <2>8
      <3>2. src'.data = d /\ src'.stamp = src.stamp /\ src' \in [data : Seq(Nat), stamp : Nat, there : BOOLEAN]
        BY Zenon, <1>0, <2>5, <3>1
      <3> QED  BY Zenon, <2>6, <2>8, <3>2
    <2> QED  BY Zenon, <2>7, <2>8
  <1> QED
    <2>1. src' = [src EXCEPT !.there = FALSE] => src'.data = src.data /\ src'.stamp = src.stamp
      BY Zenon, <1>0
    <2> QED  BY Zenon, <1>1, <1>2, <2>1 DEF EditSource

\* EditSource: an edit moves the time, or makes a unit that was nowhere
\* before.
LEMMA EditKeeps ==
  ASSUME CopyConstants, CopyInv, EditSource
  PROVE  CopyInv'
  <1>0. /\ run' = run /\ dir' = dir /\ opts' = opts /\ lock' = lock /\ run.pc # "ended"
        /\ seen' = seen \cup {src'.data} /\ left.edits > 0 /\ left' = [left EXCEPT !.edits = left.edits - 1]
    BY Zenon DEF EditSource
  <1>1. left' \in Bounds /\ left'.edits = left.edits - 1 /\ left.edits \in Nat
    <2>1. left \in Bounds
      BY Zenon, Flat
    <2>2. left.edits \in Nat /\ left.edits - 1 \in 0 .. Edits
      BY SMTT(60), <1>0, Flat DEF CopyConstants
    <2> QED  BY Zenon, <1>0, <2>1, <2>2 DEF Bounds
  <1>2. /\ src'.data \in Seq(Nat) /\ src'.stamp \in Nat /\ src' \in [data : Seq(Nat), stamp : Nat, there : BOOLEAN]
    BY Zenon, EditIs
  <1>3. TypeOK' /\ src'.data \in seen' /\ seen' \subseteq Seq(Nat)
    BY Zenon, <1>0, <1>1, <1>2 DEF CopyInv, TypeOK
  <1>4. StepSays' /\ TempSays' /\ GateSays'
    <2>1. StepSays'
      BY Zenon, <1>0 DEF CopyInv, StepSays, Proving
    <2>2. TempSays'
      BY Zenon, <1>0 DEF CopyInv, TempSays, Proving, Rereads
    <2>3. GateSays'
      BY Zenon, <1>0 DEF CopyInv, GateSays, Told, SyncsHere, SameFile
    <2> QED  BY Zenon, <2>1, <2>2, <2>3
  <1>5. StampSays'
    <2> SUFFICES ASSUME Stamped PROVE StampSays'
      BY Zenon DEF StampSays
    <2>1. CASE src'.data = src.data /\ src'.stamp = src.stamp
      BY Zenon, <1>0, <2>1 DEF CopyInv, StampSays
    <2>2. CASE src'.stamp = src.stamp + 1
      <3>1. run.pc \in Planned => run.meta.stamp <= src.stamp /\ run.meta.stamp \in Nat /\ src.stamp \in Nat
        BY Zenon, Flat DEF CopyInv, StampSays, StepSays
      <3>2. run.pc \in Planned => run.meta.stamp <= src'.stamp /\ src'.stamp # run.meta.stamp
        BY SMTT(60), <2>2, <3>1
      <3> QED  BY Zenon, <1>0, <3>2 DEF CopyInv, StampSays
    <2> QED  BY Zenon, <2>1, <2>2, EditIs
  <1>6. QuietSays'
    <2> SUFFICES ASSUME ~ Stamped PROVE QuietSays'
      BY Zenon DEF QuietSays
    <2>0. /\ \A i \in DOMAIN src.data : Older(src.data[i]) /\ src.data[i] \in Nat
          /\ \A i \in DOMAIN run.hash : Older(run.hash[i]) /\ run.hash[i] \in Nat
          /\ \A i \in DOMAIN run.carry : Older(run.carry[i]) /\ run.carry[i] \in Nat
          /\ DOMAIN run.hash = 1 .. Len(run.hash) /\ DOMAIN src.data = 1 .. Len(src.data)
      BY Zenon, Flat, SeqFacts DEF CopyInv, QuietSays
    <2>1. \A u \in Nat : Older(u) => Older(u)'
      BY SMTT(60), <1>1 DEF Older, New
    <2>2. CASE src'.data = src.data
      <3>1. \A d : Witnesses(d) => Witnesses(d)'
        BY Zenon, <1>0, <2>2 DEF Witnesses
      <3> QED  BY Zenon, <1>0, <2>0, <2>1, <2>2, <3>1 DEF CopyInv, QuietSays
    <2>3. ASSUME NEW j \in DOMAIN src.data, src'.data = [src.data EXCEPT ![j] = New + left.edits]
          PROVE  QuietSays'
      <3> DEFINE u == New + left.edits
      <3>1. u \in Nat /\ u > New + left'.edits /\ ~ Older(u)
        <4>1. left'.edits = left.edits - 1 /\ left.edits \in Nat
          BY Zenon, <1>1
        <4> QED  BY SMTT(60), <4>1 DEF Older, New
      <3> HIDE DEF u
      <3>2. /\ Len(src'.data) = Len(src.data) /\ DOMAIN src'.data = DOMAIN src.data /\ src'.data[j] = u
            /\ \A i \in DOMAIN src.data : i # j => src'.data[i] = src.data[i]
        <4>1. DOMAIN src'.data = DOMAIN src.data /\ src'.data[j] = u
              /\ \A i \in DOMAIN src.data : i # j => src'.data[i] = src.data[i]
          BY Zenon, <2>3 DEF u
        <4>2. Len(src'.data) \in Nat /\ Len(src.data) \in Nat /\ DOMAIN src'.data = 1 .. Len(src'.data)
          BY Zenon, <1>2, Flat, SeqFacts
        <4>3. Len(src'.data) = Len(src.data)
          BY Zenon, SameRange, <2>0, <4>1, <4>2
        <4> QED  BY Zenon, <4>1, <4>3
      <3>3. \A i \in DOMAIN src'.data : Older(src.data[i])'
        <4> SUFFICES ASSUME NEW i \in DOMAIN src.data PROVE (src'.data[i] < New \/ src'.data[i] > New + left'.edits)
          BY Zenon, <3>2 DEF Older
        <4>1. CASE i = j
          BY Zenon, <3>1, <3>2, <4>1
        <4>2. CASE i # j
          <5>1. src'.data[i] = src.data[i] /\ Older(src.data[i]) /\ src.data[i] \in Nat
            BY Zenon, <2>0, <3>2, <4>2
          <5>2. src.data[i] < New \/ src.data[i] > New + left'.edits
            BY Zenon, <2>1, <5>1 DEF Older
          <5> QED  BY Zenon, <5>1, <5>2
        <4> QED  BY Zenon, <4>1, <4>2
      <3>4. /\ \A i \in DOMAIN run'.hash : Older(run.hash[i])'
            /\ \A i \in DOMAIN run'.carry : Older(run.carry[i])'
        BY Zenon, <1>0, <2>0, <2>1 DEF Older
      <3>5. ASSUME NEW d \in seen, Witnesses(d), run.pc = "second" PROVE Witnesses(d)'
        <4>0. run.pc \in WithTemp \ Reading
          BY Zenon, <3>5 DEF WithTemp, Planned, Steps, BeforeTemp, Reading
        <4>1. Len(run.hash) = Len(src.data)
          BY Zenon, <4>0 DEF CopyInv, QuietSays
        <4>2. \A i \in DOMAIN run.hash : src.data[i] # run.hash[i] => src'.data[i] # run.hash[i]
          BY Zenon, <2>0, <3>1, <3>2, <4>1
        <4> QED  BY Zenon, <1>0, <3>5, <4>2 DEF Witnesses
      <3> QED  BY Zenon, <1>0, <3>2, <3>3, <3>4, <3>5 DEF CopyInv, QuietSays
    <2> QED  BY Zenon, <2>2, <2>3, EditIs
  <1>7. Promised'
    BY Zenon, <1>0, GoesOn
  <1> QED  BY Zenon, <1>3, <1>4, <1>5, <1>6, <1>7 DEF CopyInv, Promised

\* NameTaken: another program makes the target.
LEMMA TakenKeeps ==
  ASSUME CopyConstants, CopyInv, NameTaken
  PROVE  CopyInv'
  <1>0. /\ run' = run /\ src' = src /\ opts' = opts /\ lock' = lock /\ seen' = seen /\ run.pc # "ended"
        /\ left.edits > 0 /\ left' = [left EXCEPT !.edits = left.edits - 1]
        /\ dir' = [dir EXCEPT !.name = Object(<<Bad>>, 5, 1)]
    BY Zenon DEF NameTaken
  <1>1. left' \in Bounds /\ left'.edits = left.edits - 1 /\ left.edits \in Nat
    <2>1. left \in Bounds
      BY Zenon, Flat
    <2>2. left.edits \in Nat /\ left.edits - 1 \in 0 .. Edits
      BY SMTT(60), <1>0, Flat DEF CopyConstants
    <2> QED  BY Zenon, <1>0, <2>1, <2>2 DEF Bounds
  <1>2. Object(<<Bad>>, 5, 1) \in Entry /\ ~ SameFile(Object(<<Bad>>, 5, 1))
    BY SMTT(60) DEF Object, Entry, SameFile, SrcObj, Bad
  <1>3. dir' \in Dirs /\ dir'.temp = dir.temp /\ dir'.name = Object(<<Bad>>, 5, 1)
    BY Zenon, <1>0, <1>2, Flat DEF Dirs
  <1>4. TypeOK'
    BY Zenon, <1>0, <1>1, <1>3 DEF CopyInv, TypeOK
  <1>5. StepSays' /\ TempSays'
    BY Zenon, <1>0, <1>3 DEF CopyInv, StepSays, TempSays, Proving, Rereads
  <1>6. StampSays' /\ QuietSays'
    <2>1. \A u \in Nat : Older(u) => Older(u)'
      BY SMTT(60), <1>1 DEF Older, New
    <2>2. /\ \A i \in DOMAIN src.data : src.data[i] \in Nat
          /\ \A i \in DOMAIN run.hash : run.hash[i] \in Nat
          /\ \A i \in DOMAIN run.carry : run.carry[i] \in Nat
      BY Zenon, Flat, SeqFacts
    <2>3. \A d : Witnesses(d) => Witnesses(d)'
      BY Zenon, <1>0 DEF Witnesses
    <2> QED  BY Zenon, <1>0, <2>1, <2>2, <2>3 DEF CopyInv, StampSays, QuietSays
  <1>7. GateSays'
    BY Zenon, <1>0, <1>2, <1>3 DEF CopyInv, GateSays, Told, SyncsHere, SameFile
  <1>8. Promised'
    BY Zenon, <1>0, GoesOn
  <1> QED  BY Zenon, <1>0, <1>4, <1>5, <1>6, <1>7, <1>8 DEF CopyInv, Promised

\* The invariant says nothing of the lock.
LEMMA LockFree ==
  ASSUME CopyInv, lock' \in BOOLEAN, UNCHANGED <<src, dir, opts, run, seen, left>>
  PROVE  CopyInv'
  <1>1. TypeOK' /\ StepSays' /\ TempSays' /\ GateSays'
    <2>1. TypeOK'
      BY Zenon DEF CopyInv, TypeOK
    <2>2. StepSays'
      BY Zenon DEF CopyInv, StepSays, Proving
    <2>3. TempSays'
      BY Zenon DEF CopyInv, TempSays, Proving, Rereads
    <2>4. GateSays'
      BY Zenon DEF CopyInv, GateSays, Told, SyncsHere, SameFile
    <2> QED  BY Zenon, <2>1, <2>2, <2>3, <2>4
  <1>2. StampSays' /\ QuietSays'
    BY Zenon DEF CopyInv, StampSays, QuietSays, Older, Witnesses
  <1>3. Promised'
    BY Zenon DEF CopyInv, Promised, Is, PublishedIsVersion, FailureAccounted, StrictIsSynced, MetadataTold,
                 ReuseAddsUp, Rereads
  <1> QED  BY Zenon, <1>1, <1>2, <1>3 DEF CopyInv, Promised

\* The initial states.
LEMMA CopyStarts ==
  ASSUME CopyConstants, Init
  PROVE  CopyInv
  <1>1. /\ run.pc = "sweep" /\ run.hash = <<>> /\ run.again = <<>> /\ run.carry = <<>> /\ run.pos = 0
        /\ run.reused = 0 /\ run.copied = 0 /\ ~ run.old /\ ~ run.open /\ run.res = None /\ run.meta = None
        /\ src.data = Original /\ left.edits = Edits
    BY SMTT(60) DEF Init
  <1>2. run \in Locals
    <2>1. <<>> \in Seq(Nat)
      BY Zenon, EmptySeq
    <2>2. 0 \in Nat /\ {} \in SUBSET {"times", "perms"} /\ "sweep" \in Steps
      BY SMTT(60) DEF Steps
    <2> QED  BY Zenon, <2>1, <2>2 DEF Init, Locals
  <1>3. left \in Bounds /\ src \in [data : Seq(Nat), stamp : Nat, there : BOOLEAN]
    BY SMTT(60) DEF Init, Bounds, CopyConstants
  <1>4. TypeOK /\ src.data \in seen /\ seen \subseteq Seq(Nat)
    BY Zenon, <1>1, <1>2, <1>3 DEF TypeOK, Init, CopyConstants
  <1>5. /\ Len(<<>>) = 0 /\ DOMAIN <<>> = {} /\ 0 <= 1 /\ 0 = 0 + 0 /\ Len(Original) \in Nat /\ 0 <= Len(Original)
    BY SMTT(60), SeqFacts DEF CopyConstants
  <1>6. /\ run.pc \notin Planned /\ run.pc \notin WithTemp /\ run.pc \notin Compared /\ run.pc \notin Past
        /\ ~ Proving /\ run.pc \in BeforeTemp /\ run.pc # "ended"
    BY Zenon, <1>1 DEF Planned, WithTemp, Compared, Past, Proving, BeforeTemp
  <1>7. StepSays /\ TempSays
    BY Zenon, <1>1, <1>5, <1>6 DEF StepSays, TempSays
  <1>8. StampSays /\ GateSays
    BY Zenon, <1>1, <1>6 DEF StampSays, GateSays
  <1>9. QuietSays
    BY Zenon, <1>1, <1>5, <1>6 DEF QuietSays, Older, CopyConstants
  <1>10. Promised
    BY Zenon, <1>6 DEF Promised, Is, PublishedIsVersion, FailureAccounted, StrictIsSynced, MetadataTold, ReuseAddsUp
  <1> QED  BY Zenon, <1>4, <1>7, <1>8, <1>9, <1>10 DEF CopyInv, Promised

\* Every step keeps the invariant.
LEMMA NextKeeps ==
  ASSUME CopyConstants, CopyInv, [Next]_vars
  PROVE  CopyInv'
  <1>1. CASE Sweep \/ PlanFile \/ OpenSource \/ Claim \/ Prove \/ MakeTemp
    BY Zenon, <1>1, SweepKeeps, PlanKeeps, OpenKeeps, ClaimKeeps, ProveKeeps, MakeKeeps
  <1>2. CASE BeginSink \/ WriteCarry \/ Stream \/ CompleteSink \/ VerifySource \/ Reread \/ SecondRead
    BY Zenon, <1>2, BeginKeeps, WriteCarryKeeps, StreamedKeeps, CompleteKeeps, VerifyKeeps, RereadKeeps,
       SecondKeeps
  <1>3. CASE SetTimes \/ SetPermissions \/ SyncData \/ RecheckSource \/ BeforePublish \/ Publish
    BY Zenon, <1>3, TimesKeep, PermissionsKeep, DataSynced, RecheckKeeps, BeforePublishKeeps, PublishKeeps
  <1>4. CASE EditSource \/ NameTaken
    BY Zenon, <1>4, EditKeeps, TakenKeeps
  <1>5. CASE LoseLock \/ UNCHANGED vars
    <2>1. lock' \in BOOLEAN /\ UNCHANGED <<src, dir, opts, run, seen, left>>
      BY Zenon, <1>5, Flat DEF LoseLock, vars
    <2> QED  BY Zenon, <2>1, LockFree
  <1> QED
    BY Zenon, <1>1, <1>2, <1>3, <1>4, <1>5 DEF Next, Copy, Others

\* The copy of one file keeps its promises whatever options, directory and log
\* it starts from, and whatever edits, faults and losses of the lock it meets.
THEOREM CopyHolds ==
  ASSUME CopyConstants
  PROVE  Spec => []CopyInv
  <1>1. Init => CopyInv
    BY CopyStarts
  <1>2. CopyInv /\ [Next]_vars => CopyInv'
    BY NextKeeps
  <1> QED  BY <1>1, <1>2, PTL DEF Spec

\* Every copy that ends as copied has published one version of the source,
\* synced and described as was asked, and a failed one accounts for what is left.
THEOREM CopyKeepsPromises ==
  ASSUME CopyConstants
  PROVE  Spec => [](PublishedIsVersion /\ FailureAccounted /\ StrictIsSynced /\ MetadataTold /\ ReuseAddsUp)
  <1>1. CopyInv => PublishedIsVersion /\ FailureAccounted /\ StrictIsSynced /\ MetadataTold /\ ReuseAddsUp
    BY Zenon DEF CopyInv
  <1> QED  BY <1>1, CopyHolds, PTL

----------------------------------------------------------------------------
(* What a step may do to the directory *)

\* Nothing; an entry made or removed under the lock; a write to the temporary
\* this copy has; the rename, under the lock; or another program's new name.
DirChange ==
    \/ dir' = dir
    \/ lock /\ dir'.name = dir.name /\ (dir'.temp = None \/ dir'.temp.links = 1)
    \/ dir'.name = dir.name /\ dir.temp # None /\ dir'.temp # None /\ dir.temp.links = 1
    \/ lock /\ run.pc = "publish" /\ dir'.temp = None
    \/ run' = run /\ dir.name = None /\ dir'.temp = dir.temp

\* A discard removes under the lock only.
LEMMA DiscardChange ==
  ASSUME dir \in Dirs, FailAndDiscard \/ MismatchDiscards
  PROVE  DirChange
  <1>1. PICK b : Discard(b)
    BY Zenon DEF FailAndDiscard, MismatchDiscards
  <1>2. dir' = dir \/ (lock /\ dir' = [dir EXCEPT !.temp = None])
    BY Zenon, <1>1 DEF Discard
  <1>3. dir' = [dir EXCEPT !.temp = None] => dir'.name = dir.name /\ dir'.temp = None
    BY Zenon DEF Dirs
  <1> QED  BY Zenon, <1>2, <1>3 DEF DirChange

\* So does a sweep.
LEMMA SweepChange ==
  ASSUME dir \in Dirs, lock, SweepTemp
  PROVE  DirChange
  <1>1. dir' = [dir EXCEPT !.temp = None] => dir'.name = dir.name /\ dir'.temp = None
    BY Zenon DEF Dirs
  <1> QED  BY Zenon, <1>1 DEF SweepTemp, DirChange

\* A temporary is created under the lock.
LEMMA CreateChange ==
  ASSUME dir \in Dirs, lock, CreateFresh
  PROVE  DirChange
  <1>1. dir' = [dir EXCEPT !.temp = None] => dir'.name = dir.name /\ dir'.temp = None
    BY Zenon DEF Dirs
  <1>2. dir' = [dir EXCEPT !.temp = Object(<<>>, NewObj, 1)] =>
           dir'.name = dir.name /\ dir'.temp = Object(<<>>, NewObj, 1)
    BY Zenon DEF Dirs
  <1>3. Object(<<>>, NewObj, 1).links = 1
    BY SMTT(60) DEF Object
  <1> QED  BY Zenon, <1>1, <1>2, <1>3 DEF CreateFresh, Refused, DirChange

\* A change of the temporary alone, while this copy has it.
LEMMA TempChange ==
  ASSUME CopyConstants, CopyInv, run.pc \in WithTemp, NEW t \in Entry, dir' = [dir EXCEPT !.temp = t]
  PROVE  DirChange
  <1>1. dir \in Dirs /\ dir.temp # None /\ dir.temp.links = 1
    BY Zenon, HasTemp DEF CopyInv, StepSays
  <1>2. dir'.name = dir.name /\ dir'.temp = t /\ t # None
    BY Zenon, <1>1 DEF Dirs, CopyConstants
  <1> QED  BY Zenon, <1>1, <1>2 DEF DirChange

\* Every step of the copy and of the others is one of these.
LEMMA StepChanges ==
  ASSUME CopyConstants, CopyInv, Next
  PROVE  DirChange
  <1>0. dir \in Dirs
    BY Zenon, Flat
  <1>1. CASE Sweep \/ PlanFile
    <2>1. dir' = dir \/ (lock /\ SweepTemp)
      BY Zenon, <1>1 DEF Sweep, PlanFile, PlanTo, Refused
    <2> QED  BY Zenon, <1>0, <2>1, SweepChange DEF DirChange
  <1>2. CASE OpenSource \/ Claim
    <2>1. dir' = dir \/ (lock /\ SweepTemp) \/ (lock /\ CreateFresh)
      BY Zenon, <1>2 DEF OpenSource, Claim, Refused
    <2> QED  BY Zenon, <1>0, <2>1, SweepChange, CreateChange DEF DirChange
  <1>3. CASE Prove
    BY Zenon, <1>3 DEF Prove, DirChange
  <1>4. CASE MakeTemp
    <2>1. CASE run.old /\ lock /\ dir' = [dir EXCEPT !.temp = Cut(@)]
      <3>1. run.pc = "make" /\ Proving
        BY Zenon, <1>4, <2>1 DEF MakeTemp, Proving
      <3>2. dir.temp # None /\ dir.temp.links = 1 /\ dir.temp \in Entry
        BY Zenon, <3>1, Flat DEF CopyInv, StepSays
      <3>3. Cut(dir.temp).links = 1
        BY Zenon, <3>2 DEF Cut, Entry
      <3>4. dir' = [dir EXCEPT !.temp = Cut(dir.temp)]
        BY Zenon, <2>1
      <3>5. dir'.name = dir.name /\ dir'.temp = Cut(dir.temp)
        BY Zenon, <1>0, <3>4 DEF Dirs
      <3> QED  BY Zenon, <2>1, <3>3, <3>5 DEF DirChange
    <2>2. dir' = dir \/ (lock /\ CreateFresh) \/ (run.old /\ lock /\ dir' = [dir EXCEPT !.temp = Cut(@)])
      BY Zenon, <1>4 DEF MakeTemp, Refused, KeepPartial
    <2> QED  BY Zenon, <1>0, <2>1, <2>2, CreateChange DEF DirChange
  <1>5. CASE BeginSink \/ CompleteSink \/ VerifySource \/ Reread \/ SecondRead \/ RecheckSource \/ BeforePublish
    <2>1. dir' = dir \/ FailAndDiscard \/ MismatchDiscards
      BY Zenon, <1>5 DEF BeginSink, CompleteSink, VerifySource, Reread, SecondRead, RecheckSource, BeforePublish,
         Recheck, KeepPartial
    <2> QED  BY Zenon, <1>0, <2>1, DiscardChange DEF DirChange
  <1>6. CASE WriteCarry \/ Stream
    <2>1. run.pc \in {"carry", "stream"} /\ run.pc \in WithTemp
      BY Zenon, <1>6 DEF WriteCarry, Stream, WithTemp, Planned, Steps, BeforeTemp
    <2>2. ASSUME NEW w \in Nat, Write(w) PROVE DirChange
      <3>1. dir'.temp # None /\ dir'.name = dir.name
        BY Zenon, <2>1, <2>2, WriteIs
      <3>2. dir.temp # None /\ dir.temp.links = 1
        BY Zenon, <2>1 DEF CopyInv, StepSays
      <3> QED  BY Zenon, <3>1, <3>2 DEF DirChange
    <2>3. Bad \in Nat
      BY SMTT(60) DEF Bad
    <2>4. CASE WriteCarry
      <3>1. CASE run.carry # <<>> /\ Write(run.carry[1])
        <4>1. run.carry \in Seq(Nat) /\ Len(run.carry) \in Nat \ {0} /\ DOMAIN run.carry = 1 .. Len(run.carry)
          BY Zenon, <3>1, Flat, EmptySeq, SeqFacts
        <4>2. 1 \in DOMAIN run.carry
          BY SMTT(60), <4>1
        <4>3. run.carry[1] \in Nat
          BY Zenon, <4>1, <4>2, SeqFacts
        <4> QED  BY Zenon, <2>2, <3>1, <4>3
      <3>2. dir' = dir \/ FailAndDiscard \/ Write(Bad) \/ (run.carry # <<>> /\ Write(run.carry[1]))
        BY Zenon, <2>4 DEF WriteCarry, KeepPartial
      <3> QED  BY Zenon, <1>0, <2>2, <2>3, <3>1, <3>2, DiscardChange DEF DirChange
    <2>5. CASE Stream
      <3>1. CASE run.pos < Len(src.data) /\ Write(src.data[run.pos + 1])
        <4>1. src.data \in Seq(Nat) /\ run.pos \in Nat /\ Len(src.data) \in Nat /\ DOMAIN src.data = 1 .. Len(src.data)
          BY Zenon, Flat, SeqFacts
        <4>2. run.pos + 1 \in DOMAIN src.data
          BY Zenon, WithinOne, <3>1, <4>1
        <4>3. src.data[run.pos + 1] \in Nat
          BY Zenon, <4>1, <4>2, SeqFacts
        <4> QED  BY Zenon, <2>2, <3>1, <4>3
      <3>2. dir' = dir \/ FailAndDiscard \/ Write(Bad) \/ (run.pos < Len(src.data) /\ Write(src.data[run.pos + 1]))
        BY Zenon, <2>5 DEF Stream, KeepPartial
      <3> QED  BY Zenon, <1>0, <2>2, <2>3, <3>1, <3>2, DiscardChange DEF DirChange
    <2> QED  BY Zenon, <1>6, <2>4, <2>5
  <1>7. CASE SetTimes \/ SetPermissions
    <2>1. run.pc \in WithTemp
      BY Zenon, <1>7 DEF SetTimes, SetPermissions, WithTemp, Planned, Steps, BeforeTemp
    <2>2. ASSUME NEW item \in {"times", "perms"}, dir' = [dir EXCEPT !.temp[item] = TRUE, !.temp.safe = FALSE]
          PROVE  DirChange
      <3>1. dir'.temp # None /\ dir'.name = dir.name
        BY Zenon, <2>1, <2>2, HasTemp, ItemIs
      <3>2. dir.temp # None /\ dir.temp.links = 1
        BY Zenon, <2>1 DEF CopyInv, StepSays
      <3> QED  BY Zenon, <3>1, <3>2 DEF DirChange
    <2>3. \/ dir' = dir \/ FailAndDiscard
          \/ dir' = [dir EXCEPT !.temp["times"] = TRUE, !.temp.safe = FALSE]
          \/ dir' = [dir EXCEPT !.temp["perms"] = TRUE, !.temp.safe = FALSE]
      BY Zenon, <1>7 DEF SetTimes, SetPermissions, Metadata
    <2> QED  BY Zenon, <1>0, <2>2, <2>3, DiscardChange DEF DirChange
  <1>8. CASE SyncData
    <2>1. run.pc \in WithTemp
      BY Zenon, <1>8 DEF SyncData, WithTemp, Planned, Steps, BeforeTemp
    <2>2. CASE dir' = [dir EXCEPT !.temp.safe = TRUE]
      <3>1. dir' = [dir EXCEPT !.temp = [dir.temp EXCEPT !.safe = TRUE]]
        BY Zenon, <2>2
      <3>2. [dir.temp EXCEPT !.safe = TRUE] \in Entry
        BY Zenon, <2>1, HasTemp DEF Entry
      <3> QED  BY Zenon, <2>1, <3>1, <3>2, TempChange
    <2> QED  BY Zenon, <1>0, <1>8, <2>2, DiscardChange DEF SyncData, DirChange
  <1>9. CASE Publish
    <2>1. Renamed => dir'.temp = None
      BY SMTT(60) DEF Renamed
    <2>2. run.pc = "publish" /\ (dir' = dir \/ FailAndDiscard \/ MismatchDiscards \/ (lock /\ Renamed))
      BY Zenon, <1>9 DEF Publish
    <2> QED  BY Zenon, <1>0, <2>1, <2>2, DiscardChange DEF DirChange
  <1>10. CASE NameTaken
    <2>1. dir'.temp = dir.temp
      BY Zenon, <1>0, <1>10 DEF NameTaken, Dirs
    <2> QED  BY Zenon, <1>10, <2>1 DEF NameTaken, DirChange
  <1>11. CASE EditSource \/ LoseLock
    BY Zenon, <1>11 DEF EditSource, LoseLock, DirChange
  <1> QED
    BY Zenon, <1>1, <1>2, <1>3, <1>4, <1>5, <1>6, <1>7, <1>8, <1>9, <1>10, <1>11 DEF Next, Copy, Others

\* No step creates, removes or renames without the lock, writes through a
\* second name, or replaces the source untold.
THEOREM CopyStepsKept ==
  ASSUME CopyConstants
  PROVE  Spec => [][LockedWrites /\ SecondNameUntouched /\ SelfCopyTold]_vars
  <1>1. CopyInv /\ [Next]_vars => [LockedWrites /\ SecondNameUntouched /\ SelfCopyTold]_vars
    <2> SUFFICES ASSUME CopyInv, Next PROVE LockedWrites /\ SecondNameUntouched /\ SelfCopyTold
      BY Zenon
    <2>1. DirChange
      BY Zenon, StepChanges
    <2>2. LockedWrites
      BY Zenon, <2>1 DEF DirChange, LockedWrites
    <2>3. SecondNameUntouched
      BY Zenon, <2>1, OneLink DEF DirChange, SecondNameUntouched
    <2>4. SelfCopyTold
      <3>1. run.pc = "publish" => run.pc \in Planned
        BY Zenon DEF Planned, Steps
      <3> QED  BY Zenon, <2>1, <3>1 DEF DirChange, SelfCopyTold, CopyInv, GateSays
    <2> QED  BY Zenon, <2>2, <2>3, <2>4
  <1> QED  BY <1>1, CopyHolds, PTL DEF Spec

=============================================================================
