-------------------------- MODULE OperationLemmas --------------------------
(***************************************************************************)
(* What the calls of Operation do to its state, what keeps each part of its *)
(* invariant, and the steps by which a run finds, adopts or makes the state *)
(* it works on.                                                             *)
(***************************************************************************)
EXTENDS Operation, TLAPS

USE RunAssumption, FlagAssumption, BoundAssumption

OpOnly(o)  == /\ op' \in [Run -> OpType]
              /\ \A x \in Run \ {o} : op'[x] = op[x]
JobOnly(p) == /\ job' \in [Run -> JobType]
              /\ \A q \in Run \ {p} : job'[q] = job[q]

\* Writing a manifest touches one operation: its place, state and marker.
LEMMA WrittenEffect ==
    ASSUME op \in [Run -> OpType], NEW o, NEW s \in OpState, NEW r \in BOOLEAN,
           op' = Written(o, s, r)
    PROVE  /\ OpOnly(o)
           /\ o \in Run => /\ op'[o].place = "there" /\ op'[o].manifest = s
                           /\ op'[o].store = op[o].store
                           /\ op'[o].partial = op[o].partial /\ op'[o].recorded = r
  BY ZenonT(90) DEF Written, OpType, Place, OpOnly

\* Removing an operation's directory touches one operation, temporaries excepted.
LEMMA GoneEffect ==
    ASSUME op \in [Run -> OpType], NEW o, Gone(o)
    PROVE  /\ OpOnly(o)
           /\ o \in Run => /\ op'[o].place = Absent /\ op'[o].manifest = None
                           /\ op'[o].partial = op[o].partial
  BY Zenon DEF Gone, Nothing, OpType, Place, OpOnly

\* A rename or mkdir touches one operation's place.
LEMMA PlaceEffect ==
    ASSUME op \in [Run -> OpType], NEW o, NEW v \in Place,
           op' = [op EXCEPT ![o].place = v]
    PROVE  /\ OpOnly(o)
           /\ o \in Run => /\ op'[o].place = v /\ op'[o].manifest = op[o].manifest
                           /\ op'[o].store = op[o].store
                           /\ op'[o].partial = op[o].partial
                           /\ op'[o].recorded = op[o].recorded
  <1>1. CASE o \in Run
    <2>1. op'[o] = [op[o] EXCEPT !.place = v] /\ op[o] \in OpType
      BY SMTT(60), <1>1
    <2>2. /\ op'[o] \in OpType
          /\ op'[o].place = v
          /\ op'[o].manifest = op[o].manifest
          /\ op'[o].store = op[o].store
          /\ op'[o].partial = op[o].partial
          /\ op'[o].recorded = op[o].recorded
      BY SMTT(60), <2>1 DEF OpType
    <2>3. OpOnly(o)
      BY Zenon, <2>2 DEF OpOnly
    <2> QED  BY SMTT(60), <2>2, <2>3
  <1>2. CASE o \notin Run
    BY Zenon, <1>2 DEF OpOnly
  <1> QED  BY SMTT(60), <1>1, <1>2

\* A manifest written before publication touches only that manifest.
LEMMA ManifestEffect ==
    ASSUME op \in [Run -> OpType], NEW o, NEW v \in OpState,
           op' = [op EXCEPT ![o].manifest = v]
    PROVE  /\ OpOnly(o)
           /\ o \in Run => /\ op'[o].place = op[o].place /\ op'[o].manifest = v
                           /\ op'[o].store = op[o].store
                           /\ op'[o].partial = op[o].partial
                           /\ op'[o].recorded = op[o].recorded
  <1>1. CASE o \in Run
    <2>1. op'[o] = [op[o] EXCEPT !.manifest = v] /\ op[o] \in OpType
      BY SMTT(60), <1>1
    <2>2. /\ op'[o] \in OpType
          /\ op'[o].place = op[o].place
          /\ op'[o].manifest = v
          /\ op'[o].store = op[o].store
          /\ op'[o].partial = op[o].partial
          /\ op'[o].recorded = op[o].recorded
      BY SMTT(60), <2>1 DEF OpType
    <2>3. OpOnly(o)
      BY Zenon, <2>2 DEF OpOnly
    <2> QED  BY SMTT(60), <2>2, <2>3
  <1>2. CASE o \notin Run
    BY Zenon, <1>2 DEF OpOnly
  <1> QED  BY SMTT(60), <1>1, <1>2

\* Making a claim store touches only that store.
LEMMA StoreEffect ==
    ASSUME op \in [Run -> OpType], NEW o, NEW v \in {Torn, "ok"},
           op' = [op EXCEPT ![o].store = v]
    PROVE  /\ OpOnly(o)
           /\ o \in Run => /\ op'[o].place = op[o].place
                           /\ op'[o].manifest = op[o].manifest
                           /\ op'[o].store = v
                           /\ op'[o].partial = op[o].partial
                           /\ op'[o].recorded = op[o].recorded
  <1>1. CASE o \in Run
    <2>1. op'[o] = [op[o] EXCEPT !.store = v] /\ op[o] \in OpType
      BY SMTT(60), <1>1
    <2>2. /\ op'[o] \in OpType
          /\ op'[o].place = op[o].place
          /\ op'[o].manifest = op[o].manifest
          /\ op'[o].store = v
          /\ op'[o].partial = op[o].partial
          /\ op'[o].recorded = op[o].recorded
      BY SMTT(60), <2>1 DEF OpType
    <2>3. OpOnly(o)
      BY Zenon, <2>2 DEF OpOnly
    <2> QED  BY SMTT(60), <2>2, <2>3
  <1>2. CASE o \notin Run
    BY Zenon, <1>2 DEF OpOnly
  <1> QED  BY SMTT(60), <1>1, <1>2

\* Making or sweeping a temporary touches only that temporary.
LEMMA PartialEffect ==
    ASSUME op \in [Run -> OpType], NEW o, NEW v \in BOOLEAN,
           op' = [op EXCEPT ![o].partial = v]
    PROVE  /\ OpOnly(o)
           /\ o \in Run => /\ op'[o].place = op[o].place
                           /\ op'[o].manifest = op[o].manifest
                           /\ op'[o].store = op[o].store
                           /\ op'[o].partial = v
                           /\ op'[o].recorded = op[o].recorded
  <1>1. CASE o \in Run
    <2>1. op'[o] = [op[o] EXCEPT !.partial = v] /\ op[o] \in OpType
      BY SMTT(60), <1>1
    <2>2. /\ op'[o] \in OpType
          /\ op'[o].place = op[o].place
          /\ op'[o].manifest = op[o].manifest
          /\ op'[o].store = op[o].store
          /\ op'[o].partial = v
          /\ op'[o].recorded = op[o].recorded
      BY SMTT(60), <2>1 DEF OpType
    <2>3. OpOnly(o)
      BY Zenon, <2>2 DEF OpOnly
    <2> QED  BY SMTT(60), <2>2, <2>3
  <1>2. CASE o \notin Run
    BY Zenon, <1>2 DEF OpOnly
  <1> QED  BY SMTT(60), <1>1, <1>2

WorkOnly(p) ==
    /\ JobOnly(p)
    /\ job'[p].id = job[p].id /\ job'[p].mem = job[p].mem
    /\ job'[p].rows = job[p].rows /\ job'[p].claimed = job[p].claimed

\* SetWork replaces the work left of one run.
LEMMA WorkEffect ==
    ASSUME job \in [Run -> JobType], NEW p \in Run, NEW w \in WorkType, SetWork(p, w)
    PROVE  WorkOnly(p) /\ job'[p].work = w
  BY SMTT(60) DEF SetWork, JobType, WorkOnly, JobOnly

WithId(j, p, v) == [j EXCEPT ![p].id = v]
WithMem(j, p, s) == [j EXCEPT ![p].mem = s]
WithRounds(j, p, n) == [j EXCEPT ![p].rounds = n]
Unclaimed(j, p) == [j EXCEPT ![p].claimed = FALSE]
WithRows(j, p, r) == [j EXCEPT ![p].rows = r]

\* Replacing the id of a job leaves the rest of it.
LEMMA SetId ==
    ASSUME NEW j \in [Run -> JobType], NEW p \in Run, NEW v \in Run \cup {None}
    PROVE  /\ WithId(j, p, v) \in [Run -> JobType]
           /\ \A q \in Run \ {p} : WithId(j, p, v)[q] = j[q]
           /\ WithId(j, p, v)[p].id = v
           /\ WithId(j, p, v)[p].mem = j[p].mem
           /\ WithId(j, p, v)[p].work = j[p].work
           /\ WithId(j, p, v)[p].rows = j[p].rows
           /\ WithId(j, p, v)[p].claimed = j[p].claimed
  BY SMTT(60) DEF JobType, WithId

\* Replacing the remembered state of a job leaves the rest of it.
LEMMA SetMem ==
    ASSUME NEW j \in [Run -> JobType], NEW p \in Run, NEW s \in OpState \cup {None}
    PROVE  /\ WithMem(j, p, s) \in [Run -> JobType]
           /\ \A q \in Run \ {p} : WithMem(j, p, s)[q] = j[q]
           /\ WithMem(j, p, s)[p].id = j[p].id
           /\ WithMem(j, p, s)[p].mem = s
           /\ WithMem(j, p, s)[p].work = j[p].work
           /\ WithMem(j, p, s)[p].rows = j[p].rows
           /\ WithMem(j, p, s)[p].claimed = j[p].claimed
  BY SMTT(60) DEF JobType, WithMem

\* Counting a round of a job leaves the rest of it.
LEMMA SetRounds ==
    ASSUME NEW j \in [Run -> JobType], NEW p \in Run, NEW n \in 1..MaxRounds
    PROVE  /\ WithRounds(j, p, n) \in [Run -> JobType]
           /\ \A q \in Run \ {p} : WithRounds(j, p, n)[q] = j[q]
           /\ WithRounds(j, p, n)[p].id = j[p].id
           /\ WithRounds(j, p, n)[p].mem = j[p].mem
           /\ WithRounds(j, p, n)[p].work = j[p].work
           /\ WithRounds(j, p, n)[p].rows = j[p].rows
           /\ WithRounds(j, p, n)[p].claimed = j[p].claimed
  BY SMTT(60) DEF JobType, WithRounds

\* Dropping the claim of a job leaves the rest of it.
LEMMA SetUnclaimed ==
    ASSUME NEW j \in [Run -> JobType], NEW p \in Run
    PROVE  /\ Unclaimed(j, p) \in [Run -> JobType]
           /\ \A q \in Run \ {p} : Unclaimed(j, p)[q] = j[q]
           /\ Unclaimed(j, p)[p].id = j[p].id
           /\ Unclaimed(j, p)[p].mem = j[p].mem
           /\ Unclaimed(j, p)[p].work = j[p].work
           /\ Unclaimed(j, p)[p].rows = j[p].rows
           /\ ~Unclaimed(j, p)[p].claimed
  BY ZenonT(90) DEF JobType, Unclaimed

\* Replacing the rows of a job leaves the rest of it.
LEMMA SetRows ==
    ASSUME NEW j \in [Run -> JobType], NEW p \in Run,
           NEW r \in SUBSET (Run \X Place \X {0, 1})
    PROVE  /\ WithRows(j, p, r) \in [Run -> JobType]
           /\ \A q \in Run \ {p} : WithRows(j, p, r)[q] = j[q]
           /\ WithRows(j, p, r)[p].id = j[p].id
           /\ WithRows(j, p, r)[p].mem = j[p].mem
           /\ WithRows(j, p, r)[p].work = j[p].work
           /\ WithRows(j, p, r)[p].rows = r
           /\ WithRows(j, p, r)[p].claimed = j[p].claimed
  BY SMTT(60) DEF JobType, WithRows

SetWorkOf(j, p, w) == job' = [j EXCEPT ![p].work = w]

\* SetWorkOf starts from a job and replaces its work.
LEMMA SetWorkOfEffect ==
    ASSUME NEW j \in [Run -> JobType], NEW p \in Run, NEW w \in WorkType,
           SetWorkOf(j, p, w)
    PROVE  /\ job' \in [Run -> JobType] /\ \A q \in Run \ {p} : job'[q] = j[q]
           /\ job'[p].id = j[p].id /\ job'[p].mem = j[p].mem /\ job'[p].work = w
           /\ job'[p].rows = j[p].rows /\ job'[p].claimed = j[p].claimed
  BY SMTT(60) DEF JobType, SetWorkOf

\* Made names the state a run works on, its own unless it adopted one.
LEMMA MadeEffect ==
    ASSUME job \in [Run -> JobType], NEW p \in Run, NEW s \in OpState \cup {None}, NEW l,
           Made(p, s, l)
    PROVE  /\ JobOnly(p)
           /\ job'[p].id = IF job[p].id = None THEN p ELSE job[p].id
           /\ job'[p].mem = s /\ job'[p].work = job[p].work
           /\ job'[p].rows = job[p].rows /\ job'[p].claimed = job[p].claimed
  <1> DEFINE v == IF job[p].id = None THEN p ELSE job[p].id
             j == WithId(job, p, v)
  <1>1. v \in Run \cup {None}
    BY SMTT(60) DEF JobType
  <1>2. job' = WithMem(j, p, s)
    BY SMTT(60) DEF Made, WithId, WithMem
  <1> HIDE DEF v
  <1>3. /\ j \in [Run -> JobType] /\ \A q \in Run \ {p} : j[q] = job[q]
        /\ j[p].id = v /\ j[p].work = job[p].work
        /\ j[p].rows = job[p].rows /\ j[p].claimed = job[p].claimed
    BY SMTT(60), <1>1, SetId
  <1> HIDE DEF j
  <1>4. /\ job' \in [Run -> JobType] /\ \A q \in Run \ {p} : job'[q] = j[q]
        /\ job'[p].id = j[p].id /\ job'[p].mem = s /\ job'[p].work = j[p].work
        /\ job'[p].rows = j[p].rows /\ job'[p].claimed = j[p].claimed
    BY SMTT(60), <1>2, <1>3, SetMem
  <1> QED  BY SMTT(60), <1>3, <1>4 DEF v, JobOnly

\* Learn replaces the id, the state and the work of one run.
LEMMA LearnEffect ==
    ASSUME job \in [Run -> JobType], NEW p \in Run, NEW o \in Run \cup {None},
           NEW s \in OpState \cup {None}, NEW w \in WorkType, Learn(p, o, s, w)
    PROVE  /\ JobOnly(p)
           /\ job'[p].id = o /\ job'[p].mem = s /\ job'[p].work = w
           /\ job'[p].rows = job[p].rows /\ job'[p].claimed = job[p].claimed
  <1> DEFINE j == [job EXCEPT ![p].id = o]
             k == [j EXCEPT ![p].mem = s]
  <1>1. /\ j \in [Run -> JobType] /\ \A q \in Run \ {p} : j[q] = job[q]
        /\ j[p].id = o
        /\ j[p].rows = job[p].rows /\ j[p].claimed = job[p].claimed
    BY SMTT(60) DEF JobType
  <1>2. job' = [k EXCEPT ![p].work = w]
    BY SMTT(60) DEF Learn
  <1> HIDE DEF j
  <1>3. /\ k \in [Run -> JobType] /\ \A q \in Run \ {p} : k[q] = job[q]
        /\ k[p].id = o /\ k[p].mem = s
        /\ k[p].rows = job[p].rows /\ k[p].claimed = job[p].claimed
    BY SMTT(60), <1>1 DEF JobType
  <1> HIDE DEF k
  <1> QED  BY SMTT(60), <1>2, <1>3 DEF JobType, JobOnly

\* A claim marks one run's job and leaves the rest of it.
LEMMA ClaimEffect ==
    ASSUME job \in [Run -> JobType], NEW p \in Run,
           job' = [job EXCEPT ![p].claimed = TRUE]
    PROVE  /\ JobOnly(p)
           /\ job'[p].id = job[p].id /\ job'[p].mem = job[p].mem
           /\ job'[p].work = job[p].work /\ job'[p].rows = job[p].rows
           /\ job'[p].claimed
  BY ZenonT(90) DEF JobType, JobOnly

Again(p) == job' = [job EXCEPT ![p].rounds = @ + 1, ![p].claimed = FALSE]

\* Another round keeps the job but for its claim.
LEMMA AgainEffect ==
    ASSUME job \in [Run -> JobType], NEW p \in Run, job[p].rounds < MaxRounds,
           Again(p)
    PROVE  /\ JobOnly(p)
           /\ job'[p].id = job[p].id /\ job'[p].mem = job[p].mem
           /\ job'[p].work = job[p].work /\ job'[p].rows = job[p].rows
           /\ ~job'[p].claimed
  <1> DEFINE n == job[p].rounds + 1
             j == WithRounds(job, p, n)
  <1>1. n \in 1..MaxRounds
    BY SMTT(60) DEF JobType
  <1>2. job' = Unclaimed(j, p)
    BY SMTT(60) DEF Again, WithRounds, Unclaimed
  <1> HIDE DEF n
  <1>3. /\ j \in [Run -> JobType] /\ \A q \in Run \ {p} : j[q] = job[q]
        /\ j[p].id = job[p].id /\ j[p].mem = job[p].mem
        /\ j[p].work = job[p].work /\ j[p].rows = job[p].rows
    BY SMTT(60), <1>1, SetRounds
  <1> HIDE DEF j
  <1>4. /\ job' \in [Run -> JobType] /\ \A q \in Run \ {p} : job'[q] = j[q]
        /\ job'[p].id = j[p].id /\ job'[p].mem = j[p].mem
        /\ job'[p].work = j[p].work /\ job'[p].rows = j[p].rows
        /\ ~job'[p].claimed
    BY SMTT(60), <1>2, <1>3, SetUnclaimed
  <1> QED  BY SMTT(60), <1>3, <1>4 DEF JobOnly

\* Remembering a state leaves the rest of the job.
LEMMA MemEffect ==
    ASSUME job \in [Run -> JobType], NEW p \in Run, NEW s \in OpState,
           job' = [job EXCEPT ![p].mem = s]
    PROVE  /\ JobOnly(p)
           /\ job'[p].id = job[p].id /\ job'[p].mem = s
           /\ job'[p].work = job[p].work
           /\ job'[p].rows = job[p].rows /\ job'[p].claimed = job[p].claimed
  BY SMTT(60) DEF JobType, JobOnly

Phase == {"abandon", "sweep", "remove", "retiring", "finish", "debris"}

\* Drop takes an operation from one list of the work and adds it to none.
LEMMA DropEffect ==
    ASSUME job \in [Run -> JobType], NEW p \in Run, NEW o \in Run,
           NEW from \in Phase, Drop(p, o, from)
    PROVE  /\ WorkOnly(p) /\ Other(p)' \subseteq Other(p)
           /\ Todo(p)'.finish \subseteq Todo(p).finish
           /\ Todo(p)'.remove \subseteq Todo(p).remove
           /\ Todo(p)'.abandon = IF from = "abandon" THEN Todo(p).abandon \ {o}
                                 ELSE Todo(p).abandon
  <1> DEFINE w == [Todo(p) EXCEPT ![from] = @ \ {o}]
  <1>0. Todo(p) \in WorkType
    BY SMTT(60) DEF Todo, JobType
  <1>1. /\ w \in WorkType
        /\ w.sweep \subseteq Todo(p).sweep /\ w.keep \subseteq Todo(p).keep
        /\ w.remove \subseteq Todo(p).remove /\ w.retiring \subseteq Todo(p).retiring
        /\ w.finish \subseteq Todo(p).finish /\ w.debris \subseteq Todo(p).debris
        /\ w.abandon = IF from = "abandon" THEN Todo(p).abandon \ {o}
                       ELSE Todo(p).abandon
    <2>1. CASE from = "abandon"  BY SMTT(60), <1>0, <2>1 DEF WorkType
    <2>2. CASE from = "sweep"  BY SMTT(60), <1>0, <2>2 DEF WorkType
    <2>3. CASE from = "remove"  BY SMTT(60), <1>0, <2>3 DEF WorkType
    <2>4. CASE from = "retiring"  BY SMTT(60), <1>0, <2>4 DEF WorkType
    <2>5. CASE from = "finish"  BY SMTT(60), <1>0, <2>5 DEF WorkType
    <2>6. CASE from = "debris"  BY SMTT(60), <1>0, <2>6 DEF WorkType
    <2> QED  BY SMTT(60), <2>1, <2>2, <2>3, <2>4, <2>5, <2>6 DEF Phase
  <1>2. SetWork(p, w)
    BY SMTT(60) DEF Drop
  <1> HIDE DEF w
  <1>3. WorkOnly(p) /\ job'[p].work = w
    BY SMTT(60), <1>1, <1>2, WorkEffect
  <1> QED  BY SMTT(60), <1>1, <1>3 DEF Todo, Other

\* Move passes an operation from one list of the work to the next.
LEMMA MoveEffect ==
    ASSUME job \in [Run -> JobType], NEW p \in Run, NEW o \in Run, NEW from, NEW to,
           \/ from = "abandon" /\ to = "sweep"
           \/ from = "sweep" /\ to = "remove"
           \/ from \in {"remove", "finish"} /\ to = "retiring",
           Move(p, o, from, to)
    PROVE  /\ WorkOnly(p) /\ Other(p)' \subseteq Other(p) \cup {o}
           /\ Todo(p)'.finish \subseteq Todo(p).finish
           /\ Todo(p)'.remove \subseteq Todo(p).remove
                \cup (IF to = "remove" THEN {o} ELSE {})
           /\ Todo(p)'.abandon = IF from = "abandon" THEN Todo(p).abandon \ {o}
                                 ELSE Todo(p).abandon
  <1> DEFINE w == [Todo(p) EXCEPT ![from] = @ \ {o}, ![to] = @ \cup {o}]
  <1>0. Todo(p) \in WorkType
    BY SMTT(30) DEF Todo, JobType
  <1>1. /\ w \in WorkType
        /\ w.sweep \subseteq Todo(p).sweep \cup {o} /\ w.keep \subseteq Todo(p).keep
        /\ w.remove \subseteq Todo(p).remove \cup (IF to = "remove" THEN {o} ELSE {})
        /\ w.retiring \subseteq Todo(p).retiring \cup {o}
        /\ w.finish \subseteq Todo(p).finish /\ w.debris \subseteq Todo(p).debris
        /\ w.abandon = IF from = "abandon" THEN Todo(p).abandon \ {o}
                       ELSE Todo(p).abandon
    <2>1. CASE from = "abandon" /\ to = "sweep"  BY SMTT(60), <1>0, <2>1 DEF WorkType
    <2>2. CASE from = "sweep" /\ to = "remove"  BY SMTT(60), <1>0, <2>2 DEF WorkType
    <2>3. CASE from = "remove" /\ to = "retiring"  BY SMTT(60), <1>0, <2>3 DEF WorkType
    <2>4. CASE from = "finish" /\ to = "retiring"  BY SMTT(60), <1>0, <2>4 DEF WorkType
    <2> QED  BY Zenon, <2>1, <2>2, <2>3, <2>4
  <1>2. SetWork(p, w)
    BY SMTT(60) DEF Move
  <1> HIDE DEF w
  <1>3. WorkOnly(p) /\ job'[p].work = w
    BY SMTT(60), <1>1, <1>2, WorkEffect
  <1> QED  BY SMTT(60), <1>1, <1>3 DEF Todo, Other

Moved(p) == /\ pc' \in [Run -> PC] /\ ok' \in [Run -> BOOLEAN]
            /\ \A q \in Run \ {p} : pc'[q] = pc[q]
Reported(p) ==
    /\ outcome' \in [Run -> {None, "ok", "failed", "refused", "lost"}]
    /\ \A q \in Run \ {p} : outcome'[q] = outcome[q]
Learned(p) == JobOnly(p) /\ (job[p].id # None => job'[p].id = job[p].id)

\* Goto moves one run.
LEMMA GotoEffect ==
    ASSUME TypeOK, NEW p \in Run, NEW l \in PC, Goto(p, l)
    PROVE  Moved(p) /\ pc'[p] = l
  BY SMTT(60) DEF Goto, Moved, TypeOK

\* Report sets the outcome of one run.
LEMMA ReportEffect ==
    ASSUME TypeOK, NEW p \in Run, NEW r \in {"ok", "failed", "refused", "lost"},
           Report(p, r)
    PROVE  Reported(p)
  BY SMTT(60) DEF Report, Reported, TypeOK

\* A fault is counted within its bound.
LEMMA FaultEffect ==
    ASSUME TypeOK, Fault
    PROVE  faults' \in 0..MaxFaults
  BY SMTT(60) DEF Fault, TypeOK

\* Closing and writing the lock keep it well typed.
LEMMA LockEffect ==
    ASSUME TypeOK, NEW p \in Run
    PROVE  /\ Unhold(p) => holder' \in Run \cup {None}
           /\ \A c \in Run \cup {None, Absent, Empty, Torn} :
                WriteLock(p, c) => lockFile' \in Run \cup {None, Absent, Empty, Torn}
           /\ RecordName(p) \in Run \cup {None}
  BY SMTT(60) DEF Unhold, WriteLock, RecordName, Own, TypeOK, JobType

\* What a step of p leaves alone: the other runs, and the state p works on.
Frame(p) ==
    /\ TypeOK' /\ UNCHANGED removals
    /\ \A q \in Run \ {p} :
         pc'[q] = pc[q] /\ job'[q] = job[q] /\ outcome'[q] = outcome[q]
    /\ job[p].id # None => job'[p].id = job[p].id

\* The effects of the calls, field by field.
Wrote(o, s, r) ==
    /\ OpOnly(o) /\ op'[o].place = "there" /\ op'[o].manifest = s
    /\ op'[o].store = op[o].store /\ op'[o].partial = op[o].partial
    /\ op'[o].recorded = r
Emptied(o) ==
    /\ OpOnly(o) /\ op'[o].place = Absent /\ op'[o].manifest = None
    /\ op'[o].partial = op[o].partial
Placed(o, v) ==
    /\ OpOnly(o) /\ op'[o].place = v /\ op'[o].manifest = op[o].manifest
    /\ op'[o].store = op[o].store /\ op'[o].partial = op[o].partial
    /\ op'[o].recorded = op[o].recorded
Stored(o, v) ==
    /\ OpOnly(o) /\ op'[o].place = op[o].place /\ op'[o].manifest = op[o].manifest
    /\ op'[o].store = v /\ op'[o].partial = op[o].partial
    /\ op'[o].recorded = op[o].recorded
Staged(o, v) ==
    /\ OpOnly(o) /\ op'[o].place = op[o].place /\ op'[o].manifest = op[o].manifest
    /\ op'[o].store = op[o].store /\ op'[o].partial = v
    /\ op'[o].recorded = op[o].recorded
Knows(p, i, m) ==
    /\ JobOnly(p) /\ job'[p].id = i /\ job'[p].mem = m
    /\ job'[p].work = job[p].work
    /\ job'[p].rows = job[p].rows /\ job'[p].claimed = job[p].claimed
Dropped(p, o, from) ==
    /\ WorkOnly(p) /\ Other(p)' \subseteq Other(p)
    /\ Todo(p)'.finish \subseteq Todo(p).finish
    /\ Todo(p)'.remove \subseteq Todo(p).remove
    /\ Todo(p)'.abandon = IF from = "abandon" THEN Todo(p).abandon \ {o}
                          ELSE Todo(p).abandon
Passed(p, o, from, to) ==
    /\ WorkOnly(p) /\ Other(p)' \subseteq Other(p) \cup {o}
    /\ Todo(p)'.finish \subseteq Todo(p).finish
    /\ Todo(p)'.remove \subseteq Todo(p).remove
         \cup (IF to = "remove" THEN {o} ELSE {})
    /\ Todo(p)'.abandon = IF from = "abandon" THEN Todo(p).abandon \ {o}
                          ELSE Todo(p).abandon

\* The calls that write a manifest, whether they succeed or fail.
LEMMA WriteCalls ==
    ASSUME PathInv, NEW o \in Run, NEW s \in OpState, NEW r \in BOOLEAN
    PROVE  /\ op' = Written(o, s, r) => Wrote(o, s, r)
           /\ WriteOk(o, s, r) => Wrote(o, s, r)
           /\ WriteErr(o, s, r) => UNCHANGED op \/ Wrote(o, s, r)
  <1>1. op' = Written(o, s, r) => Wrote(o, s, r)
    BY SMTT(60), WrittenEffect DEF PathInv, TypeOK, Wrote
  <1> QED  BY SMTT(60), <1>1 DEF WriteOk, WriteErr

\* The other calls that change an operation.
LEMMA OpCalls ==
    ASSUME PathInv, NEW o \in Run
    PROVE  /\ Gone(o) => Emptied(o)
           /\ Rename(o) => Placed(o, "removing")
           /\ op' = [op EXCEPT ![o].place = "creating"] => Placed(o, "creating")
           /\ op' = [op EXCEPT ![o].store = Torn] => Stored(o, Torn)
           /\ op' = [op EXCEPT ![o].store = "ok"] => Stored(o, "ok")
           /\ op' = [op EXCEPT ![o].partial = FALSE] => Staged(o, FALSE)
  <1> USE DEF PathInv, TypeOK
  <1>1. Gone(o) => Emptied(o)
    BY SMTT(60), GoneEffect DEF Emptied
  <1>2. Rename(o) => Placed(o, "removing")
    BY Zenon, PlaceEffect DEF Rename, Placed, Place
  <1>3. op' = [op EXCEPT ![o].place = "creating"] => Placed(o, "creating")
    BY Zenon, PlaceEffect DEF Placed, Place
  <1>4. op' = [op EXCEPT ![o].store = Torn] => Stored(o, Torn)
    BY Zenon, StoreEffect DEF Stored
  <1>5. op' = [op EXCEPT ![o].store = "ok"] => Stored(o, "ok")
    BY Zenon, StoreEffect DEF Stored
  <1>6. op' = [op EXCEPT ![o].partial = FALSE] => Staged(o, FALSE)
    BY Zenon, PartialEffect DEF Staged
  <1> QED  BY Zenon, <1>1, <1>2, <1>3, <1>4, <1>5, <1>6

\* The calls that tell a run its state.
LEMMA JobCalls ==
    ASSUME PathInv, NEW p \in Run, NEW s \in OpState, NEW l
    PROVE  /\ Made(p, s, l) =>
                Knows(p, IF Own(p) = None THEN p ELSE Own(p), s)
           /\ job' = [job EXCEPT ![p].mem = s] => Knows(p, Own(p), s)
  BY SMTT(60), MadeEffect, MemEffect DEF PathInv, TypeOK, Knows, Own

\* The calls that change the work left.
LEMMA WorkCalls ==
    ASSUME PathInv, NEW p \in Run, NEW o \in Run
    PROVE  /\ \A from \in Phase : Drop(p, o, from) => Dropped(p, o, from)
           /\ Move(p, o, "abandon", "sweep") => Passed(p, o, "abandon", "sweep")
           /\ Move(p, o, "sweep", "remove") => Passed(p, o, "sweep", "remove")
           /\ Move(p, o, "remove", "retiring") => Passed(p, o, "remove", "retiring")
           /\ Move(p, o, "finish", "retiring") => Passed(p, o, "finish", "retiring")
  <1>1. job \in [Run -> JobType]
    BY SMTT(60) DEF PathInv, TypeOK
  <1>2. ASSUME NEW from \in Phase, Drop(p, o, from)
        PROVE  Dropped(p, o, from)
    BY Zenon, <1>1, <1>2, DropEffect DEF Dropped
  <1>3. Move(p, o, "abandon", "sweep") => Passed(p, o, "abandon", "sweep")
    BY Zenon, <1>1, MoveEffect DEF Passed
  <1>4. Move(p, o, "sweep", "remove") => Passed(p, o, "sweep", "remove")
    BY Zenon, <1>1, MoveEffect DEF Passed
  <1>5. Move(p, o, "remove", "retiring") => Passed(p, o, "remove", "retiring")
    BY Zenon, <1>1, MoveEffect DEF Passed
  <1>6. Move(p, o, "finish", "retiring") => Passed(p, o, "finish", "retiring")
    BY Zenon, <1>1, MoveEffect DEF Passed
  <1> QED  BY SMTT(60), <1>2, <1>3, <1>4, <1>5, <1>6

Fails(p) == outcome'[p] = "ok" => outcome[p] = "ok"

\* A report of failure, refusal or a lost lock is no success.
LEMMA ReportFails ==
    ASSUME PathInv, NEW p \in Run
    PROVE  \A r \in {"failed", "refused", "lost"} : Report(p, r) => Fails(p)
  BY SMTT(60) DEF PathInv, TypeOK, Report, Fails

\* Where Goto leads.
LEMMA GotoIs ==
    ASSUME PathInv, NEW p \in Run
    PROVE  \A l \in PC : Goto(p, l) => pc'[p] = l
  BY SMTT(60), GotoEffect DEF PathInv

\* The ways a step of open_operation ends.
LEMMA EndsIs ==
    ASSUME PathInv, NEW p \in Run
    PROVE  /\ \A r \in {"failed", "refused"} : StateEnds(p, r) =>
                /\ pc'[p] = "giveback" /\ Fails(p)
                /\ UNCHANGED <<holder, lockFile, job>>
           /\ StateFails(p) => /\ pc'[p] = "giveback" /\ Fails(p)
                               /\ UNCHANGED <<holder, lockFile, job>>
           /\ stop_after_record(p) => /\ pc'[p] = "fail" /\ Fails(p)
                                      /\ UNCHANGED <<holder, lockFile, job>>
           /\ \A l \in PC : Step(p, l) =>
                pc'[p] = l /\ UNCHANGED <<holder, lockFile, job, outcome>>
  BY SMTT(60), GotoIs, ReportFails DEF StateEnds, StateFails, stop_after_record, Step, PC, Guarded

\* A copy past its scan knows the state it works on.
LEMMA OwnIs ==
    ASSUME PathInv, NEW p \in Run, ~IsCleanup(p),
           pc[p] \in {"adopt", "readopt", "removingown"} \cup Resuming \cup Ending
    PROVE  Own(p) \in Run /\ job[p].mem \in OpState
  BY SMTT(60) DEF PathInv, PathSays, TypeOK, JobType, Own

\* The steps only a copy takes, with its state known.
LEMMA CopyOnly ==
    ASSUME PathInv, NEW p \in Run,
           pc[p] \in {"takeover", "transfer", "copy", "copying", "complete", "rollback",
                      "removingown"} \cup Ending
    PROVE  ~IsCleanup(p) /\ Own(p) \in Run /\ job[p].mem \in OpState
  <1>1. ~IsCleanup(p)
    BY SMTT(60) DEF PathInv, PathSays, Ending
  <1> QED  BY SMTT(60), <1>1, OwnIs DEF Resuming, Ending

\* What retire_workspace does.
LEMMA retire_effect ==
    ASSUME PathInv, NEW p \in Run, NEW o \in Run, NEW from \in {"remove", "finish"},
           retire(p, o, from)
    PROVE  \/ /\ op[o].place = "there" /\ Placed(o, "removing")
              /\ Passed(p, o, from, "retiring")
           \/ op[o].place = "there" /\ Emptied(o) /\ Dropped(p, o, from)
           \/ UNCHANGED op /\ Dropped(p, o, from)
  <1>1. /\ Drop(p, o, from) => Dropped(p, o, from)
        /\ Move(p, o, from, "retiring") => Passed(p, o, from, "retiring")
    BY SMTT(60), WorkCalls DEF Phase
  <1> QED  BY Zenon, <1>1, OpCalls DEF retire

Rest == /\ holder' \in Run \cup {None}
        /\ lockFile' \in Run \cup {None, Absent, Empty, Torn}
        /\ faults' \in 0..MaxFaults /\ UNCHANGED removals

\* A frame from its parts.
LEMMA FrameParts ==
    ASSUME TypeOK, NEW p \in Run, op' \in [Run -> OpType], Learned(p), Moved(p),
           Reported(p), Rest
    PROVE  Frame(p)
  BY SMTT(60) DEF TypeOK, Frame, Learned, JobOnly, Moved, Reported, Rest

\* Where a run may go: with the job it has, or to work on a state now known.
Keeps(p) ==
    /\ Own(p)' = Own(p) /\ job'[p].mem = job[p].mem
    /\ IsCleanup(p) => /\ job'[p].claimed = job[p].claimed
                       /\ \A r \in job'[p].rows : r[1] # p
Goes(p) ==
    \/ Keeps(p) /\ pc'[p] \in {"giveback", "ended", "dead", "release", "obtain"}
    \/ Keeps(p) /\ pc'[p] = pc[p]
    \/ /\ Keeps(p) /\ ~IsCleanup(p) /\ pc'[p] \notin {"discover", "row"}
       /\ \/ Own(p) \in Run
          \/ pc'[p] \in {"scan", "create", "probe", "build", "publish", "store",
                         "storing", "unmake", "unmaking"}
    \/ Keeps(p) /\ IsCleanup(p) /\ pc'[p] \in {"record", "recording", "row", "work"}
    \/ /\ ~IsCleanup(p) /\ Own(p)' \in Run /\ job'[p].mem \in OpState
       /\ pc'[p] \notin {"discover", "row"}

\* A run keeps its job if no call touches it, or only the work left.
LEMMA KeepsCalls ==
    ASSUME PathInv, NEW p \in Run
    PROVE  (UNCHANGED job => Keeps(p)) /\ (WorkOnly(p) => Keeps(p))
  BY SMTT(60) DEF PathInv, PathSays, Keeps, WorkOnly, Own

\* What PathInv says of a run at its step.
LEMMA AtPath ==
    ASSUME PathInv, NEW p \in Run
    PROVE  /\ Own(p) \in Run \cup {None}
           /\ IsCleanup(p) => ~job[p].claimed
           /\ pc[p] \in {"scan", "adopt", "readopt", "create", "probe", "build",
                         "publish", "store", "storing", "unmake", "unmaking",
                         "takeover", "transfer", "copy", "copying", "complete",
                         "rollback", "fail", "unname", "unnaming", "removeown",
                         "removingown"} => ~IsCleanup(p)
           /\ pc[p] \in {"discover", "row"} => IsCleanup(p)
           /\ pc[p] \in {"adopt", "readopt", "record", "recording", "takeover", "work",
                         "transfer", "copy", "copying", "complete", "rollback", "fail",
                         "unname", "unnaming", "removeown", "removingown"} =>
                IsCleanup(p) \/ Own(p) \in Run
           /\ IsCleanup(p) => \A r \in job[p].rows : r[1] # p
  <1>1. PathSays(p)
    BY SMTT(60) DEF PathInv
  <1>2. Own(p) \in Run \cup {None}
    BY SMTT(60) DEF PathInv, TypeOK, JobType, Own
  <1> QED  BY SMTT(60), <1>1, <1>2 DEF PathSays, Resuming, Ending

\* PathSays after a step that goes where the run may go.
LEMMA GoesPath ==
    ASSUME PathInv, NEW p \in Run, Goes(p)
    PROVE  PathSays(p)'
  <1>1. PathSays(p)
    BY SMTT(60) DEF PathInv
  <1>2. CASE Keeps(p)
    <2>1. Own(p)' = Own(p) /\ (job'[p].mem = None <=> Own(p)' = None)
      BY SMTT(60), <1>1, <1>2 DEF Keeps, PathSays
    <2>2. CASE IsCleanup(p)
      <3>1. /\ Own(p)' = None /\ ~job'[p].claimed /\ \A r \in job'[p].rows : r[1] # p
        BY SMTT(60), <1>1, <1>2, <2>1, <2>2 DEF Keeps, PathSays
      <3>2. pc'[p] \in {"discover", "obtain", "record", "recording", "row", "work",
                        "release", "giveback", "ended", "dead"}
        BY SMTT(60), <1>1, <2>2 DEF Goes, PathSays
      <3> QED  BY SMTT(30), <2>1, <2>2, <3>1, <3>2 DEF PathSays, IsCleanup
    <2>3. CASE ~IsCleanup(p)
      <3>1. pc'[p] \notin {"discover", "row"}
        BY SMTT(60), <1>1, <2>3 DEF Goes, PathSays
      <3>2. \/ Own(p) \in Run
            \/ pc'[p] \notin {"adopt", "readopt", "removingown"} \cup Resuming \cup Ending
        <4>1. CASE pc'[p] = pc[p]
          BY SMTT(60), <1>1, <2>3, <4>1 DEF PathSays
        <4>2. CASE pc'[p] # pc[p]
          BY SMTT(60), <2>1, <2>3, <4>2 DEF Goes, Resuming, Ending
        <4> QED  BY SMTT(60), <4>1, <4>2
      <3> QED  BY SMTT(60), <2>1, <2>3, <3>1, <3>2 DEF PathSays, IsCleanup
    <2> QED  BY SMTT(60), <2>2, <2>3
  <1>3. CASE /\ ~IsCleanup(p) /\ Own(p)' \in Run /\ job'[p].mem \in OpState
             /\ pc'[p] \notin {"discover", "row"}
    BY SMTT(60), <1>3 DEF PathSays, IsCleanup, OpState, Resumable, None
  <1> QED  BY SMTT(60), <1>2, <1>3 DEF Goes

\* PathInv is kept if the manifests are, and the moving run goes where it may.
LEMMA PathStep ==
    ASSUME PathInv, NEW p \in Run, Frame(p), PublishedHasManifest', Goes(p)
    PROVE  PathInv'
  <1>1. TypeOK' /\ PathSays(p)'
    BY SMTT(60), GoesPath DEF Frame
  <1>2. ASSUME NEW q \in Run \ {p}
        PROVE  PathSays(q)'
    <2>1. pc'[q] = pc[q] /\ job'[q] = job[q] /\ PathSays(q)
      BY SMTT(60) DEF Frame, PathInv
    <2> QED  BY SMTT(60), <2>1 DEF PathSays, Own, IsCleanup
  <1> QED  BY SMTT(60), <1>1, <1>2 DEF PathInv

\* No call publishes an operation without its manifest.
LEMMA ManifestCalls ==
    ASSUME PathInv
    PROVE  /\ UNCHANGED op => PublishedHasManifest'
           /\ \A o \in Run, s \in OpState, r \in BOOLEAN :
                Wrote(o, s, r) => PublishedHasManifest'
           /\ \A o \in Run : Emptied(o) => PublishedHasManifest'
           /\ \A o \in Run : Placed(o, "creating") \/ Placed(o, "removing") =>
                PublishedHasManifest'
           /\ \A o \in Run, v \in {Torn, "ok"} : Stored(o, v) => PublishedHasManifest'
           /\ \A o \in Run, v \in BOOLEAN : Staged(o, v) => PublishedHasManifest'
  BY SMTT(60) DEF PathInv, PublishedHasManifest, Wrote, Emptied, Placed, Stored, Staged,
     OpOnly, OpState, Resumable, Absent, None

-----------------------------------------------------------------------------
\* What keeps each part of the invariant.

Idle(p) == \A q \in Run \ {p} : pc[q] \in {"discover", "obtain", "ended", "dead"}

\* While one run holds the lock the others wait, ended or died.
LEMMA OthersIdle ==
    ASSUME PathInv, Life, NEW p \in Run, pc[p] \in HeldPC
    PROVE  holder = p /\ lockFile # Absent /\ Idle(p)
  <1>1. holder = p
    BY Zenon DEF Life, Holding
  <1>2. ASSUME NEW q \in Run \ {p}
        PROVE  pc[q] \in PC \ HeldPC
    BY Zenon, <1>1 DEF Life, Holding, PathInv, TypeOK
  <1>3. lockFile # Absent
    BY Zenon, <1>1 DEF Life, Holding
  <1> QED  BY Zenon, <1>1, <1>2, <1>3 DEF Idle, HeldPC, PC, Guarded

\* While nobody holds the lock every run waits, ended or died.
LEMMA NoneIdle ==
    ASSUME PathInv, Life, NEW p \in Run, holder = None
    PROVE  Idle(p)
  <1>1. ASSUME NEW q \in Run \ {p}
        PROVE  pc[q] \in PC \ HeldPC
    BY Zenon DEF Life, Holding, PathInv, TypeOK
  <1> QED  BY Zenon, <1>1 DEF Idle, HeldPC, PC, Guarded

\* What a step of p leaves to show.
World(p) == /\ CompletedStays' /\ (\A q \in Run : OpSays(q)')
            /\ \A q \in Run \ {p} : FreshSays(q)'
Runs(p)  == /\ LockSays(p)' /\ WaitSays(p)' /\ FreshSays(p)'
            /\ OwnSays(p)' /\ TodoSays(p)'

\* Life after a step of p with the others idle: what is left to show.
LEMMA LifeStep ==
    ASSUME PathInv, Life, NEW p \in Run, Frame(p), Idle(p), Holding',
           RecordNamesState', World(p), Runs(p)
    PROVE  Life'
  <1>1. ASSUME NEW q \in Run \ {p}
        PROVE  LockSays(q)' /\ WaitSays(q)' /\ OwnSays(q)' /\ TodoSays(q)'
    <2>0. /\ pc'[q] \in {"discover", "obtain", "ended", "dead"} /\ pc'[q] = pc[q]
          /\ job'[q] = job[q] /\ outcome'[q] = outcome[q]
      BY Zenon DEF Frame, Idle
    <2>1. LockSays(q)'
      BY Zenon, <2>0 DEF LockSays, Making, Recorded
    <2>2. WaitSays(q)'
      BY ZenonT(90), <2>0 DEF WaitSays, Life, Own, Todo, IsCleanup
    <2>3. OwnSays(q)'
      BY Zenon, <2>0 DEF OwnSays, Making, Resuming, Ending
    <2>4. TodoSays(q)'
      BY Zenon, <2>0 DEF TodoSays, Making, HeldPC
    <2> QED  BY Zenon, <2>1, <2>2, <2>3, <2>4
  <1> QED  BY Zenon, <1>1 DEF Life, World, Runs

\* The other runs' states and the promises on what is on disk, after a step of
\* p that changes what operation o has there.
Clear(o) == \A q \in Run : outcome[q] = "ok" /\ ~IsCleanup(q) => Own(q) # o
Knowing(p) == \/ Own(p)' = Own(p)
              \/ /\ Own(p) = None
                 /\ pc[p] \notin {"unname", "unnaming", "removeown", "removingown",
                                  "release", "ended", "dead"}
                 /\ Own(p)' = p \/ op[Own(p)'] # Nothing

\* An operation once adopted stays so.
LEMMA MissedStays ==
    ASSUME PathInv, NEW p \in Run, Frame(p), NEW o \in Run, Missed(o)
    PROVE  Missed(o)'
  <1>1. PICK q \in Run : Adopted(q) /\ Own(q) = o
    BY Zenon DEF Missed
  <1>2. Own(q)' = Own(q)
    BY Zenon, <1>1 DEF Frame, Own, Adopted
  <1> QED  BY Zenon, <1>1, <1>2 DEF Missed, Adopted

\* A step that touches one operation is judged by that operation.
LEMMA OpsSay ==
    ASSUME PathInv, Life, NEW p \in Run, Frame(p), NEW o \in Run, OpOnly(o),
           OpSays(o)'
    PROVE  \A q \in Run : OpSays(q)'
  <1>1. ASSUME NEW q \in Run \ {o}
        PROVE  OpSays(q)'
    <2>1. op'[q] = op[q] /\ OpSays(q)
      BY Zenon DEF OpOnly, Life
    <2>2. Missed(q) => Missed(q)'
      BY Zenon, MissedStays
    <2> QED  BY Zenon, <2>1, <2>2 DEF OpSays, Is
  <1> QED  BY Zenon, <1>1

\* The world after a step that touches one operation.
LEMMA Changed ==
    ASSUME PathInv, Life, removals = 0, NEW p \in Run, Frame(p), Idle(p),
           NEW o \in Run, OpOnly(o), OpSays(o)', Knowing(p),
           Is(o, Resumable)' => Is(o, Resumable) \/ Clear(o),
           Fails(p) \/ IsCleanup(p) \/ (Own(p)' \in Run /\ ~Is(Own(p), Resumable)'),
           o = p \/ op[o] # Nothing \/ op'[o] = Nothing
    PROVE  World(p)
  <1>1. \A q \in Run : OpSays(q)'
    BY Zenon, OpsSay
  <1>2. ASSUME NEW q \in Run, outcome'[q] = "ok", ~IsCleanup(q)
        PROVE  ~Is(Own(q), Resumable)'
    <2>1. CASE outcome[q] = "ok"
      <3>1. /\ Own(q) \in Run /\ ~Is(Own(q), Resumable)
            /\ pc[q] \in {"unname", "unnaming", "removeown", "removingown", "release",
                          "ended", "dead"}
        BY Zenon, <1>2, <2>1 DEF Life, WaitSays, CompletedStays, RecordNamesState
      <3>2. Own(q)' = Own(q)
        BY Zenon, <3>1 DEF Knowing, Frame, Own
      <3>3. CASE Own(q) = o
        BY Zenon, <1>2, <2>1, <3>1, <3>2, <3>3 DEF Clear
      <3>4. CASE Own(q) # o
        BY Zenon, <3>1, <3>2, <3>4 DEF OpOnly, Is
      <3> QED  BY Zenon, <3>3, <3>4
    <2>2. CASE outcome[q] # "ok"
      <3>1. q = p
        BY Zenon, <1>2, <2>2 DEF Frame
      <3> QED  BY Zenon, <1>2, <2>2, <3>1 DEF Fails
    <2> QED  BY Zenon, <2>1, <2>2
  <1>3. ASSUME NEW q \in Run \ {p}
        PROVE  FreshSays(q)'
    <2>1. /\ pc'[q] = pc[q] /\ pc[q] \in {"discover", "obtain", "ended", "dead"}
          /\ Own(q)' = Own(q) /\ Adopted(q)' = Adopted(q) /\ FreshSays(q)
      BY Zenon DEF Frame, Idle, Own, Adopted, Life
    <2>2. op[q] = Nothing => op'[q] = Nothing
      BY Zenon DEF OpOnly
    <2>3. pc[q] \in {"discover", "obtain"} => \A r \in Run : Own(r)' # q
      <3>1. pc[q] \in {"discover", "obtain"} =>
              op[q] = Nothing /\ \A r \in Run : Own(r) # q
        BY Zenon, <2>1 DEF FreshSays, Unborn
      <3>2. \A r \in Run \ {p} : Own(r)' = Own(r)
        BY Zenon DEF Frame, Own
      <3> QED  BY Zenon, <3>1, <3>2 DEF Knowing
    <2> QED  BY Zenon, <2>1, <2>2, <2>3 DEF FreshSays, Unborn
  <1> QED  BY Zenon, <1>1, <1>2, <1>3 DEF World, CompletedStays

\* The world after a step that touches none.
LEMMA Unchanged ==
    ASSUME PathInv, Life, removals = 0, NEW p \in Run, Frame(p), Idle(p), UNCHANGED op,
           Knowing(p), Fails(p) \/ IsCleanup(p)
    PROVE  World(p)
  <1>1. OpOnly(p)
    BY Zenon DEF OpOnly, PathInv, TypeOK
  <1>2. OpSays(p)'
    BY Zenon, MissedStays DEF Life, OpSays, Is
  <1>3. Is(p, Resumable)' => Is(p, Resumable)
    BY Zenon DEF Is
  <1> QED  BY Zenon, <1>1, <1>2, <1>3, Changed

\* The lock, after a step of its holder that keeps it or gives it up.
LEMMA HoldingStep ==
    ASSUME PathInv, Life, NEW p \in Run, Frame(p), pc[p] \in HeldPC,
           \/ pc'[p] \in HeldPC /\ UNCHANGED holder /\ lockFile' # Absent
           \/ pc'[p] \notin HeldPC /\ (Unhold(p) \/ holder' = None)
    PROVE  Holding'
  <1>1. holder = p /\ lockFile # Absent /\ \A q \in Run \ {p} : pc[q] \notin HeldPC
    BY Zenon, OthersIdle DEF Idle, HeldPC
  <1>2. \A q \in Run \ {p} : pc'[q] \notin HeldPC
    BY Zenon, <1>1 DEF Frame
  <1> QED  BY Zenon, <1>1, <1>2 DEF Holding, Unhold

\* FreshSays after a step past the making of the state.
LEMMA FreshStep ==
    ASSUME PathInv, Life, NEW p \in Run, pc'[p] \notin Unborn, Own(p)' = Own(p),
           Adopted(p) => op'[p] = op[p]
    PROVE  FreshSays(p)'
  BY Zenon DEF FreshSays, Life, Adopted, Unborn

\* The record names state that is there, as the steps of its holder have it.
LEMMA RecordStep ==
    ASSUME PathInv', NEW p \in Run, pc'[p] \in HeldPC, LockSays(p)', OwnSays(p)',
           \/ pc'[p] \notin {"giveback", "release"}
           \/ lockFile' \notin Run
           \/ op'[lockFile'].place = "there"
    PROVE  RecordNamesState'
  <1>1. CASE pc'[p] \in Recorded
    <2>1. lockFile' = RecordName(p)' \/ lockFile' = Torn
      BY Zenon, <1>1 DEF LockSays
    <2>2. CASE IsCleanup(p)
      BY Zenon, <2>1, <2>2 DEF RecordNamesState, RecordName, IsCleanup
    <2>3. CASE ~IsCleanup(p)
      <3>1. pc'[p] # "row"
        BY Zenon, <2>3 DEF PathInv, PathSays, IsCleanup
      <3>2. Is(Own(p), OpState \ {"ABANDONED"})'
        BY Zenon, <1>1, <2>3, <3>1 DEF OwnSays, Recorded, Resuming, Ending, IsCleanup
      <3> QED  BY Zenon, <2>1, <2>3, <3>2 DEF RecordNamesState, RecordName, IsCleanup, Is
    <2> QED  BY Zenon, <2>2, <2>3
  <1>2. CASE pc'[p] \in Making \cup {"record", "recording", "unnaming", "removeown",
                                     "removingown"}
    BY Zenon, <1>2 DEF LockSays, RecordNamesState
  <1>3. CASE pc'[p] \in {"giveback", "release"}
    BY Zenon, <1>3 DEF RecordNamesState
  <1> QED  BY Zenon, <1>1, <1>2, <1>3 DEF HeldPC, PC, Guarded, Making, Recorded

\* Life after a last step, with the lock closed or unlinked.
LEMMA EndStep ==
    ASSUME PathInv, PathInv', Life, removals = 0, NEW p \in Run, Frame(p),
           pc[p] \in HeldPC, pc'[p] \in {"ended", "dead"}, UNCHANGED op,
           Own(p)' = Own(p), Unhold(p) \/ holder' = None, Fails(p) \/ IsCleanup(p),
           \/ UNCHANGED lockFile
           \/ lockFile' \notin Run
           \/ op[lockFile'].place = "there"
    PROVE  Life'
  <1>1. Idle(p)
    BY Zenon, OthersIdle
  <1>2. World(p)
    BY Zenon, <1>1, Unchanged DEF Knowing
  <1>3. Holding'
    BY Zenon, HoldingStep DEF HeldPC
  <1>4. RecordNamesState'
    BY Zenon DEF RecordNamesState, Life, Frame
  <1>5. LockSays(p)'
    BY Zenon DEF LockSays, Making, Recorded
  <1>6. OwnSays(p)'
    BY Zenon DEF OwnSays, Making, Resuming, Ending
  <1>7. TodoSays(p)'
    BY Zenon DEF TodoSays, Making, HeldPC
  <1>8. WaitSays(p)'
    BY SMTT(30) DEF WaitSays, Life, Fails, IsCleanup
  <1>9. FreshSays(p)'
    BY Zenon, FreshStep DEF Unborn
  <1> QED  BY Zenon, <1>1, <1>2, <1>3, <1>4, <1>5, <1>6, <1>7, <1>8, <1>9, LifeStep DEF Runs

\* Life after a step of the holder that goes on holding.
LEMMA HeldStep ==
    ASSUME PathInv, PathInv', Life, removals = 0, NEW p \in Run, Frame(p),
           pc[p] \in HeldPC, pc'[p] \in HeldPC, UNCHANGED holder,
           lockFile' # Absent, World(p), Runs(p),
           \/ pc'[p] \notin {"giveback", "release"}
           \/ lockFile' \notin Run
           \/ op'[lockFile'].place = "there"
    PROVE  Life'
  <1>1. Idle(p)
    BY Zenon, OthersIdle
  <1>2. Holding'
    BY Zenon, HoldingStep
  <1>3. RecordNamesState'
    BY Zenon, RecordStep DEF Runs
  <1> QED  BY Zenon, <1>1, <1>2, <1>3, LifeStep

\* A step of the holder that changes no operation and learns nothing.
LEMMA SameStep ==
    ASSUME PathInv, PathInv', Life, removals = 0, NEW p \in Run, Frame(p),
           pc[p] \in HeldPC, pc'[p] \in HeldPC, UNCHANGED holder,
           lockFile' # Absent, UNCHANGED <<op, job>>, Fails(p),
           pc'[p] \notin Unborn, LockSays(p)', OwnSays(p)', TodoSays(p)',
           WaitSays(p)',
           \/ pc'[p] \notin {"giveback", "release"}
           \/ UNCHANGED lockFile
           \/ lockFile' \notin Run
           \/ op[lockFile'].place = "there"
    PROVE  Life'
  <1>1. World(p)
    BY Zenon, OthersIdle, Unchanged DEF Knowing, Own
  <1>2. FreshSays(p)'
    BY Zenon, FreshStep DEF Own
  <1>3. \/ pc'[p] \notin {"giveback", "release"}
        \/ lockFile' \notin Run
        \/ op'[lockFile'].place = "there"
    BY Zenon DEF Life, RecordNamesState
  <1> QED  BY Zenon, <1>1, <1>2, <1>3, HeldStep DEF Runs

\* The holder's writes reach the lock file.
LEMMA Running ==
    ASSUME PathInv, Life, NEW p \in Run, pc[p] \in HeldPC
    PROVE  \A c : WriteLock(p, c) => lockFile' = c
  BY Zenon, OthersIdle DEF WriteLock

\* Nobody reported success for the operation a run is at work on.
LEMMA NoSuccess ==
    ASSUME PathInv, Life, removals = 0, NEW p \in Run, pc[p] \in Resuming,
           ~IsCleanup(p)
    PROVE  Clear(Own(p)) /\ outcome[p] # "ok"
  <1>1. Is(Own(p), Resumable)
    BY Zenon DEF Life, OwnSays
  <1>2. outcome[p] # "ok"
    BY Zenon DEF Life, WaitSays, Resuming
  <1> QED  BY Zenon, <1>1, <1>2 DEF Clear, Life, CompletedStays

\* A run that stops before its copy ended leaves its operation FAILED: nobody
\* has reported success for it.
LEMMA StopClear ==
    ASSUME PathInv, Life, removals = 0, NEW p \in Run, Frame(p), pc[p] \in Resuming,
           ~IsCleanup(p), Fails(p), UNCHANGED job
    PROVE  \A q \in Run : outcome'[q] = "ok" /\ ~IsCleanup(q) => Own(q)' # Own(p)'
  BY Zenon, NoSuccess DEF Clear, Frame, Fails, Own

\* The steps that make a run's own state: the lock file has no record yet.
LEMMA MakeStep ==
    ASSUME PathInv, PathInv', Life, removals = 0, NEW p \in Run, Frame(p),
           pc[p] \in Making \ {"scan", "adopt", "readopt"}, pc'[p] \in HeldPC,
           UNCHANGED <<holder, lockFile>>, OpOnly(p), OpSays(p)', Fails(p),
           Is(p, Resumable)' => Is(p, Resumable) \/ Clear(p),
           Own(p)' = Own(p) \/ Own(p)' = p,
           pc'[p] \in Unborn => UNCHANGED job /\ pc[p] \in Unborn,
           pc'[p] # "create" /\ pc'[p] \notin {"scan", "adopt", "readopt"},
           pc'[p] \in Making \cup {"record", "giveback"},
           Todo(p)' = Todo(p), OwnSays(p)'
    PROVE  Life'
  <1>1. Own(p) = None /\ lockFile \in {Empty, Torn} /\ pc[p] \in HeldPC
    BY ZenonT(30) DEF Life, OwnSays, LockSays, Making, HeldPC, PC
  <1>2. Idle(p) /\ lockFile # Absent
    BY Zenon, <1>1, OthersIdle
  <1>3. World(p)
    BY Zenon, <1>1, <1>2, Changed DEF Knowing, Making
  <1>4. LockSays(p)'
    BY Zenon, <1>1 DEF LockSays, Making, Recorded
  <1>5. WaitSays(p)'
    BY Zenon DEF Life, WaitSays, Fails, Making
  <1>6. FreshSays(p)'
    BY Zenon, <1>1 DEF Life, FreshSays, Adopted, Own, Unborn, Making
  <1>7. TodoSays(p)'
    <2>1. /\ p \notin Todo(p).abandon \cup Other(p) /\ Own(p)' \in {p, None}
          /\ Other(p)' = Other(p)
      BY Zenon, <1>1 DEF Life, TodoSays, Other
    <2>2. \A o \in Run \ {p} : op'[o] = op[o]
      BY Zenon DEF OpOnly
    <2>3. Todo(p).abandon \subseteq Run /\ Other(p) \subseteq Run
          /\ Todo(p).remove \subseteq Run
      BY ZenonT(60) DEF PathInv, TypeOK, JobType, WorkType, Todo, Other
    <2>4. Todo(p).remove \subseteq Other(p) /\ Todo(p).finish \subseteq Other(p)
      BY Zenon DEF Other
    <2>5. pc'[p] \notin {"transfer", "copy", "copying", "complete"}
      BY ZenonT(30) DEF Making
    <2>6. /\ {p, Own(p)'} \cap (Todo(p)'.abandon \cup Other(p)') = {}
          /\ \A o \in Todo(p)'.abandon : Is(o, Resumable)'
          /\ \A o \in Other(p)' : ~Is(o, Resumable)'
          /\ \A o \in Todo(p)'.remove : ~op'[o].partial
          /\ \A o \in Todo(p)'.finish : ~Is(o, {"ABANDONED"})'
          /\ Todo(p)'.abandon # {} => Flag[p] \in {"restart", "break", "cleanup"}
      BY SMTT(60), <2>1, <2>2, <2>3, <2>4 DEF Life, TodoSays, Is
    <2>7. ~IsCleanup(p) =>
             \A o \in Run \ {p, Own(p)'} : Is(o, Resumable)' => o \in Todo(p)'.abandon
      BY SMTT(60), <1>1, <2>1, <2>2 DEF Life, TodoSays, Is, Making, HeldPC, PC
    <2> QED  BY Zenon, <2>5, <2>6, <2>7 DEF TodoSays, IsCleanup
  <1> QED  BY Zenon, <1>1, <1>2, <1>3, <1>4, <1>5, <1>6, <1>7, HeldStep DEF Runs

\* Life after a run gives up before its record is written.
LEMMA Quit ==
    ASSUME PathInv, PathInv', Life, removals = 0, NEW p \in Run, Frame(p),
           pc[p] \in Making, pc'[p] = "giveback",
           UNCHANGED <<holder, lockFile, op, job>>, Fails(p)
    PROVE  Life'
  <1>1. LockSays(p)' /\ OwnSays(p)' /\ TodoSays(p)'
    BY Zenon DEF LockSays, OwnSays, TodoSays, Making, Recorded, Resuming, Ending
  <1>2. WaitSays(p)'
    BY Zenon DEF WaitSays, Life, Fails, Making
  <1> QED  BY Zenon, <1>1, <1>2, OthersIdle, SameStep
     DEF HeldPC, PC, Unborn, Making

\* The rename onto <id>, or the record's first write.
LEMMA BornStep ==
    ASSUME PathInv, PathInv', Life, removals = 0, NEW p \in Run, Frame(p),
           pc[p] \in {"create", "publish"}, UNCHANGED <<holder, lockFile>>, Fails(p),
           Wrote(p, "CREATED", FALSE), Todo(p)' = Todo(p),
           \/ pc'[p] = "giveback" /\ UNCHANGED job
           \/ pc[p] = "publish" /\ pc'[p] = "store" /\ UNCHANGED job
           \/ pc'[p] = "record" /\ Kind = "file" /\ Knows(p, p, "CREATED")
    PROVE  Life'
  <1>1. /\ OpOnly(p) /\ Is(p, {"CREATED"})' /\ ~op'[p].partial
        /\ Is(p, Resumable)'
    BY SMTT(60) DEF Wrote, Life, FreshSays, OwnSays, Nothing, Is, Resumable
  <1>2. Clear(p)
    BY Zenon DEF Life, FreshSays, Unborn, Clear
  <1>3. OpSays(p)'
    BY Zenon, <1>1 DEF OpSays, Is
  <1>4. Own(p) = None /\ (Own(p)' = Own(p) \/ Own(p)' = p)
    BY Zenon DEF Life, OwnSays, Making, Knows, Own
  <1>5. OwnSays(p)'
    <2>1. CASE pc'[p] = "giveback"
      BY Zenon, <2>1 DEF OwnSays, Making, Resuming, Ending
    <2>2. CASE pc'[p] = "store" /\ UNCHANGED job
      BY Zenon, <1>1, <1>4, <2>2 DEF OwnSays, Making, Resuming, Ending, Own
    <2>3. CASE pc'[p] = "record" /\ Kind = "file" /\ Knows(p, p, "CREATED")
      BY Zenon, <1>1, <2>3 DEF OwnSays, Making, Resuming, Ending, Own, Adopted, Knows, Is,
         Resumable, OpState
    <2> QED  BY Zenon, <2>1, <2>2, <2>3
  <1>6. /\ pc'[p] \in HeldPC /\ pc'[p] \notin Unborn
        /\ pc'[p] \in Making \cup {"record", "giveback"}
        /\ pc'[p] # "create" /\ pc'[p] \notin {"scan", "adopt", "readopt"}
        /\ pc[p] \in Making \ {"scan", "adopt", "readopt"}
    BY Zenon DEF Making, Unborn, HeldPC, PC
  <1> QED  BY ZenonT(30), <1>1, <1>2, <1>3, <1>4, <1>5, <1>6, MakeStep

\* The steps on the state a run works on.
LEMMA OwnStep ==
    ASSUME PathInv, PathInv', Life, removals = 0, NEW p \in Run, Frame(p),
           pc[p] \in HeldPC, pc'[p] \in HeldPC, UNCHANGED <<holder, lockFile>>,
           NEW o \in Run, Own(p) = o, Own(p)' = o, op[o].place # Absent, OpOnly(o),
           OpSays(o)', Is(o, Resumable)' => Is(o, Resumable) \/ Clear(o),
           Fails(p) \/ ~Is(o, Resumable)',
           LockSays(p)', OwnSays(p)', WaitSays(p)', TodoSays(p)',
           pc'[p] \in Unborn => /\ UNCHANGED job /\ pc[p] \in {"adopt", "readopt"}
                                /\ pc'[p] \in {"adopt", "readopt"} /\ o # p,
           \/ pc'[p] \notin {"giveback", "release"}
           \/ lockFile \notin Run
           \/ op'[lockFile].place = "there"
    PROVE  Life'
  <1>1. Idle(p) /\ lockFile # Absent
    BY Zenon, OthersIdle
  <1>2. op[o] # Nothing
    BY SMTT(30) DEF Nothing
  <1>3. World(p)
    BY Zenon, <1>1, <1>2, Changed DEF Knowing
  <1>4. Adopted(p) => op'[p] = op[p]
    BY Zenon DEF Adopted, OpOnly
  <1>5. FreshSays(p)'
    <2>1. CASE pc'[p] \notin Unborn
      BY ZenonT(30), <1>4, <2>1, FreshStep
    <2>2. CASE pc'[p] \in Unborn
      BY SMTT(60), <1>4, <2>2 DEF Life, FreshSays, Unborn, Own, Adopted, OpOnly
    <2> QED  BY Zenon, <2>1, <2>2
  <1> QED  BY Zenon, <1>1, <1>3, <1>5, HeldStep DEF Runs

Planning == Making \cup {"record", "recording", "takeover", "work", "row"}
Settled  == HeldPC \ {"scan", "giveback", "fail", "release"}
Copying  == {"transfer", "copy", "copying", "complete"}

\* TodoSays after a step that touches only the run's own operation.
LEMMA TodoOwn ==
    ASSUME PathInv, Life, NEW p \in Run, NEW o \in Run, Own(p) = o, Own(p)' = o,
           OpOnly(o), Todo(p)' = Todo(p),
           pc'[p] \in Planning => pc[p] \in Planning,
           pc'[p] \in Settled => pc[p] \in Settled,
           pc'[p] \in Copying => pc[p] \in Copying
    PROVE  TodoSays(p)'
  <1>1. /\ Other(p)' = Other(p) /\ Todo(p).remove \subseteq Other(p)
        /\ Todo(p).finish \subseteq Other(p)
    BY Zenon DEF Other
  <1>2. Todo(p).abandon \subseteq Run /\ Other(p) \subseteq Run
    BY Zenon DEF PathInv, TypeOK, JobType, WorkType, Todo, Other
  <1>3. \A x \in Run \ {o} : op'[x] = op[x]
    BY Zenon DEF OpOnly
  <1>4. pc'[p] \in Planning =>
          /\ {p, Own(p)'} \cap (Todo(p)'.abandon \cup Other(p)') = {}
          /\ \A x \in Todo(p)'.abandon : Is(x, Resumable)'
          /\ \A x \in Other(p)' : ~Is(x, Resumable)'
          /\ \A x \in Todo(p)'.remove : ~op'[x].partial
          /\ \A x \in Todo(p)'.finish : ~Is(x, {"ABANDONED"})'
          /\ Todo(p)'.abandon # {} => Flag[p] \in {"restart", "break", "cleanup"}
    BY SMTT(60), <1>1, <1>2, <1>3 DEF Life, TodoSays, Planning, Is
  <1>5. pc'[p] \in Settled /\ ~IsCleanup(p) =>
          \A x \in Run \ {p, Own(p)'} : Is(x, Resumable)' => x \in Todo(p)'.abandon
    BY ZenonT(90), <1>3 DEF Life, TodoSays, Settled, Is
  <1>6. pc'[p] \in Copying => Todo(p)'.abandon = {}
    BY Zenon DEF Life, TodoSays, Copying
  <1> QED  BY Zenon, <1>4, <1>5, <1>6 DEF TodoSays, Planning, Settled, Copying, IsCleanup

\* No operation changes its mind when none is touched.
LEMMA SameOp ==
    ASSUME PathInv, Life, NEW p \in Run, Frame(p), NEW o \in Run, UNCHANGED op
    PROVE  /\ OpOnly(o) /\ OpSays(o)' /\ (Is(o, Resumable)' => Is(o, Resumable))
  <1>1. OpOnly(o)
    BY Zenon DEF OpOnly, PathInv, TypeOK
  <1> QED  BY Zenon, <1>1, MissedStays DEF Life, OpSays, Is

\* A run's own state before its copy ended: it may be written, or not.
LEMMA Working ==
    ASSUME PathInv, Life, NEW p \in Run, pc[p] \in Resuming, ~IsCleanup(p)
    PROVE  /\ Own(p) \in Run /\ Is(Own(p), Resumable) /\ job[p].mem \in Resumable
           /\ op[Own(p)].place # Absent /\ pc[p] \in HeldPC
           /\ Kind = "tree" => op[Own(p)].store = "ok"
           /\ pc[p] \notin {"copying", "complete"} /\ ~Adopted(p) => ~op[p].partial
           /\ pc[p] \notin {"record", "recording"} => lockFile \in {Own(p), Torn}
    BY ZenonT(60) DEF PathInv, PathSays, Life, OwnSays, LockSays, Recorded, RecordName, Resuming,
       HeldPC, PC, Guarded, Is, Absent

\* A write of a resumable state to it keeps what is said of it.
LEMMA ResumableWrite ==
    ASSUME PathInv, Life, NEW p \in Run, pc[p] \in Resuming, ~IsCleanup(p), Frame(p),
           NEW o \in Run, Own(p) = o, NEW s \in Resumable,
           UNCHANGED op \/ Wrote(o, s, FALSE)
    PROVE  /\ OpOnly(o) /\ OpSays(o)' /\ Is(o, Resumable)' /\ Is(o, Resumable)
           /\ op'[o].partial = op[o].partial /\ op'[o].store = op[o].store
           /\ op'[o].place = "there"
  <1>1. /\ Is(o, Resumable) /\ (Kind = "tree" => op[o].store = "ok")
    BY Zenon, Working
  <1>2. /\ OpOnly(o) /\ Is(o, Resumable)'
        /\ op'[o].partial = op[o].partial /\ op'[o].store = op[o].store
    BY Zenon, <1>1 DEF Wrote, Is, OpOnly, PathInv, TypeOK
  <1> QED  BY Zenon, <1>1, <1>2 DEF OpSays, Is, Resumable

\* stop_after_record of a run that works on o, its state written or not.
LEMMA StopStep ==
    ASSUME PathInv, PathInv', Life, removals = 0, NEW p \in Run, Frame(p),
           pc[p] \in Resuming \ {"record", "recording"}, ~IsCleanup(p),
           pc'[p] = "fail", UNCHANGED <<holder, lockFile, job>>, Fails(p),
           NEW o \in Run, Own(p) = o, OpOnly(o), OpSays(o)',
           op'[o].store = op[o].store, Is(o, OpState \ {"ABANDONED"})'
    PROVE  Life'
  <1>1. Own(p)' = o /\ Todo(p)' = Todo(p)
    BY Zenon DEF Own, Todo
  <1>2. /\ Is(o, Resumable) /\ op[o].place # Absent /\ pc[p] \in HeldPC
        /\ Kind = "tree" => op[o].store = "ok"
        /\ lockFile \in {o, Torn}
    BY Zenon, Working
  <1>3. LockSays(p)'
    BY Zenon, <1>1, <1>2 DEF LockSays, Making, Recorded, RecordName, IsCleanup
  <1>4. OwnSays(p)'
    <2>1. \A q \in Run : outcome'[q] = "ok" /\ ~IsCleanup(q) => Own(q)' # Own(p)'
      BY Zenon, StopClear
    <2> QED
      BY Zenon, <1>1, <1>2, <2>1 DEF OwnSays, Making, Resuming, Ending, IsCleanup
  <1>5. WaitSays(p)'
    BY Zenon DEF WaitSays, Life, Fails, Resuming
  <1>6. TodoSays(p)'
    BY Zenon, <1>1, TodoOwn DEF Planning, Settled, Copying, Making
  <1> QED
    BY Zenon, <1>1, <1>2, <1>3, <1>4, <1>5, <1>6, OwnStep DEF HeldPC, PC, Guarded, Unborn

\* The calls on another operation.
LEMMA OtherStep ==
    ASSUME PathInv, PathInv', Life, removals = 0, NEW p \in Run, Frame(p),
           pc[p] = "work", UNCHANGED <<holder, lockFile>>, Fails(p), JobOnly(p),
           job'[p].id = job[p].id, job'[p].mem = job[p].mem,
           NEW o \in Run, o # p, o # Own(p), OpOnly(o), OpSays(o)',
           Is(o, Resumable)' => Is(o, Resumable),
           op[o] # Nothing \/ op'[o] = Nothing, TodoSays(p)',
           \/ pc'[p] = "work"
           \/ pc'[p] = "fail" /\ ~IsCleanup(p) /\ UNCHANGED job
    PROVE  Life'
  <1>1. Idle(p) /\ lockFile # Absent /\ pc[p] \in HeldPC /\ pc'[p] \in HeldPC
    BY Zenon, OthersIdle DEF HeldPC, PC, Guarded
  <1>2. Own(p)' = Own(p)
    BY Zenon DEF Own
  <1>3. World(p)
    BY Zenon, <1>1, <1>2, Changed DEF Knowing
  <1>4. op'[p] = op[p] /\ (Own(p) \in Run => op'[Own(p)] = op[Own(p)])
    BY Zenon DEF OpOnly
  <1>5. LockSays(p)'
    BY Zenon, <1>2 DEF Life, LockSays, Making, Recorded, RecordName, IsCleanup
  <1>6. OwnSays(p)'
    <2>1. CASE IsCleanup(p)
      BY Zenon, <2>1 DEF OwnSays, Making, Resuming, Ending, IsCleanup
    <2>2. CASE ~IsCleanup(p)
      <3>1. /\ Own(p) \in Run /\ Is(Own(p), Resumable)' /\ job'[p].mem \in Resumable
            /\ Kind = "tree" => op'[Own(p)].store = "ok"
            /\ ~Adopted(p) => ~op'[p].partial
        BY ZenonT(60), <1>2, <1>4, <2>2, Working DEF Resuming, Is
      <3>2. CASE pc'[p] = "work"
        BY Zenon, <1>2, <3>1, <3>2
           DEF OwnSays, Making, Resuming, Ending, Is, OpState, Resumable, Adopted
      <3>3. CASE pc'[p] = "fail" /\ UNCHANGED job
        <4>1. \A q \in Run : outcome'[q] = "ok" /\ ~IsCleanup(q) => Own(q)' # Own(p)'
          BY Zenon, <2>2, <3>3, StopClear DEF Resuming
        <4> QED
          BY Zenon, <1>2, <3>1, <3>3, <4>1
             DEF OwnSays, Making, Resuming, Ending, Is, OpState, Resumable, IsCleanup
      <3> QED  BY Zenon, <3>2, <3>3
    <2> QED  BY Zenon, <2>1, <2>2
  <1>7. WaitSays(p)'
    BY Zenon DEF WaitSays, Life, Fails
  <1>8. FreshSays(p)'
    BY Zenon, <1>2, <1>4, FreshStep DEF Unborn
  <1> QED  BY Zenon, <1>1, <1>3, <1>5, <1>6, <1>7, <1>8, HeldStep DEF Runs

\* What is left to do after such a call.
LEMMA TodoOther ==
    ASSUME PathInv, PathInv', Life, NEW p \in Run, pc[p] = "work", pc'[p] = "work",
           NEW o \in Run, OpOnly(o), Own(p)' = Own(p), o # p, o # Own(p),
           \/ Todo(p)'.abandon = Todo(p).abandon
           \/ Todo(p)'.abandon = Todo(p).abandon \ {o},
           Other(p)' \subseteq Other(p) \cup {o},
           Todo(p)'.remove \subseteq Todo(p).remove \cup {o},
           Todo(p)'.finish \subseteq Todo(p).finish,
           o \in Todo(p)'.abandon => Is(o, Resumable)',
           IsCleanup(p) \/ (Is(o, Resumable)' => o \in Todo(p)'.abandon),
           o \in Other(p)' => ~Is(o, Resumable)',
           o \in Todo(p)'.remove => ~op'[o].partial,
           o \in Todo(p)'.finish => ~Is(o, {"ABANDONED"})'
    PROVE  TodoSays(p)'
  <1>1. \A x \in Run \ {o} : op'[x] = op[x]
    BY Zenon DEF OpOnly
  <1>2. Todo(p).abandon \subseteq Run /\ Other(p) \subseteq Run
        /\ Todo(p).remove \subseteq Run /\ Todo(p).finish \subseteq Run
    BY ZenonT(60) DEF PathInv, TypeOK, JobType, WorkType, Todo, Other
  <1>3. /\ {p, Own(p)} \cap (Todo(p).abandon \cup Other(p)) = {}
        /\ \A x \in Todo(p).abandon : Is(x, Resumable)
        /\ \A x \in Other(p) : ~Is(x, Resumable)
        /\ \A x \in Todo(p).remove : ~op[x].partial
        /\ \A x \in Todo(p).finish : ~Is(x, {"ABANDONED"})
        /\ Todo(p).abandon # {} => Flag[p] \in {"restart", "break", "cleanup"}
        /\ ~IsCleanup(p) =>
             \A x \in Run \ {p, Own(p)} : Is(x, Resumable) => x \in Todo(p).abandon
    BY Zenon DEF Life, TodoSays, HeldPC, PC, Guarded
  <1>4. /\ {p, Own(p)'} \cap (Todo(p)'.abandon \cup Other(p)') = {}
        /\ Todo(p)'.abandon # {} => Flag[p] \in {"restart", "break", "cleanup"}
    BY Zenon, <1>3
  <1>5. \A x \in Todo(p)'.abandon : Is(x, Resumable)'
    BY ZenonT(90), <1>1, <1>2, <1>3 DEF Is
  <1>6. \A x \in Other(p)' : ~Is(x, Resumable)'
    BY ZenonT(60), <1>1, <1>2, <1>3 DEF Is
  <1>7. \A x \in Todo(p)'.remove : ~op'[x].partial
    BY Zenon, <1>1, <1>2, <1>3
  <1>8. \A x \in Todo(p)'.finish : ~Is(x, {"ABANDONED"})'
    BY ZenonT(90), <1>1, <1>2, <1>3 DEF Is
  <1>9. ~IsCleanup(p) =>
          \A x \in Run \ {p, Own(p)'} : Is(x, Resumable)' => x \in Todo(p)'.abandon
    BY ZenonT(60), <1>1, <1>3 DEF Is
  <1> QED  BY Zenon, <1>4, <1>5, <1>6, <1>7, <1>8, <1>9 DEF TodoSays, IsCleanup

\* What the lists of the work say of the operations in them.
LEMMA WorkFacts ==
    ASSUME PathInv, Life, NEW p \in Run, pc[p] = "work"
    PROVE  /\ {p, Own(p)} \cap (Todo(p).abandon \cup Other(p)) = {}
           /\ \A x \in Todo(p).abandon : Is(x, Resumable)
           /\ \A x \in Other(p) : ~Is(x, Resumable)
           /\ \A x \in Todo(p).remove : ~op[x].partial
           /\ \A x \in Todo(p).finish : ~Is(x, {"ABANDONED"})
  BY Zenon DEF Life, TodoSays

\* A call on an operation that is not resumable, and leaves it so.
LEMMA FinalStep ==
    ASSUME PathInv, PathInv', Life, removals = 0, NEW p \in Run, Frame(p),
           pc[p] = "work", pc'[p] = "work", UNCHANGED <<holder, lockFile, outcome>>,
           WorkOnly(p), NEW o \in Run, o \in Other(p), OpOnly(o), OpSays(o)',
           ~Is(o, Resumable)', op[o] # Nothing \/ op'[o] = Nothing,
           Is(o, {"ABANDONED"})' => Is(o, {"ABANDONED"}),
           Todo(p)'.abandon = Todo(p).abandon, Other(p)' \subseteq Other(p) \cup {o},
           Todo(p)'.remove \subseteq Todo(p).remove \cup {o},
           Todo(p)'.finish \subseteq Todo(p).finish,
           o \in Todo(p)'.remove => ~op'[o].partial
    PROVE  Life'
  <1>1. /\ o # p /\ o # Own(p) /\ ~Is(o, Resumable) /\ o \notin Todo(p).abandon
        /\ o \in Todo(p).finish => ~Is(o, {"ABANDONED"})
    BY Zenon, WorkFacts
  <1>2. Own(p)' = Own(p)
    BY Zenon DEF WorkOnly, Own
  <1>3. TodoSays(p)'
    BY Zenon, <1>1, <1>2, TodoOther
  <1>4. JobOnly(p) /\ job'[p].id = job[p].id /\ job'[p].mem = job[p].mem
    BY Zenon DEF WorkOnly
  <1> QED  BY Zenon, <1>1, <1>3, <1>4, OtherStep DEF Fails

\* Sweeping a temporary keeps what is said of its operation.
LEMMA StagedSays ==
    ASSUME PathInv, Life, NEW p \in Run, Frame(p), NEW o \in Run, Staged(o, FALSE)
    PROVE  /\ OpOnly(o) /\ OpSays(o)' /\ ~op'[o].partial
           /\ op[o] # Nothing \/ op'[o] = Nothing
           /\ Is(o, Resumable)' <=> Is(o, Resumable)
           /\ Is(o, {"ABANDONED"})' <=> Is(o, {"ABANDONED"})
  <1>1. /\ OpOnly(o) /\ op'[o].place = op[o].place /\ op'[o].manifest = op[o].manifest
        /\ op'[o].store = op[o].store /\ op'[o].partial = FALSE
        /\ op'[o].recorded = op[o].recorded
    BY Zenon DEF Staged
  <1>2. op[o] = Nothing => op'[o] = Nothing
    <2>1. op'[o] \in OpType
      BY Zenon, <1>1 DEF OpOnly
    <2>2. op'[o] = [place |-> op'[o].place, manifest |-> op'[o].manifest,
                    store |-> op'[o].store, partial |-> op'[o].partial,
                    recorded |-> op'[o].recorded]
      BY Zenon, <2>1 DEF OpType
    <2>3. op[o] = Nothing =>
            /\ op[o].place = Absent /\ op[o].manifest = None /\ op[o].store = None
            /\ op[o].recorded = FALSE
      BY SMTT(30) DEF Nothing
    <2> QED  BY Zenon, <1>1, <2>2, <2>3 DEF Nothing
  <1>3. OpSays(o)'
    BY Zenon, <1>1 DEF Life, OpSays, Is
  <1> QED  BY Zenon, <1>1, <1>2, <1>3 DEF Is

\* Retiring an operation with no temporary to name keeps what is said of it.
LEMMA GoneSays ==
    ASSUME PathInv, Life, NEW p \in Run, Frame(p), NEW o \in Run,
           Placed(o, "removing") \/ Emptied(o), op[o].partial => Missed(o)
    PROVE  /\ OpOnly(o) /\ OpSays(o)' /\ ~Is(o, Resumable)' /\ ~Is(o, {"ABANDONED"})'
           /\ op'[o].partial = op[o].partial
  <1>1. OpOnly(o) /\ op'[o].place # "there" /\ op'[o].partial = op[o].partial
    BY Zenon DEF Placed, Emptied, Absent
  <1> QED  BY Zenon, <1>1, MissedStays DEF OpSays, Is

\* Life after an operation is dropped from the work, untouched.
LEMMA SameFinal ==
    ASSUME PathInv, PathInv', Life, removals = 0, NEW p \in Run, Frame(p),
           pc[p] = "work", pc'[p] = "work", UNCHANGED <<holder, lockFile, outcome, op>>,
           NEW o \in Run, o \in Other(p), NEW from \in Phase \ {"abandon"},
           Dropped(p, o, from)
    PROVE  Life'
  <1>1. /\ WorkOnly(p) /\ Todo(p)'.abandon = Todo(p).abandon
        /\ Other(p)' \subseteq Other(p) /\ Todo(p)'.remove \subseteq Todo(p).remove
        /\ Todo(p)'.finish \subseteq Todo(p).finish
    BY Zenon DEF Dropped
  <1>2. OpOnly(o) /\ OpSays(o)'
    BY Zenon, SameOp
  <1>3. ~Is(o, Resumable)' /\ (o \in Todo(p).remove => ~op[o].partial)
    BY Zenon, WorkFacts DEF Is
  <1>4. Is(o, {"ABANDONED"})' => Is(o, {"ABANDONED"})
    BY Zenon DEF Is
  <1> QED  BY Zenon, <1>1, <1>2, <1>3, <1>4, FinalStep

\* The rename of a workspace, or its removal.
LEMMA RetireStep ==
    ASSUME PathInv, PathInv', Life, removals = 0, NEW p \in Run, Frame(p),
           pc[p] = "work", pc'[p] = "work", UNCHANGED <<holder, lockFile, outcome>>,
           NEW o \in Run, o \in Other(p), op[o].place # Absent,
           op[o].partial => Missed(o), NEW from \in Phase \ {"abandon"},
           \/ Placed(o, "removing") /\ Passed(p, o, from, "retiring")
           \/ Emptied(o) /\ Dropped(p, o, from)
    PROVE  Life'
  <1>1. /\ WorkOnly(p) /\ Todo(p)'.abandon = Todo(p).abandon
        /\ Other(p)' \subseteq Other(p) \cup {o}
        /\ Todo(p)'.remove \subseteq Todo(p).remove
        /\ Todo(p)'.finish \subseteq Todo(p).finish
    BY Zenon DEF Dropped, Passed
  <1>2. o \in Todo(p).remove => ~op[o].partial
    BY Zenon, WorkFacts
  <1>3. op[o] # Nothing
    BY SMTT(30) DEF Nothing
  <1> QED  BY Zenon, <1>1, <1>2, <1>3, GoneSays, FinalStep

\* The lists of NoWork are empty.
LEMMA NoWorkIs ==
    /\ NoWork.abandon = {} /\ NoWork.sweep = {} /\ NoWork.keep = {} /\ NoWork.remove = {}
    /\ NoWork.retiring = {} /\ NoWork.finish = {} /\ NoWork.debris = {}
  BY Zenon DEF NoWork

\* Life after a step of a run that does not hold the lock.
LEMMA IdleStep ==
    ASSUME PathInv, Life, removals = 0, NEW p \in Run, Frame(p), Fails(p),
           pc[p] \in {"discover", "obtain"}, pc'[p] \in {"obtain", "ended"},
           UNCHANGED <<holder, lockFile, op>>, job'[p].id = job[p].id,
           job'[p].mem = job[p].mem, job'[p].work = job[p].work
    PROVE  Life'
  <1>1. ASSUME NEW q \in Run
        PROVE  /\ Own(q)' = Own(q) /\ Todo(q)' = Todo(q) /\ job'[q].mem = job[q].mem
               /\ Adopted(q)' = Adopted(q)
               /\ outcome'[q] = "ok" => outcome[q] = "ok"
    BY Zenon DEF Frame, Own, Todo, Adopted, Fails
  <1>2. ASSUME NEW q \in Run
        PROVE  \/ q # p /\ pc'[q] = pc[q]
               \/ /\ q = p /\ pc'[q] \in {"obtain", "ended"}
                  /\ pc[q] \in {"discover", "obtain"}
    BY Zenon DEF Frame
  <1>3. Holding'
    BY ZenonT(60), <1>2 DEF Life, Holding, HeldPC, PC
  <1>4. RecordNamesState' /\ CompletedStays'
    BY ZenonT(60), <1>1 DEF Life, RecordNamesState, CompletedStays, Is, IsCleanup, Frame
  <1>5. ASSUME NEW q \in Run
        PROVE  LockSays(q)'
    BY Zenon, <1>1, <1>2 DEF Life, LockSays, Making, Recorded, RecordName, IsCleanup
  <1>6. ASSUME NEW q \in Run
        PROVE  WaitSays(q)'
    BY SMTT(60), <1>1, <1>2 DEF Life, WaitSays, IsCleanup
  <1>7. ASSUME NEW q \in Run
        PROVE  FreshSays(q)'
    BY SMTT(30), <1>1, <1>2 DEF Life, FreshSays, Unborn
  <1>8. ASSUME NEW q \in Run
        PROVE  OwnSays(q)'
    <2>1. CASE q = p
      BY Zenon, <1>2, <2>1 DEF OwnSays, Making, Resuming, Ending
    <2>2. CASE q # p
      <3>1. OwnSays(q) /\ UNCHANGED op /\ pc'[q] = pc[q]
        BY Zenon, <1>2, <2>2 DEF Life
      <3>2. /\ Own(q)' = Own(q) /\ job'[q].mem = job[q].mem
            /\ Adopted(q)' = Adopted(q) /\ IsCleanup(q)' = IsCleanup(q)
        BY Zenon, <1>1 DEF IsCleanup
      <3>3. pc'[q] = "fail" =>
              \A r \in Run : outcome'[r] = "ok" /\ ~IsCleanup(r)' => Own(r)' # Own(q)'
        <4>1. pc[q] = "fail" =>
                \A r \in Run : outcome[r] = "ok" /\ ~IsCleanup(r) => Own(r) # Own(q)
          BY Zenon, <3>1 DEF OwnSays
        <4>2. \A r \in Run : Own(r)' = Own(r) /\ (outcome'[r] = "ok" => outcome[r] = "ok")
          BY Zenon, <1>1
        <4> QED  BY ZenonT(60), <3>1, <3>2, <4>1, <4>2 DEF IsCleanup
      <3> QED  BY SMTT(60), <3>1, <3>2, <3>3 DEF OwnSays, Is
    <2> QED  BY Zenon, <2>1, <2>2
  <1>9. ASSUME NEW q \in Run
        PROVE  TodoSays(q)'
    <2>1. CASE q = p
      BY Zenon, <1>2, <2>1 DEF TodoSays, Making, HeldPC
    <2>2. CASE q # p
      <3>1. Other(q)' = Other(q)
        BY Zenon, <1>1 DEF Other
      <3> QED  BY ZenonT(90), <1>1, <1>2, <2>2, <3>1 DEF Life, TodoSays, Is, IsCleanup
    <2> QED  BY Zenon, <2>1, <2>2
  <1>10. ASSUME NEW o \in Run
         PROVE  OpSays(o)'
    BY Zenon, MissedStays DEF Life, OpSays, Is
  <1> QED  BY Zenon, <1>3, <1>4, <1>5, <1>6, <1>7, <1>8, <1>9, <1>10 DEF Life

\* Life depends on nothing else.
LEMMA SameLife ==
    ASSUME Life, UNCHANGED <<holder, lockFile, op, pc, job, outcome, removals>>
    PROVE  Life'
  <1>1. ASSUME NEW q \in Run
        PROVE  /\ Own(q)' = Own(q) /\ Todo(q)' = Todo(q) /\ Other(q)' = Other(q)
               /\ Adopted(q)' = Adopted(q)
    BY Zenon DEF Own, Todo, Other, Adopted
  <1>2. Holding' /\ RecordNamesState' /\ CompletedStays'
    BY Zenon, <1>1 DEF Life, Holding, RecordNamesState, CompletedStays, Is
  <1>3. ASSUME NEW q \in Run
        PROVE  LockSays(q)' /\ WaitSays(q)' /\ FreshSays(q)'
    <2>1. LockSays(q) /\ WaitSays(q) /\ FreshSays(q)
      BY Zenon DEF Life
    <2>2. LockSays(q)'
      BY SMTT(30), <1>1, <2>1 DEF LockSays, RecordName
    <2>3. WaitSays(q)'
      BY SMTT(30), <1>1, <2>1 DEF WaitSays
    <2>4. FreshSays(q)'
      BY SMTT(30), <1>1, <2>1 DEF FreshSays
    <2> QED  BY Zenon, <2>2, <2>3, <2>4
  <1>4. ASSUME NEW q \in Run
        PROVE  OwnSays(q)'
    <2>1. OwnSays(q)
      BY Zenon DEF Life
    <2> QED  BY ZenonT(120), <1>1, <2>1 DEF OwnSays, Is
  <1>5. ASSUME NEW q \in Run
        PROVE  TodoSays(q)' /\ OpSays(q)'
    <2>1. Missed(q)' = Missed(q)
      BY Zenon, <1>1 DEF Missed
    <2>2. TodoSays(q)'
      <3>1. TodoSays(q) /\ UNCHANGED <<op, pc>>
        BY Zenon DEF Life
      <3> QED  BY SMTT(30), <1>1, <3>1 DEF TodoSays, Is, IsCleanup
    <2>3. OpSays(q)'
      <3>1. OpSays(q) /\ op'[q] = op[q]
        BY Zenon DEF Life
      <3> QED  BY SMTT(30), <2>1, <3>1 DEF OpSays, Is
    <2> QED  BY Zenon, <2>2, <2>3
  <1> QED  BY Zenon, <1>2, <1>3, <1>4, <1>5 DEF Life

Kept(o) ==
    /\ Is(o, {"ABANDONED"}) /\ op'[o].place = "there" => op'[o].manifest = "ABANDONED"
    /\ Is(o, Resumable) =>
         \/ Is(o, Resumable)'
         \/ /\ Is(o, {"COMPLETED"})'
            /\ \E p \in Run : pc[p] = "complete" /\ Own(p) = o
         \/ /\ Is(o, {"ABANDONED"})'
            /\ \E p \in Run : /\ Flag[p] \in {"restart", "break", "cleanup"}
                               /\ pc[p] = "work" /\ Own(p) # o
         \/ op'[o].place # "there" /\ pc[o] \in {"removeown", "unmake"}

\* A step that writes no manifest and moves no state keeps it, and so does one
\* that writes to an operation that is not published.
LEMMA KeptCalls ==
    ASSUME NEW o \in Run
    PROVE  /\ UNCHANGED op => Kept(o)
           /\ op'[o].place = op[o].place /\ op'[o].manifest = op[o].manifest => Kept(o)
           /\ op[o].place # "there" => Kept(o)
           /\ ~Is(o, Resumable) /\ op'[o].place # "there" => Kept(o)
           /\ Is(o, Resumable) /\ Is(o, Resumable)' => Kept(o)
           /\ Is(o, OpState \ {"ABANDONED"}) /\ Is(o, Resumable)' => Kept(o)
  BY Zenon DEF Kept, Is, Resumable, OpState

\* A step that touches one operation is judged by that one.
LEMMA KeptAll ==
    ASSUME NEW o \in Run, OpOnly(o), Kept(o)
    PROVE  \A x \in Run : Kept(x)
  BY Zenon, KeptCalls DEF OpOnly

\* What every step of a run is shown to do: it leaves the other runs alone, keeps
\* PathInv and, while no lock was removed by hand, Life and recorded progress.
Good(p) ==
    /\ Frame(p) /\ PathInv'
    /\ Life /\ removals = 0 => Life' /\ \A x \in Run : Kept(x)

-----------------------------------------------------------------------------
\* How a run finds, adopts or makes the state it works on.  One lemma per action: what
\* the action does (<1>1), that it leaves the other runs alone (<1>2), and that it
\* keeps PathInv (<1>3), Life (<1>4) and every operation's progress (<1>5).

\* Obtain keeps the invariant and every operation's progress.
LEMMA Obtain_step ==
    ASSUME PathInv, NEW p \in Run, Obtain(p)
    PROVE  Good(p)
  <1>1. /\ pc[p] = "obtain" /\ UNCHANGED op
        /\ \/ /\ lockFile = Absent \/ holder = None
              /\ holder' = p /\ lockFile' = Empty /\ UNCHANGED <<job, outcome>>
              /\ pc'[p] = IF IsCleanup(p) THEN "record" ELSE "scan"
           \/ /\ holder = None /\ holder' = p
              /\ lockFile \in {Empty, Torn} /\ UNCHANGED <<lockFile, outcome>>
              /\ Flag[p] = "break" /\ pc'[p] = "scan"
              /\ JobOnly(p) /\ job'[p].id = job[p].id /\ job'[p].mem = job[p].mem
              /\ job'[p].work = job[p].work
           \/ pc'[p] = "ended" /\ Fails(p) /\ UNCHANGED <<holder, lockFile, job>>
    <2>1. job' = [job EXCEPT ![p].claimed = TRUE] =>
            /\ JobOnly(p) /\ job'[p].id = job[p].id /\ job'[p].mem = job[p].mem
            /\ job'[p].work = job[p].work
      BY Zenon, ClaimEffect DEF PathInv, TypeOK
    <2>2. Goto(p, IF IsCleanup(p) THEN "record" ELSE "scan") =>
            pc'[p] = IF IsCleanup(p) THEN "record" ELSE "scan"
      BY Zenon, GotoIs DEF PC
    <2>3. /\ Goto(p, "scan") => pc'[p] = "scan"
          /\ Goto(p, "ended") => pc'[p] = "ended"
          /\ Report(p, "refused") => Fails(p)
      BY Zenon, GotoIs, ReportFails DEF PC
    <2> QED  BY Zenon, <2>1, <2>2, <2>3 DEF Obtain
  <1>2. Frame(p)
    <2>1. op' \in [Run -> OpType]
      BY Zenon DEF TypeOK, PathInv, Obtain
    <2>2. Learned(p)
      BY Zenon, ClaimEffect DEF TypeOK, PathInv, Obtain, Learned, JobOnly
    <2>3. Moved(p)
      BY Zenon, GotoEffect DEF PathInv, Obtain, PC, Guarded
    <2>4. Reported(p)
      BY Zenon, ReportEffect DEF TypeOK, PathInv, Obtain, Reported
    <2>5. Rest
      BY Zenon DEF TypeOK, PathInv, Obtain, NoFault, Rest
    <2> QED  BY Zenon, <2>1, <2>2, <2>3, <2>4, <2>5, FrameParts DEF PathInv
  <1>3. PathInv'
    <2>1. PublishedHasManifest'
      BY Zenon, <1>1, ManifestCalls DEF OpState, Resumable
    <2>2. Goes(p)
      BY Zenon, <1>1, AtPath, KeepsCalls DEF Goes, Keeps, Own, IsCleanup
    <2> QED  BY Zenon, <2>1, <2>2, <1>2, PathStep
  <1>4. Life /\ removals = 0 => Life'
    <2> SUFFICES ASSUME Life, removals = 0
                 PROVE  Life'
      OBVIOUS
    <2>1. CASE pc'[p] = "ended" /\ Fails(p) /\ UNCHANGED <<holder, lockFile, job>>
      BY Zenon, <2>1, <1>1, <1>2, IdleStep
    <2>2. CASE /\ holder = None /\ holder' = p /\ lockFile' \in {Empty, Torn}
               /\ pc'[p] = IF IsCleanup(p) THEN "record" ELSE "scan"
               /\ UNCHANGED outcome /\ job'[p].id = job[p].id
               /\ job'[p].mem = job[p].mem /\ job'[p].work = job[p].work
      <3>1. /\ pc[p] = "obtain" /\ UNCHANGED op /\ Frame(p) /\ PathInv' /\ Idle(p)
            /\ Fails(p)
        BY Zenon, <2>2, <1>1, <1>2, <1>3, NoneIdle DEF Fails
      <3>2. Own(p)' = Own(p) /\ Todo(p)' = Todo(p) /\ Own(p) = None /\ Todo(p) = NoWork
        BY Zenon, <2>2, <3>1 DEF Own, Todo, Life, WaitSays
      <3>3. Holding'
        <4>1. ASSUME NEW q \in Run
              PROVE  holder' = q <=> pc'[q] \in HeldPC
          BY ZenonT(60), <2>2, <3>1 DEF Frame, Idle, HeldPC, PC, Guarded
        <4>2. lockFile' # Absent
          BY Zenon, <2>2 DEF Empty, Torn, Absent
        <4> QED  BY Zenon, <4>1, <4>2 DEF Holding
      <3>4. RecordNamesState'
        BY Zenon, <2>2 DEF RecordNamesState
      <3>5. World(p)
        BY Zenon, <3>1, <3>2, Unchanged DEF Knowing
      <3>6. LockSays(p)' /\ WaitSays(p)'
        BY Zenon, <2>2, <3>1, <3>2 DEF LockSays, WaitSays, Making, Recorded, Life, IsCleanup
      <3>7. FreshSays(p)'
        <4>1. \A q \in Run : Own(q)' = Own(q)
          BY Zenon, <3>1, <3>2 DEF Frame, Own
        <4>2. op'[p] = Nothing /\ \A q \in Run : Own(q) # p
          BY Zenon, <3>1 DEF Life, FreshSays, Unborn
        <4> QED  BY Zenon, <2>2, <4>1, <4>2 DEF FreshSays, Unborn, IsCleanup
      <3>8. OwnSays(p)'
        BY Zenon, <2>2, <3>1, <3>2 DEF OwnSays, Making, Resuming, Ending, IsCleanup
      <3>9. TodoSays(p)'
        <4>1. Todo(p)'.abandon = {} /\ Other(p)' = {} /\ Todo(p)'.remove = {}
              /\ Todo(p)'.finish = {}
          BY Zenon, <3>2, NoWorkIs DEF Other
        <4> QED  BY Zenon, <2>2, <3>1, <4>1 DEF TodoSays, IsCleanup
      <3> QED
        BY Zenon, <3>1, <3>3, <3>4, <3>5, <3>6, <3>7, <3>8, <3>9, LifeStep DEF Runs
    <2>3. lockFile = Absent => holder = None
      BY Zenon DEF Life, Holding
    <2>4. Flag[p] = "break" => ~IsCleanup(p)
      BY Zenon DEF IsCleanup
    <2> QED  BY Zenon, <2>1, <2>2, <2>3, <2>4, <1>1
  <1>5. Life /\ removals = 0 => \A x \in Run : Kept(x)
    BY Zenon, <1>1, KeptCalls
  <1> QED  BY Zenon, <1>2, <1>3, <1>4, <1>5 DEF Good

\* scan keeps the invariant and every operation's progress.
LEMMA scan_step ==
    ASSUME PathInv, NEW p \in Run, scan(p)
    PROVE  Good(p)
  <1>1. /\ pc[p] = "scan" /\ UNCHANGED <<holder, lockFile, op>>
        /\ \/ pc'[p] = "giveback" /\ Fails(p) /\ UNCHANGED job
           \/ /\ JobOnly(p) /\ UNCHANGED outcome
              /\ job'[p].rows = job[p].rows /\ job'[p].claimed = job[p].claimed
              /\ Todo(p)'.abandon \subseteq Others(p, Resumable)
              /\ Other(p)' \subseteq Others(p, {"COMPLETED"}) \cup DebrisOf(p)
              /\ Todo(p)'.remove = {}
              /\ Todo(p)'.finish \subseteq Others(p, {"COMPLETED"})
              /\ Todo(p)'.abandon # {} => Flag[p] \in {"restart", "break"}
              /\ \/ /\ pc'[p] = "adopt" /\ Own(p) = None
                    /\ \E o \in Run \ {p} : /\ Others(p, Resumable) = {o}
                                            /\ job'[p].id = o
                                            /\ job'[p].mem = op[o].manifest
                    /\ Todo(p)'.abandon = {}
                 \/ /\ pc'[p] = IF Own(p) = None THEN "create" ELSE "record"
                    /\ job'[p].id = Own(p) /\ job'[p].mem = job[p].mem
                    /\ Own(p) = None => Others(p, Resumable) \subseteq Todo(p)'.abandon
    <2> DEFINE all == Others(p, Resumable)
               restart == Flag[p] \in {"restart", "break"}
               adopting == Flag[p] = "resume" /\ \E o \in Run : all = {o}
               w == [NoWork EXCEPT !.abandon = IF restart THEN all ELSE {},
                                   !.finish = Others(p, {"COMPLETED"}),
                                   !.debris = DebrisOf(p)]
    <2>1. /\ w \in WorkType /\ w.abandon = IF restart THEN all ELSE {}
          /\ w.sweep = {} /\ w.keep = {} /\ w.remove = {} /\ w.retiring = {}
          /\ w.finish = Others(p, {"COMPLETED"}) /\ w.debris = DebrisOf(p)
      BY Zenon DEF NoWork, WorkType, Others, DebrisOf
    <2>2. pc[p] = "scan" /\ UNCHANGED <<holder, lockFile, op>>
      BY Zenon DEF scan
    <2>3. \/ pc'[p] = "giveback" /\ Fails(p) /\ UNCHANGED job
          \/ /\ restart \/ adopting \/ all = {}
             /\ IF Own(p) = None /\ adopting
                THEN \E o \in all : Learn(p, o, op[o].manifest, w)
                ELSE Learn(p, Own(p), job[p].mem, w)
             /\ pc'[p] = IF Own(p) # None THEN "record"
                         ELSE IF adopting THEN "adopt" ELSE "create"
             /\ UNCHANGED outcome
      <3>1. Goto(p, IF Own(p) # None THEN "record"
                    ELSE IF adopting THEN "adopt" ELSE "create") =>
              pc'[p] = IF Own(p) # None THEN "record"
                       ELSE IF adopting THEN "adopt" ELSE "create"
        BY Zenon, GotoIs DEF PC
      <3>2. /\ Goto(p, "giveback") => pc'[p] = "giveback"
            /\ Report(p, "refused") \/ Report(p, "failed") => Fails(p)
        BY Zenon, GotoIs, ReportFails DEF PC
      <3> QED  BY Zenon, <3>1, <3>2 DEF scan
    <2> HIDE DEF w
    <2>4. CASE /\ Own(p) = None /\ adopting
               /\ \E o \in all : Learn(p, o, op[o].manifest, w)
               /\ pc'[p] = "adopt" /\ UNCHANGED outcome
      <3>1. PICK o \in all : Learn(p, o, op[o].manifest, w)
        BY Zenon, <2>4
      <3>2. o \in Run \ {p} /\ op[o].manifest \in OpState
        BY Zenon DEF Others, Is, OpState
      <3>3. /\ JobOnly(p) /\ job'[p].id = o /\ job'[p].mem = op[o].manifest
            /\ job'[p].work = w
            /\ job'[p].rows = job[p].rows /\ job'[p].claimed = job[p].claimed
        BY SMTT(60), <2>1, <3>1, <3>2, LearnEffect DEF PathInv, TypeOK
      <3>4. all = {o} /\ ~restart
        BY SMTT(30), <2>4, <3>1
      <3> QED  BY Zenon, <2>1, <2>2, <2>4, <3>2, <3>3, <3>4 DEF Todo, Other
    <2>5. CASE /\ ~(Own(p) = None /\ adopting) /\ (restart \/ adopting \/ all = {})
               /\ Learn(p, Own(p), job[p].mem, w)
               /\ pc'[p] = IF Own(p) = None THEN "create" ELSE "record"
               /\ UNCHANGED outcome
      <3>1. PICK i \in Run \cup {None}, m \in OpState \cup {None} :
              i = Own(p) /\ m = job[p].mem /\ Learn(p, i, m, w)
        BY Zenon, <2>5 DEF PathInv, TypeOK, JobType, Own
      <3>2. /\ JobOnly(p) /\ job'[p].id = i /\ job'[p].mem = m /\ job'[p].work = w
            /\ job'[p].rows = job[p].rows /\ job'[p].claimed = job[p].claimed
        <4>1. job \in [Run -> JobType]
          BY Zenon DEF PathInv, TypeOK
        <4>2. Learn(p, i, m, w) /\ w \in WorkType
          BY Zenon, <2>1, <3>1
        <4> QED  BY <4>1, <4>2, LearnEffect, ZenonT(90)
      <3>3. Own(p) = None => all \subseteq w.abandon
        BY Zenon, <2>1, <2>5
      <3> QED  BY Zenon, <2>1, <2>2, <2>5, <3>1, <3>2, <3>3 DEF Todo, Other
    <2> QED  BY Zenon, <2>2, <2>3, <2>4, <2>5
  <1>2. Frame(p)
    <2>1. op' \in [Run -> OpType]
      BY Zenon DEF TypeOK, PathInv, scan
    <2>2. Learned(p)
      BY Zenon, <1>1 DEF TypeOK, PathInv, Learned, JobOnly, Own
    <2>3. Moved(p)
      BY Zenon, GotoEffect DEF PathInv, scan, PC, Guarded
    <2>4. Reported(p)
      BY Zenon, ReportEffect DEF TypeOK, PathInv, scan, Reported
    <2>5. Rest
      BY Zenon, FaultEffect DEF TypeOK, PathInv, scan, NoFault, Rest
    <2> QED  BY Zenon, <2>1, <2>2, <2>3, <2>4, <2>5, FrameParts DEF PathInv
  <1>3. PathInv'
    <2>1. PublishedHasManifest'
      BY Zenon, <1>1, ManifestCalls DEF OpState, Resumable
    <2>2. Goes(p)
      <3>1. pc[p] = "scan" /\ ~IsCleanup(p) /\ Own(p) \in Run \cup {None}
        BY Zenon, <1>1, AtPath
      <3>2. CASE pc'[p] = "giveback" /\ UNCHANGED job
        BY Zenon, <3>2, KeepsCalls DEF Goes
      <3>3. CASE /\ pc'[p] = IF Own(p) = None THEN "create" ELSE "record"
                 /\ job'[p].id = Own(p) /\ job'[p].mem = job[p].mem
        BY Zenon, <3>1, <3>3 DEF Goes, Keeps, Own
      <3>4. ASSUME NEW i \in Run \ {p}, Others(p, Resumable) = {i}, job'[p].id = i,
                   job'[p].mem = op[i].manifest, pc'[p] = "adopt"
            PROVE  Goes(p)
        <4>1. op[i].manifest \in OpState
          BY Zenon, <3>4 DEF Others, Is, OpState
        <4> QED  BY Zenon, <3>1, <3>4, <4>1 DEF Goes, Own
      <3> QED  BY Zenon, <3>2, <3>3, <3>4, <1>1
    <2> QED  BY Zenon, <2>1, <2>2, <1>2, PathStep
  <1>4. Life /\ removals = 0 => Life'
    <2> SUFFICES ASSUME Life, removals = 0
                 PROVE  Life'
      OBVIOUS
    <2>1. /\ pc[p] = "scan" /\ UNCHANGED <<holder, lockFile, op>>
          /\ Frame(p) /\ PathInv' /\ Fails(p) /\ lockFile \in {Empty, Torn}
          /\ Own(p) = None /\ op[p] = Nothing /\ \A q \in Run : Own(q) # p
          /\ outcome[p] # "ok" /\ ~IsCleanup(p)
      <3>1. pc[p] = "scan" /\ UNCHANGED <<holder, lockFile, op>> /\ Fails(p)
            /\ Frame(p) /\ PathInv'
        BY Zenon, <1>1, <1>2, <1>3 DEF Fails
      <3> QED
        BY Zenon, <3>1 DEF Life, LockSays, WaitSays, FreshSays, Making, Unborn, PathInv, PathSays
    <2>2. /\ Idle(p) /\ lockFile # Absent /\ pc[p] \in HeldPC
      BY Zenon, <2>1, OthersIdle DEF HeldPC, PC
    <2>3. CASE pc'[p] = "giveback" /\ UNCHANGED job
      BY Zenon, <2>1, <2>3, Quit DEF Making
    <2>4. CASE /\ JobOnly(p) /\ UNCHANGED outcome
               /\ Todo(p)'.abandon \subseteq Others(p, Resumable)
               /\ Other(p)' \subseteq Others(p, {"COMPLETED"}) \cup DebrisOf(p)
               /\ Todo(p)'.remove = {}
               /\ Todo(p)'.finish \subseteq Others(p, {"COMPLETED"})
               /\ Todo(p)'.abandon # {} => Flag[p] \in {"restart", "break"}
               /\ \/ /\ pc'[p] = "adopt" /\ Own(p) = None
                     /\ \E o \in Run \ {p} : /\ Others(p, Resumable) = {o}
                                             /\ job'[p].id = o
                                             /\ job'[p].mem = op[o].manifest
                     /\ Todo(p)'.abandon = {}
                  \/ /\ pc'[p] = IF Own(p) = None THEN "create" ELSE "record"
                     /\ job'[p].id = Own(p) /\ job'[p].mem = job[p].mem
                     /\ Own(p) = None => Others(p, Resumable) \subseteq Todo(p)'.abandon
      <3>1. /\ \A o \in Others(p, Resumable) : o \in Run \ {p} /\ Is(o, Resumable)
            /\ \A o \in Run \ {p} : Is(o, Resumable) => o \in Others(p, Resumable)
            /\ \A o \in Others(p, {"COMPLETED"}) :
                 o # p /\ ~Is(o, Resumable) /\ ~Is(o, {"ABANDONED"})
            /\ \A o \in DebrisOf(p) : o # p /\ ~Is(o, Resumable)
        BY Zenon DEF Others, DebrisOf, Is, Resumable
      <3>2. LockSays(p)'
        BY Zenon, <2>1, <2>4 DEF LockSays, Making, Recorded
      <3>3. WaitSays(p)'
        BY Zenon, <2>1, <2>4 DEF WaitSays
      <3>4. pc'[p] \in HeldPC /\ pc'[p] \in {"adopt", "create"}
        BY Zenon, <2>1, <2>4 DEF HeldPC, PC
      <3>5. CASE pc'[p] = "create" /\ Own(p)' = None
                 /\ Others(p, Resumable) \subseteq Todo(p)'.abandon
        <4>1. World(p)
          BY Zenon, <2>1, <2>2, <3>5, Unchanged DEF Knowing
        <4>2. OwnSays(p)'
          BY Zenon, <3>5 DEF OwnSays, Making, Resuming, Ending
        <4>3. FreshSays(p)'
          <5>1. \A q \in Run : Own(q)' # p
            BY Zenon, <2>1, <3>5 DEF Frame, Own
          <5> QED  BY Zenon, <2>1, <5>1 DEF FreshSays
        <4>4. TodoSays(p)'
          <5>1. /\ {p, Own(p)'} \cap (Todo(p)'.abandon \cup Other(p)') = {}
                /\ \A o \in Todo(p)'.abandon : Is(o, Resumable)'
                /\ \A o \in Other(p)' : ~Is(o, Resumable)'
                /\ \A o \in Todo(p)'.finish : ~Is(o, {"ABANDONED"})'
                /\ \A o \in Run \ {p, Own(p)'} : Is(o, Resumable)' => o \in Todo(p)'.abandon
            <6>1. None \notin Todo(p)'.abandon \cup Other(p)'
              BY Zenon, <2>4, <3>1 DEF Others, DebrisOf
            <6> QED  BY SMTT(30), <2>1, <2>4, <3>1, <3>5, <6>1 DEF Is
          <5> QED  BY Zenon, <2>4, <3>5, <5>1 DEF TodoSays
        <4> QED
          BY Zenon, <2>1, <2>2, <3>2, <3>3, <3>4, <3>5, <4>1, <4>2, <4>3, <4>4, HeldStep DEF Runs
      <3>6. CASE pc'[p] = "adopt"
        <4>0. PICK o \in Run \ {p} : /\ Others(p, Resumable) = {o} /\ Own(p)' = o
                                     /\ job'[p].mem = op[o].manifest
                                     /\ Todo(p)'.abandon = {}
          BY Zenon, <2>1, <2>4, <3>6 DEF Own
        <4>1. World(p)
          <5>1. op[o] # Nothing
            BY SMTT(30), <3>1, <4>0 DEF Is, Nothing, Absent
          <5> QED  BY Zenon, <2>1, <2>2, <4>0, <5>1, Unchanged DEF Knowing
        <4>2. OwnSays(p)'
          <5>1. Is(o, Resumable) /\ Is(o, Resumable)'
            BY Zenon, <2>1, <3>1, <4>0 DEF Is
          <5> QED
            BY Zenon, <2>1, <3>6, <4>0, <5>1 DEF OwnSays, Making, Resuming, Ending, Is
        <4>3. FreshSays(p)'
          <5>1. \A q \in Run : Own(q)' # p
            BY Zenon, <2>1, <4>0 DEF Frame, Own
          <5> QED  BY Zenon, <2>1, <5>1 DEF FreshSays
        <4>4. TodoSays(p)'
          <5>1. /\ {p, Own(p)'} \cap (Todo(p)'.abandon \cup Other(p)') = {}
                /\ \A x \in Other(p)' : ~Is(x, Resumable)'
                /\ \A x \in Todo(p)'.finish : ~Is(x, {"ABANDONED"})'
                /\ \A x \in Run \ {p, Own(p)'} : ~Is(x, Resumable)'
            BY ZenonT(90), <2>1, <2>4, <3>1, <4>0 DEF Is
          <5> QED  BY Zenon, <2>4, <3>6, <4>0, <5>1 DEF TodoSays
        <4> QED
          BY Zenon, <2>1, <2>2, <3>2, <3>3, <3>4, <3>6, <4>1, <4>2, <4>3, <4>4, HeldStep DEF Runs
      <3> QED  BY Zenon, <2>1, <2>4, <3>5, <3>6 DEF Own
    <2> QED  BY Zenon, <2>3, <2>4, <1>1
  <1>5. Life /\ removals = 0 => \A x \in Run : Kept(x)
    BY Zenon, <1>1, KeptCalls
  <1> QED  BY Zenon, <1>2, <1>3, <1>4, <1>5 DEF Good

\* adopt keeps the invariant and every operation's progress.
LEMMA adopt_step ==
    ASSUME PathInv, NEW p \in Run, adopt(p)
    PROVE  Good(p)
  <1>1. /\ pc[p] = "adopt" /\ Own(p) \in Run /\ UNCHANGED <<holder, lockFile, op>>
        /\ \/ /\ pc'[p] = "record" /\ Knows(p, Own(p), job[p].mem)
              /\ Kind = "file" \/ op[Own(p)].store = "ok"
              /\ UNCHANGED outcome
           \/ /\ pc'[p] = "readopt" /\ Kind = "tree" /\ job[p].mem = "CREATED"
              /\ UNCHANGED <<job, outcome>>
           \/ pc'[p] = "giveback" /\ Fails(p) /\ UNCHANGED job
    <2>1. pc[p] = "adopt"
      BY Zenon DEF adopt
    <2>2. Own(p) \in Run /\ job[p].mem \in OpState
      BY SMTT(30), <2>1 DEF PathInv, PathSays, TypeOK, JobType, Own
    <2>3. Made(p, job[p].mem, "record") =>
            /\ pc'[p] = "record" /\ Knows(p, Own(p), job[p].mem)
            /\ UNCHANGED <<holder, lockFile, outcome>>
      BY Zenon, <2>2, JobCalls, GotoIs DEF Made, PC
    <2> QED  BY Zenon, <2>1, <2>2, <2>3, EndsIs DEF adopt, validate_refuses, PC
  <1>2. Frame(p)
    <2>1. op' \in [Run -> OpType]
      BY Zenon DEF TypeOK, PathInv, adopt
    <2>2. Learned(p)
      <3>1. job[p].mem \in OpState \cup {None}
        BY Zenon DEF TypeOK, PathInv, JobType
      <3>2. UNCHANGED job \/ Made(p, job[p].mem, "record")
        BY Zenon DEF adopt, Step, StateEnds, StateFails, validate_refuses
      <3> QED
        BY Zenon, <3>1, <3>2, MadeEffect DEF TypeOK, PathInv, Learned, JobOnly
    <2>3. Moved(p)
      BY Zenon, GotoEffect DEF PathInv, adopt, Step, StateEnds, StateFails,
         validate_refuses, Made, PC, Guarded
    <2>4. Reported(p)
      BY Zenon, ReportEffect DEF TypeOK, PathInv, adopt, Step, StateEnds, StateFails,
         validate_refuses, Made, Reported
    <2>5. Rest
      BY Zenon, FaultEffect DEF TypeOK, PathInv, adopt, Step, StateEnds, StateFails,
         validate_refuses, Made, NoFault, Rest
    <2> QED  BY Zenon, <2>1, <2>2, <2>3, <2>4, <2>5, FrameParts DEF PathInv
  <1>3. PathInv'
    <2>1. PublishedHasManifest'
      BY Zenon, <1>1, ManifestCalls DEF OpState, Resumable
    <2>2. Goes(p)
      BY Zenon, <1>1, AtPath, KeepsCalls DEF Goes, Keeps, Knows, Own
    <2> QED  BY Zenon, <2>1, <2>2, <1>2, PathStep
  <1>4. Life /\ removals = 0 => Life'
    <2> SUFFICES ASSUME Life, removals = 0
                 PROVE  Life'
      OBVIOUS
    <2>1. /\ pc[p] = "adopt" /\ Own(p) \in Run /\ UNCHANGED <<holder, lockFile, op>>
          /\ Frame(p) /\ PathInv' /\ Fails(p) /\ pc[p] \in Making
          /\ lockFile \in {Empty, Torn}
      BY Zenon, <1>1, <1>2, <1>3 DEF Fails, Making, Life, LockSays
    <2>2. CASE pc'[p] = "giveback" /\ UNCHANGED job
      BY Zenon, <2>1, <2>2, Quit
    <2>3. PICK o \in Run : o = Own(p)
      BY Zenon, <2>1
    <2>4. o # p /\ Is(o, Resumable) /\ job[p].mem \in Resumable /\ op[o].place # Absent
      BY ZenonT(30), <2>1, <2>3 DEF Life, OwnSays, Is, Absent
    <2>5. CASE \/ /\ pc'[p] = "record" /\ Knows(p, Own(p), job[p].mem)
                  /\ Kind = "file" \/ op[Own(p)].store = "ok"
               \/ pc'[p] = "readopt" /\ job[p].mem = "CREATED" /\ UNCHANGED job
      <3>1. Own(p)' = o /\ Todo(p)' = Todo(p) /\ job'[p].mem = job[p].mem
        BY Zenon, <2>3, <2>5 DEF Own, Todo, Knows
      <3>2. LockSays(p)'
        BY ZenonT(30), <2>1, <2>5 DEF LockSays, Making, Recorded
      <3>3. OwnSays(p)'
        <4>1. /\ Is(o, Resumable \cap {job[p].mem}) /\ UNCHANGED op
              /\ Kind = "file" \/ op[o].store = "ok" \/ pc'[p] = "readopt"
              /\ pc'[p] = "record" \/ (pc'[p] = "readopt" /\ job[p].mem = "CREATED")
          <5>1. OwnSays(p) /\ pc[p] = "adopt" /\ UNCHANGED op
            BY Zenon, <2>1 DEF Life
          <5>2. Is(o, Resumable \cap {job[p].mem})
            BY Zenon, <2>3, <5>1 DEF OwnSays
          <5>3. Kind = "file" \/ op[o].store = "ok" \/ pc'[p] = "readopt"
            BY Zenon, <2>3, <2>5
          <5>4. pc'[p] = "record" \/ (pc'[p] = "readopt" /\ job[p].mem = "CREATED")
            BY Zenon, <2>5
          <5> QED  BY Zenon, <5>1, <5>2, <5>3, <5>4
        <4>2. Is(o, Resumable)' /\ Is(o, Resumable \cap {job[p].mem})'
          BY SMTT(30), <2>4, <3>1, <4>1 DEF Is
        <4>3. Is(o, OpState \ {"ABANDONED"})'
          BY Zenon, <4>2 DEF Is, OpState, Resumable
        <4>4. Adopted(p)'
          BY SMTT(30), <2>4, <3>1 DEF Adopted, None
        <4> QED  BY SMTT(60), <2>4, <3>1, <4>1, <4>2, <4>3, <4>4
                 DEF OwnSays, Making, Resuming, Ending
      <3>4. WaitSays(p)'
        BY Zenon, <2>1, <2>5 DEF WaitSays, Life, Fails
      <3>5. TodoSays(p)'
        BY Zenon, <2>1, <2>3, <2>5, <3>1, SameOp, TodoOwn
           DEF Planning, Settled, Copying, Making, HeldPC, PC
      <3> QED
        BY Zenon, <2>1, <2>3, <2>4, <2>5, <3>1, <3>2, <3>3, <3>4, <3>5, SameOp, OwnStep
           DEF HeldPC, PC, Unborn
    <2> QED  BY Zenon, <2>2, <2>5, <1>1
  <1>5. Life /\ removals = 0 => \A x \in Run : Kept(x)
    BY Zenon, <1>1, KeptCalls
  <1> QED  BY Zenon, <1>2, <1>3, <1>4, <1>5 DEF Good

\* readopt keeps the invariant and every operation's progress.
LEMMA readopt_step ==
    ASSUME PathInv, NEW p \in Run, readopt(p)
    PROVE  Good(p)
  <1>1. /\ pc[p] = "readopt" /\ Own(p) \in Run /\ UNCHANGED <<holder, lockFile>>
        /\ \/ /\ pc'[p] = "readopt" /\ Stored(Own(p), Torn)
              /\ UNCHANGED <<job, outcome>>
           \/ /\ pc'[p] = "record" /\ Stored(Own(p), "ok")
              /\ Knows(p, Own(p), "CREATED") /\ UNCHANGED outcome
           \/ pc'[p] = "giveback" /\ Fails(p) /\ UNCHANGED <<op, job>>
    <2>1. pc[p] = "readopt"
      BY Zenon DEF readopt
    <2>2. Own(p) \in Run
      BY Zenon, <2>1 DEF PathInv, PathSays, IsCleanup
    <2>3. Made(p, "CREATED", "record") =>
            /\ pc'[p] = "record" /\ Knows(p, Own(p), "CREATED")
            /\ UNCHANGED <<holder, lockFile, outcome>>
      BY Zenon, <2>2, JobCalls, GotoIs DEF Made, PC, OpState, Resumable
    <2> QED  BY Zenon, <2>1, <2>2, <2>3, EndsIs, OpCalls DEF readopt, PC
  <1>2. Frame(p)
    <2>1. op' \in [Run -> OpType]
      BY Zenon, StoreEffect DEF TypeOK, PathInv, readopt, OpOnly
    <2>2. Learned(p)
      <3>1. UNCHANGED job \/ Made(p, "CREATED", "record")
        BY Zenon DEF readopt, Step, StateEnds, StateFails
      <3> QED
        BY Zenon, <3>1, MadeEffect DEF TypeOK, PathInv, Learned, JobOnly, OpState, Resumable
    <2>3. Moved(p)
      BY Zenon, GotoEffect DEF PathInv, readopt, Step, StateEnds, StateFails, Made, PC,
         Guarded
    <2>4. Reported(p)
      BY Zenon, ReportEffect DEF TypeOK, PathInv, readopt, Step, StateEnds, StateFails,
         Made, Reported
    <2>5. Rest
      BY Zenon, FaultEffect DEF TypeOK, PathInv, readopt, Step, StateEnds, StateFails,
         Made, NoFault, Rest
    <2> QED  BY Zenon, <2>1, <2>2, <2>3, <2>4, <2>5, FrameParts DEF PathInv
  <1>3. PathInv'
    <2>1. PublishedHasManifest'
      BY Zenon, <1>1, ManifestCalls DEF OpState, Resumable
    <2>2. Goes(p)
      BY Zenon, <1>1, AtPath, KeepsCalls DEF Goes, Knows, Own, OpState,
         Resumable
    <2> QED  BY Zenon, <2>1, <2>2, <1>2, PathStep
  <1>4. Life /\ removals = 0 => Life'
    <2> SUFFICES ASSUME Life, removals = 0
                 PROVE  Life'
      OBVIOUS
    <2>1. /\ pc[p] = "readopt" /\ Own(p) \in Run /\ UNCHANGED <<holder, lockFile>>
          /\ Frame(p) /\ PathInv' /\ Fails(p) /\ pc[p] \in Making
          /\ lockFile \in {Empty, Torn}
      BY Zenon, <1>1, <1>2, <1>3 DEF Fails, Making, Life, LockSays
    <2>2. CASE pc'[p] = "giveback" /\ UNCHANGED <<op, job>>
      BY Zenon, <2>1, <2>2, Quit
    <2>3. PICK o \in Run : o = Own(p)
      BY Zenon, <2>1
    <2>4. /\ o # p /\ Is(o, {"CREATED"}) /\ job[p].mem = "CREATED" /\ op[o].place # Absent
      BY Zenon, <2>1, <2>3 DEF Life, OwnSays, Is, Absent
    <2>5. CASE \/ pc'[p] = "readopt" /\ Stored(Own(p), Torn) /\ UNCHANGED job
               \/ pc'[p] = "record" /\ Stored(Own(p), "ok") /\ Knows(p, Own(p), "CREATED")
      <3>1. Own(p)' = o /\ Todo(p)' = Todo(p) /\ job'[p].mem = "CREATED"
        BY Zenon, <2>3, <2>4, <2>5 DEF Own, Todo, Knows
      <3>2. LockSays(p)'
        BY Zenon, <2>1, <2>5 DEF LockSays, Making, Recorded
      <3>3. /\ OpOnly(o) /\ op'[o].place = op[o].place /\ op'[o].manifest = "CREATED"
            /\ op'[o].partial = op[o].partial /\ Is(o, Resumable)
            /\ pc'[p] = "record" => op'[o].store = "ok"
        BY Zenon, <2>3, <2>4, <2>5 DEF Stored, Is, Resumable
      <3>4. OpSays(o)' /\ Is(o, {"CREATED"})'
        BY Zenon, <2>4, <3>3 DEF OpSays, Is
      <3>5. OwnSays(p)'
        BY ZenonT(90), <2>1, <2>3, <2>4, <2>5, <3>1, <3>3, <3>4
           DEF OwnSays, Making, Resuming, Ending, Adopted, Is, OpState, Resumable
      <3>6. WaitSays(p)'
        BY Zenon, <2>1, <2>5 DEF WaitSays, Life, Fails
      <3>7. TodoSays(p)'
        BY Zenon, <2>1, <2>3, <2>5, <3>1, <3>3, TodoOwn
           DEF Planning, Settled, Copying, Making, HeldPC, PC
      <3> QED
        BY Zenon, <2>1, <2>3, <2>4, <2>5, <3>1, <3>2, <3>3, <3>4, <3>5, <3>6, <3>7, OwnStep
           DEF HeldPC, PC, Unborn
    <2> QED  BY Zenon, <2>2, <2>5, <1>1
  <1>5. Life /\ removals = 0 => \A x \in Run : Kept(x)
    BY Zenon, <1>1, KeptCalls, KeptAll DEF Stored
  <1> QED  BY Zenon, <1>2, <1>3, <1>4, <1>5 DEF Good

\* begin_workspace keeps the invariant and every operation's progress.
LEMMA begin_workspace_step ==
    ASSUME PathInv, NEW p \in Run, begin_workspace(p)
    PROVE  Good(p)
  <1>1. /\ pc[p] = "create" /\ UNCHANGED <<holder, lockFile, job>>
        /\ \/ pc'[p] = "probe" /\ Placed(p, "creating") /\ UNCHANGED outcome
           \/ pc'[p] = "giveback" /\ Fails(p) /\ UNCHANGED op
    BY Zenon, EndsIs, OpCalls DEF begin_workspace, PC
  <1>2. Frame(p)
    <2>1. op' \in [Run -> OpType]
      BY Zenon, PlaceEffect DEF TypeOK, PathInv, begin_workspace, Place, OpOnly
    <2>2. Learned(p)
      BY Zenon DEF TypeOK, PathInv, begin_workspace, Step, StateEnds, StateFails,
         Learned, JobOnly
    <2>3. Moved(p)
      BY Zenon, GotoEffect DEF PathInv, begin_workspace, Step, StateEnds, StateFails,
         PC, Guarded
    <2>4. Reported(p)
      BY Zenon, ReportEffect DEF TypeOK, PathInv, begin_workspace, Step, StateEnds,
         StateFails, Reported
    <2>5. Rest
      BY Zenon, FaultEffect DEF TypeOK, PathInv, begin_workspace, Step, StateEnds,
         StateFails, NoFault, Rest
    <2> QED  BY Zenon, <2>1, <2>2, <2>3, <2>4, <2>5, FrameParts DEF PathInv
  <1>3. PathInv'
    <2>1. PublishedHasManifest'
      BY Zenon, <1>1, ManifestCalls DEF OpState, Resumable
    <2>2. Goes(p)
      BY Zenon, <1>1, AtPath, KeepsCalls DEF Goes
    <2> QED  BY Zenon, <2>1, <2>2, <1>2, PathStep
  <1>4. Life /\ removals = 0 => Life'
    <2> SUFFICES ASSUME Life, removals = 0
                 PROVE  Life'
      OBVIOUS
    <2>1. /\ pc[p] = "create" /\ UNCHANGED <<holder, lockFile, job>>
          /\ Frame(p) /\ PathInv' /\ Fails(p)
          /\ Own(p)' = Own(p) /\ Todo(p)' = Todo(p)
      BY Zenon, <1>1, <1>2, <1>3
         DEF Own, Todo, Fails
    <2>2. CASE pc'[p] = "giveback" /\ UNCHANGED op
      BY Zenon, <2>1, <2>2, Quit DEF Making
    <2>3. CASE pc'[p] = "probe" /\ Placed(p, "creating")
      <3>1. ~op'[p].partial /\ op'[p].place = "creating" /\ OpOnly(p)
        BY SMTT(30), <2>1, <2>3 DEF Placed, Life, FreshSays, Nothing
      <3>2. OpSays(p)' /\ ~Is(p, Resumable)'
        BY Zenon, <3>1 DEF OpSays, Is
      <3>3. OwnSays(p)'
        BY Zenon, <2>1, <2>3, <3>1 DEF Life, OwnSays, Making, Resuming, Ending, Own
      <3> QED
        BY ZenonT(30), <2>1, <2>3, <3>1, <3>2, <3>3, MakeStep DEF Making, Unborn, HeldPC, PC
    <2> QED  BY Zenon, <2>2, <2>3, <1>1
  <1>5. Life /\ removals = 0 => \A x \in Run : Kept(x)
    <2> SUFFICES ASSUME Life, removals = 0
                 PROVE  \A x \in Run : Kept(x)
      BY Zenon
    <2>1. /\ pc[p] = "create" /\ (OpOnly(p) \/ UNCHANGED op)
      BY ZenonT(30), <1>1 DEF Placed, Wrote
    <2>2. op[p].place # "there"
      BY SMTT(60), <2>1 DEF Life, FreshSays, Nothing, Absent
    <2> QED  BY Zenon, <2>1, <2>2, KeptCalls, KeptAll
  <1> QED  BY Zenon, <1>2, <1>3, <1>4, <1>5 DEF Good

\* probe_no_replace keeps the invariant and every operation's progress.
LEMMA probe_no_replace_step ==
    ASSUME PathInv, NEW p \in Run, probe_no_replace(p)
    PROVE  Good(p)
  <1>1. /\ pc[p] = "probe" /\ UNCHANGED <<holder, lockFile, job>>
        /\ \/ pc'[p] = "build" /\ UNCHANGED <<op, outcome>>
           \/ pc'[p] = "giveback" /\ Fails(p) /\ (Emptied(p) \/ UNCHANGED op)
    BY Zenon, EndsIs, OpCalls DEF probe_no_replace, Vanished, PC
  <1>2. Frame(p)
    <2>1. op' \in [Run -> OpType]
      BY Zenon, GoneEffect DEF TypeOK, PathInv, probe_no_replace, Vanished, OpOnly
    <2>2. Learned(p)
      BY Zenon DEF TypeOK, PathInv, probe_no_replace, Vanished, Step, StateEnds,
         StateFails, Learned, JobOnly
    <2>3. Moved(p)
      BY Zenon, GotoEffect DEF PathInv, probe_no_replace, Step, StateEnds, StateFails,
         Vanished, PC, Guarded
    <2>4. Reported(p)
      BY Zenon, ReportEffect DEF TypeOK, PathInv, probe_no_replace, Step, StateEnds,
         StateFails, Vanished, Reported
    <2>5. Rest
      BY Zenon, FaultEffect DEF TypeOK, PathInv, probe_no_replace, Step, StateEnds,
         StateFails, Vanished, NoFault, Rest
    <2> QED  BY Zenon, <2>1, <2>2, <2>3, <2>4, <2>5, FrameParts DEF PathInv
  <1>3. PathInv'
    <2>1. PublishedHasManifest'
      BY Zenon, <1>1, ManifestCalls DEF OpState, Resumable
    <2>2. Goes(p)
      BY Zenon, <1>1, AtPath, KeepsCalls DEF Goes
    <2> QED  BY Zenon, <2>1, <2>2, <1>2, PathStep
  <1>4. Life /\ removals = 0 => Life'
    <2> SUFFICES ASSUME Life, removals = 0
                 PROVE  Life'
      OBVIOUS
    <2>1. /\ pc[p] = "probe" /\ UNCHANGED <<holder, lockFile, job>>
          /\ Frame(p) /\ PathInv' /\ Fails(p)
          /\ Own(p)' = Own(p) /\ Todo(p)' = Todo(p)
      BY Zenon, <1>1, <1>2, <1>3
         DEF Own, Todo, Fails
    <2>2. op[p].place = "creating" /\ ~op[p].partial
      BY Zenon, <2>1 DEF Life, OwnSays
    <2>3. CASE pc'[p] = "giveback" /\ UNCHANGED op
      BY Zenon, <2>1, <2>3, Quit DEF Making
    <2>4. CASE pc'[p] = "giveback" /\ Emptied(p)
      <3>1. ~op'[p].partial /\ op'[p].place = Absent /\ OpOnly(p)
        BY Zenon, <2>2, <2>4 DEF Emptied
      <3>2. OpSays(p)' /\ ~Is(p, Resumable)'
        BY Zenon, <3>1 DEF OpSays, Is, Absent
      <3>3. OwnSays(p)'
        BY Zenon, <2>4 DEF OwnSays, Making, Resuming, Ending
      <3> QED
        BY Zenon, <2>1, <2>4, <3>1, <3>2, <3>3, MakeStep DEF Making, Unborn, HeldPC, PC
    <2>5. CASE pc'[p] = "build" /\ UNCHANGED op
      <3>1. OpOnly(p)
        BY Zenon, <2>5 DEF OpOnly, PathInv, TypeOK
      <3>2. OpSays(p)' /\ ~Is(p, Resumable)'
        BY Zenon, <2>2, <2>5 DEF OpSays, Is
      <3>3. OwnSays(p)'
        BY Zenon, <2>1, <2>2, <2>5 DEF Life, OwnSays, Making, Resuming, Ending, Own
      <3> QED
        BY Zenon, <2>1, <2>5, <3>1, <3>2, <3>3, MakeStep DEF Making, Unborn, HeldPC, PC
    <2> QED  BY Zenon, <2>3, <2>4, <2>5, <1>1
  <1>5. Life /\ removals = 0 => \A x \in Run : Kept(x)
    <2> SUFFICES ASSUME Life, removals = 0
                 PROVE  \A x \in Run : Kept(x)
      BY Zenon
    <2>1. /\ pc[p] \in {"probe", "build", "publish"} /\ (OpOnly(p) \/ UNCHANGED op)
      BY Zenon, <1>1 DEF Emptied, Wrote
    <2>2. op[p].place # "there"
      BY Zenon, <2>1 DEF Life, OwnSays
    <2> QED  BY Zenon, <2>1, <2>2, KeptCalls, KeptAll
  <1> QED  BY Zenon, <1>2, <1>3, <1>4, <1>5 DEF Good

\* build_workspace keeps the invariant and every operation's progress.
LEMMA build_workspace_step ==
    ASSUME PathInv, NEW p \in Run, build_workspace(p)
    PROVE  Good(p)
  <1>1. /\ pc[p] = "build" /\ UNCHANGED <<holder, lockFile, job>>
        /\ \/ /\ pc'[p] = "publish" /\ OpOnly(p) /\ op'[p].place = op[p].place
              /\ op'[p].manifest = "CREATED" /\ op'[p].partial = op[p].partial
              /\ op[p].place = "creating" /\ UNCHANGED outcome
           \/ pc'[p] = "giveback" /\ Fails(p) /\ UNCHANGED op
    <2>1. op' = [op EXCEPT ![p].manifest = "CREATED"] =>
            /\ OpOnly(p) /\ op'[p].place = op[p].place
            /\ op'[p].manifest = "CREATED" /\ op'[p].partial = op[p].partial
      BY Zenon, ManifestEffect DEF PathInv, TypeOK, OpState, Resumable
    <2> QED  BY Zenon, <2>1, EndsIs DEF build_workspace, Vanished, PC
  <1>2. Frame(p)
    <2>1. op' \in [Run -> OpType]
      BY Zenon, ManifestEffect DEF TypeOK, PathInv, build_workspace, OpState,
         Resumable, Vanished, OpOnly
    <2>2. Learned(p)
      BY Zenon DEF TypeOK, PathInv, build_workspace, Vanished, Step, StateEnds,
         StateFails, Learned, JobOnly
    <2>3. Moved(p)
      BY Zenon, GotoEffect DEF PathInv, build_workspace, Step, StateEnds, StateFails,
         Vanished, PC, Guarded
    <2>4. Reported(p)
      BY Zenon, ReportEffect DEF TypeOK, PathInv, build_workspace, Step, StateEnds,
         StateFails, Vanished, Reported
    <2>5. Rest
      BY Zenon, FaultEffect DEF TypeOK, PathInv, build_workspace, Step, StateEnds,
         StateFails, Vanished, NoFault, Rest
    <2> QED  BY Zenon, <2>1, <2>2, <2>3, <2>4, <2>5, FrameParts DEF PathInv
  <1>3. PathInv'
    <2>1. PublishedHasManifest'
      <3>1. UNCHANGED op \/ (OpOnly(p) /\ op'[p].place = "creating")
        BY Zenon, <1>1
      <3> QED  BY Zenon, <3>1 DEF PathInv, PublishedHasManifest, OpOnly
    <2>2. Goes(p)
      BY Zenon, <1>1, AtPath, KeepsCalls DEF Goes
    <2> QED  BY Zenon, <2>1, <2>2, <1>2, PathStep
  <1>4. Life /\ removals = 0 => Life'
    <2> SUFFICES ASSUME Life, removals = 0
                 PROVE  Life'
      OBVIOUS
    <2>1. /\ pc[p] = "build" /\ UNCHANGED <<holder, lockFile, job>>
          /\ Frame(p) /\ PathInv' /\ Fails(p)
          /\ Own(p)' = Own(p) /\ Todo(p)' = Todo(p)
      BY Zenon, <1>1, <1>2, <1>3
         DEF Own, Todo, Fails
    <2>2. op[p].place = "creating" /\ ~op[p].partial
      BY Zenon, <2>1 DEF Life, OwnSays
    <2>3. CASE pc'[p] = "giveback" /\ UNCHANGED op
      BY Zenon, <2>1, <2>3, Quit DEF Making
    <2>4. CASE /\ pc'[p] = "publish" /\ OpOnly(p) /\ op'[p].place = op[p].place
               /\ op'[p].partial = op[p].partial
      <3>2. OpSays(p)' /\ ~Is(p, Resumable)'
        BY Zenon, <2>2, <2>4 DEF OpSays, Is
      <3>3. OwnSays(p)'
        BY Zenon, <2>1, <2>2, <2>4 DEF Life, OwnSays, Making, Resuming, Ending, Own
      <3> QED
        BY Zenon, <2>1, <2>4, <3>2, <3>3, MakeStep DEF Making, Unborn, HeldPC, PC
    <2> QED  BY Zenon, <2>3, <2>4, <1>1
  <1>5. Life /\ removals = 0 => \A x \in Run : Kept(x)
    <2> SUFFICES ASSUME Life, removals = 0
                 PROVE  \A x \in Run : Kept(x)
      BY Zenon
    <2>1. /\ pc[p] \in {"probe", "build", "publish"} /\ (OpOnly(p) \/ UNCHANGED op)
      BY Zenon, <1>1 DEF Emptied, Wrote
    <2>2. op[p].place # "there"
      BY Zenon, <2>1 DEF Life, OwnSays
    <2> QED  BY Zenon, <2>1, <2>2, KeptCalls, KeptAll
  <1> QED  BY Zenon, <1>2, <1>3, <1>4, <1>5 DEF Good

\* publish_workspace keeps the invariant and every operation's progress.
LEMMA publish_workspace_step ==
    ASSUME PathInv, NEW p \in Run, publish_workspace(p)
    PROVE  Good(p)
  <1>1. /\ pc[p] = "publish" /\ UNCHANGED <<holder, lockFile, job>>
        /\ \/ pc'[p] = "store" /\ Wrote(p, "CREATED", FALSE) /\ UNCHANGED outcome
           \/ /\ pc'[p] = "giveback" /\ Fails(p)
              /\ UNCHANGED op \/ Wrote(p, "CREATED", FALSE)
    <2>1. op' = Written(p, "CREATED", FALSE) => Wrote(p, "CREATED", FALSE)
      BY Zenon, WriteCalls DEF OpState, Resumable
    <2> QED  BY Zenon, <2>1, EndsIs DEF publish_workspace, Vanished, PC
  <1>2. Frame(p)
    <2>1. op' \in [Run -> OpType]
      BY Zenon, WrittenEffect DEF TypeOK, PathInv, publish_workspace, OpState,
         Resumable, Vanished, OpOnly
    <2>2. Learned(p)
      BY Zenon DEF TypeOK, PathInv, publish_workspace, Vanished, Step, StateEnds,
         StateFails, Learned, JobOnly
    <2>3. Moved(p)
      BY Zenon, GotoEffect DEF PathInv, publish_workspace, Step, StateEnds, StateFails,
         Vanished, PC, Guarded
    <2>4. Reported(p)
      BY Zenon, ReportEffect DEF TypeOK, PathInv, publish_workspace, Step, StateEnds,
         StateFails, Vanished, Reported
    <2>5. Rest
      BY Zenon, FaultEffect DEF TypeOK, PathInv, publish_workspace, Step, StateEnds,
         StateFails, Vanished, NoFault, Rest
    <2> QED  BY Zenon, <2>1, <2>2, <2>3, <2>4, <2>5, FrameParts DEF PathInv
  <1>3. PathInv'
    <2>1. PublishedHasManifest'
      BY Zenon, <1>1, ManifestCalls DEF OpState, Resumable
    <2>2. Goes(p)
      BY Zenon, <1>1, AtPath, KeepsCalls DEF Goes
    <2> QED  BY Zenon, <2>1, <2>2, <1>2, PathStep
  <1>4. Life /\ removals = 0 => Life'
    <2> SUFFICES ASSUME Life, removals = 0
                 PROVE  Life'
      OBVIOUS
    <2>1. /\ pc[p] = "publish" /\ UNCHANGED <<holder, lockFile, job>>
          /\ Frame(p) /\ PathInv' /\ Fails(p) /\ Todo(p)' = Todo(p)
      BY Zenon, <1>1, <1>2, <1>3
         DEF Todo, Fails
    <2>2. CASE pc'[p] = "giveback" /\ UNCHANGED op
      BY Zenon, <2>1, <2>2, Quit DEF Making
    <2>3. CASE pc'[p] \in {"giveback", "store"} /\ Wrote(p, "CREATED", FALSE)
      BY Zenon, <2>1, <2>3, BornStep
    <2> QED  BY Zenon, <2>2, <2>3, <1>1
  <1>5. Life /\ removals = 0 => \A x \in Run : Kept(x)
    <2> SUFFICES ASSUME Life, removals = 0
                 PROVE  \A x \in Run : Kept(x)
      BY Zenon
    <2>1. /\ pc[p] \in {"probe", "build", "publish"} /\ (OpOnly(p) \/ UNCHANGED op)
      BY Zenon, <1>1 DEF Emptied, Wrote
    <2>2. op[p].place # "there"
      BY Zenon, <2>1 DEF Life, OwnSays
    <2> QED  BY Zenon, <2>1, <2>2, KeptCalls, KeptAll
  <1> QED  BY Zenon, <1>2, <1>3, <1>4, <1>5 DEF Good

\* create_claim_store keeps the invariant and every operation's progress.
LEMMA create_claim_store_step ==
    ASSUME PathInv, NEW p \in Run, create_claim_store(p)
    PROVE  Good(p)
  <1>1. /\ pc[p] \in {"store", "storing"} /\ UNCHANGED <<holder, lockFile>>
        /\ \/ /\ pc'[p] = "storing" /\ Stored(p, Torn)
              /\ UNCHANGED <<job, outcome>>
           \/ /\ pc'[p] = "record" /\ Stored(p, "ok") /\ UNCHANGED outcome
              /\ Knows(p, IF Own(p) = None THEN p ELSE Own(p), "CREATED")
           \/ pc'[p] = "unmake" /\ Fails(p) /\ UNCHANGED <<op, job>>
    <2>1. Made(p, "CREATED", "record") =>
            /\ pc'[p] = "record" /\ UNCHANGED <<holder, lockFile, outcome>>
            /\ Knows(p, IF Own(p) = None THEN p ELSE Own(p), "CREATED")
      BY Zenon, JobCalls, GotoIs DEF Made, PC, OpState, Resumable
    <2> QED
      BY Zenon, <2>1, EndsIs, OpCalls, GotoIs, ReportFails DEF create_claim_store, PC
  <1>2. Frame(p)
    <2>1. op' \in [Run -> OpType]
      BY Zenon, StoreEffect DEF TypeOK, PathInv, create_claim_store, OpOnly
    <2>2. Learned(p)
      <3>1. UNCHANGED job \/ Made(p, "CREATED", "record")
        BY Zenon DEF create_claim_store, Step
      <3> QED
        BY Zenon, <3>1, MadeEffect DEF TypeOK, PathInv, Learned, JobOnly, OpState, Resumable
    <2>3. Moved(p)
      BY Zenon, GotoEffect DEF PathInv, create_claim_store, Step, Made, PC, Guarded
    <2>4. Reported(p)
      BY Zenon, ReportEffect DEF TypeOK, PathInv, create_claim_store, Step, Made,
         Reported
    <2>5. Rest
      BY Zenon, FaultEffect DEF TypeOK, PathInv, create_claim_store, Step, Made,
         NoFault, Rest
    <2> QED  BY Zenon, <2>1, <2>2, <2>3, <2>4, <2>5, FrameParts DEF PathInv
  <1>3. PathInv'
    <2>1. PublishedHasManifest'
      BY Zenon, <1>1, ManifestCalls DEF OpState, Resumable
    <2>2. Goes(p)
      BY Zenon, <1>1, AtPath, KeepsCalls DEF Goes, Knows, Own,
         OpState, Resumable
    <2> QED  BY Zenon, <2>1, <2>2, <1>2, PathStep
  <1>4. Life /\ removals = 0 => Life'
    <2> SUFFICES ASSUME Life, removals = 0
                 PROVE  Life'
      OBVIOUS
    <2>1. /\ pc[p] \in {"store", "storing"} /\ UNCHANGED <<holder, lockFile>>
          /\ Frame(p) /\ PathInv' /\ Fails(p) /\ Own(p) = None /\ Todo(p)' = Todo(p)
          /\ Is(p, {"CREATED"}) /\ ~op[p].partial
          /\ pc'[p] \in {"storing", "record", "unmake"}
      BY Zenon, <1>1, <1>2, <1>3
         DEF Todo, Fails, Knows, Life, OwnSays, Making
    <2>2. /\ OpOnly(p) /\ op'[p].place = op[p].place /\ op'[p].manifest = op[p].manifest
          /\ op'[p].partial = op[p].partial
      BY Zenon, <1>1 DEF Stored, OpOnly, PathInv, TypeOK
    <2>3. OpSays(p)' /\ Is(p, {"CREATED"})' /\ Is(p, Resumable)
      BY Zenon, <2>1, <2>2 DEF OpSays, Is, Resumable
    <2>4. OwnSays(p)' /\ (Own(p)' = Own(p) \/ Own(p)' = p)
      <3>1. CASE pc'[p] \in {"storing", "unmake"} /\ UNCHANGED job
        BY Zenon, <2>1, <2>2, <2>3, <3>1 DEF OwnSays, Making, Resuming, Ending, Own
      <3>2. CASE pc'[p] = "record" /\ Stored(p, "ok") /\ Knows(p, p, "CREATED")
        BY Zenon, <2>1, <2>2, <2>3, <3>2
           DEF OwnSays, Making, Resuming, Ending, Own, Adopted, Knows, Is, Resumable,
           OpState, Stored
      <3> QED  BY Zenon, <2>1, <3>1, <3>2, <1>1
    <2>5. /\ pc'[p] \in HeldPC /\ pc'[p] \notin Unborn
          /\ pc'[p] \in Making \cup {"record", "giveback"}
          /\ pc'[p] # "create" /\ pc'[p] \notin {"scan", "adopt", "readopt"}
          /\ pc[p] \in Making \ {"scan", "adopt", "readopt"}
      BY Zenon, <2>1 DEF Making, Unborn, HeldPC, PC
    <2> QED  BY Zenon, <2>1, <2>2, <2>3, <2>4, <2>5, MakeStep
  <1>5. Life /\ removals = 0 => \A x \in Run : Kept(x)
    BY Zenon, <1>1, KeptCalls, KeptAll DEF Stored
  <1> QED  BY Zenon, <1>2, <1>3, <1>4, <1>5 DEF Good

\* unmake keeps the invariant and every operation's progress.
LEMMA unmake_step ==
    ASSUME PathInv, NEW p \in Run, unmake(p)
    PROVE  Good(p)
  <1>1. /\ pc[p] \in {"unmake", "unmaking"}
        /\ UNCHANGED <<holder, lockFile, job, outcome>>
        /\ \/ /\ pc[p] = "unmake" /\ pc'[p] = "unmaking" /\ Placed(p, "removing")
           \/ pc'[p] = "giveback" /\ UNCHANGED op
           \/ pc[p] = "unmaking" /\ pc'[p] = "giveback" /\ Emptied(p)
    BY Zenon, OpCalls, GotoIs DEF unmake, PC
  <1>2. Frame(p)
    <2>1. op' \in [Run -> OpType]
      BY Zenon, PlaceEffect, GoneEffect DEF TypeOK, PathInv, unmake, Rename, Place,
         OpOnly
    <2>2. Learned(p)
      BY Zenon DEF TypeOK, PathInv, unmake, Learned, JobOnly
    <2>3. Moved(p)
      BY Zenon, GotoEffect DEF PathInv, unmake, PC, Guarded
    <2>4. Reported(p)
      BY Zenon DEF TypeOK, PathInv, unmake, Reported
    <2>5. Rest
      BY Zenon, FaultEffect DEF TypeOK, PathInv, unmake, NoFault, Rest
    <2> QED  BY Zenon, <2>1, <2>2, <2>3, <2>4, <2>5, FrameParts DEF PathInv
  <1>3. PathInv'
    <2>1. PublishedHasManifest'
      BY Zenon, <1>1, ManifestCalls DEF OpState, Resumable
    <2>2. Goes(p)
      BY Zenon, <1>1, AtPath, KeepsCalls DEF Goes
    <2> QED  BY Zenon, <2>1, <2>2, <1>2, PathStep
  <1>4. Life /\ removals = 0 => Life'
    <2> SUFFICES ASSUME Life, removals = 0
                 PROVE  Life'
      OBVIOUS
    <2>0. /\ pc[p] \in {"unmake", "unmaking"} /\ UNCHANGED <<holder, lockFile, job, outcome>>
          /\ Frame(p) /\ PathInv'
      BY Zenon, <1>1, <1>2, <1>3
    <2>1. /\ pc[p] \in {"unmake", "unmaking"} /\ UNCHANGED <<holder, lockFile, job>>
          /\ Frame(p) /\ PathInv' /\ Fails(p) /\ Own(p) = None /\ Todo(p)' = Todo(p)
          /\ ~op[p].partial /\ Own(p)' = Own(p)
      BY Zenon, <2>0 DEF Todo, Fails, Life, OwnSays, Making, Own
    <2>2. CASE pc'[p] = "giveback" /\ UNCHANGED op
      BY Zenon, <2>1, <2>2, Quit DEF Making
    <2>3. CASE \/ pc'[p] = "unmaking" /\ Placed(p, "removing")
               \/ pc'[p] = "giveback" /\ Emptied(p)
      <3>1. /\ OpOnly(p) /\ ~op'[p].partial /\ op'[p].place # "there"
            /\ pc'[p] = "unmaking" => op'[p].place = "removing"
        BY Zenon, <2>1, <2>3 DEF Placed, Emptied, Absent
      <3>2. OpSays(p)' /\ ~Is(p, Resumable)'
        BY Zenon, <3>1 DEF OpSays, Is
      <3>3. OwnSays(p)'
        BY Zenon, <2>1, <2>3, <3>1 DEF OwnSays, Making, Resuming, Ending
      <3> QED
        BY Zenon, <2>1, <2>3, <3>1, <3>2, <3>3, MakeStep DEF Making, Unborn, HeldPC, PC
    <2> QED  BY Zenon, <2>2, <2>3, <1>1
  <1>5. Life /\ removals = 0 => \A x \in Run : Kept(x)
    <2> SUFFICES ASSUME Life, removals = 0
                 PROVE  \A x \in Run : Kept(x)
      BY Zenon
    <2>1. \/ pc[p] = "unmake" /\ OpOnly(p) /\ op'[p].place = "removing"
          \/ pc[p] = "unmaking" /\ OpOnly(p) /\ op[p].place = "removing"
          \/ UNCHANGED op
      BY Zenon, <1>1 DEF Placed, Emptied, Life, OwnSays
    <2>2. pc[p] = "unmake" /\ op'[p].place = "removing" => Kept(p)
      BY Zenon DEF Kept
    <2> QED  BY Zenon, <2>1, <2>2, KeptCalls, KeptAll
  <1> QED  BY Zenon, <1>2, <1>3, <1>4, <1>5 DEF Good

\* create_record keeps the invariant and every operation's progress.
LEMMA create_record_step ==
    ASSUME PathInv, NEW p \in Run, create_record(p)
    PROVE  Good(p)
  <1>1. /\ pc[p] = "create" /\ UNCHANGED <<holder, lockFile>>
        /\ \/ /\ pc'[p] = "record" /\ Wrote(p, "CREATED", FALSE)
              /\ Knows(p, IF Own(p) = None THEN p ELSE Own(p), "CREATED")
              /\ UNCHANGED outcome /\ Kind = "file"
           \/ /\ pc'[p] = "giveback" /\ Fails(p) /\ UNCHANGED job
              /\ UNCHANGED op \/ Wrote(p, "CREATED", FALSE)
    <2>1. Made(p, "CREATED", "record") =>
            /\ pc'[p] = "record" /\ UNCHANGED <<holder, lockFile, outcome>>
            /\ Knows(p, IF Own(p) = None THEN p ELSE Own(p), "CREATED")
      BY Zenon, JobCalls, GotoIs DEF Made, PC, OpState, Resumable
    <2>2. /\ op' = Written(p, "CREATED", FALSE) => Wrote(p, "CREATED", FALSE)
          /\ WriteErr(p, "CREATED", FALSE) => UNCHANGED op \/ Wrote(p, "CREATED", FALSE)
      BY Zenon, WriteCalls DEF OpState, Resumable
    <2> QED  BY Zenon, <2>1, <2>2, EndsIs DEF create_record
  <1>2. Frame(p)
    <2>1. op' \in [Run -> OpType]
      BY Zenon, WrittenEffect DEF TypeOK, PathInv, create_record, OpState, Resumable,
         WriteErr, OpOnly
    <2>2. Learned(p)
      <3>1. UNCHANGED job \/ Made(p, "CREATED", "record")
        BY Zenon DEF create_record, StateEnds, StateFails
      <3> QED
        BY Zenon, <3>1, MadeEffect DEF TypeOK, PathInv, Learned, JobOnly, OpState, Resumable
    <2>3. Moved(p)
      BY Zenon, GotoEffect DEF PathInv, create_record, StateEnds, StateFails, Made, PC,
         Guarded
    <2>4. Reported(p)
      BY Zenon, ReportEffect DEF TypeOK, PathInv, create_record, StateEnds, StateFails,
         Made, Reported
    <2>5. Rest
      BY Zenon, FaultEffect DEF TypeOK, PathInv, create_record, StateEnds, StateFails,
         Made, WriteErr, NoFault, Rest
    <2> QED  BY Zenon, <2>1, <2>2, <2>3, <2>4, <2>5, FrameParts DEF PathInv
  <1>3. PathInv'
    <2>1. PublishedHasManifest'
      BY Zenon, <1>1, ManifestCalls DEF OpState, Resumable
    <2>2. Goes(p)
      BY Zenon, <1>1, AtPath, KeepsCalls DEF Goes, Knows, Own, OpState,
         Resumable
    <2> QED  BY Zenon, <2>1, <2>2, <1>2, PathStep
  <1>4. Life /\ removals = 0 => Life'
    <2> SUFFICES ASSUME Life, removals = 0
                 PROVE  Life'
      OBVIOUS
    <2>1. /\ pc[p] = "create" /\ UNCHANGED <<holder, lockFile>>
          /\ Frame(p) /\ PathInv' /\ Fails(p) /\ Own(p) = None /\ Todo(p)' = Todo(p)
      BY Zenon, <1>1, <1>2, <1>3
         DEF Todo, Fails, Knows, Life, OwnSays, Making
    <2>2. CASE pc'[p] = "giveback" /\ UNCHANGED <<op, job>>
      BY Zenon, <2>1, <2>2, Quit DEF Making
    <2>3. CASE pc'[p] = "giveback" /\ UNCHANGED job /\ Wrote(p, "CREATED", FALSE)
      BY Zenon, <2>1, <2>3, BornStep
    <2>4. CASE /\ pc'[p] = "record" /\ Wrote(p, "CREATED", FALSE)
               /\ Knows(p, p, "CREATED") /\ Kind = "file"
      BY Zenon, <2>1, <2>4, BornStep
    <2> QED  BY Zenon, <2>1, <2>2, <2>3, <2>4, <1>1
  <1>5. Life /\ removals = 0 => \A x \in Run : Kept(x)
    <2> SUFFICES ASSUME Life, removals = 0
                 PROVE  \A x \in Run : Kept(x)
      BY Zenon
    <2>1. /\ pc[p] = "create" /\ (OpOnly(p) \/ UNCHANGED op)
      BY Zenon, <1>1 DEF Placed, Wrote
    <2>2. op[p].place # "there"
      BY SMTT(60), <2>1 DEF Life, FreshSays, Nothing, Absent
    <2> QED  BY Zenon, <2>1, <2>2, KeptCalls, KeptAll
  <1> QED  BY Zenon, <1>2, <1>3, <1>4, <1>5 DEF Good
=============================================================================
