-------------------------- MODULE OperationProofs --------------------------
(***************************************************************************)
(* How a run records its claim and works on the operations of others, the   *)
(* end of a run, the cleanup pass and the theorems: the lifecycle of an     *)
(* operation, proved for any number of runs and faults.                     *)
(* One lemma per action: what the action does (<1>1), that it leaves the    *)
(* other runs alone (<1>2), and that it keeps PathInv (<1>3), Life (<1>4)   *)
(* and every operation's progress (<1>5).                                   *)
(***************************************************************************)
EXTENDS OperationLemmas

USE RunAssumption, FlagAssumption, BoundAssumption

\* write_record keeps the invariant and every operation's progress.
LEMMA write_record_step ==
    ASSUME PathInv, NEW p \in Run, write_record(p)
    PROVE  Good(p)
  <1>1. /\ pc[p] = "record" /\ pc'[p] = "recording" /\ WriteLock(p, Torn)
        /\ UNCHANGED <<holder, op, job, outcome>>
    BY Zenon, GotoIs DEF write_record, PC
  <1>2. Frame(p)
    <2>1. op' \in [Run -> OpType]
      BY Zenon DEF TypeOK, PathInv, write_record
    <2>2. Learned(p)
      BY Zenon DEF TypeOK, PathInv, write_record, Learned, JobOnly
    <2>3. Moved(p)
      BY Zenon, GotoEffect DEF PathInv, write_record, PC, Guarded
    <2>4. Reported(p)
      BY Zenon DEF TypeOK, PathInv, write_record, Reported
    <2>5. Rest
      BY Zenon, LockEffect DEF TypeOK, PathInv, write_record, NoFault, Rest
    <2> QED  BY Zenon, <2>1, <2>2, <2>3, <2>4, <2>5, FrameParts DEF PathInv
  <1>3. PathInv'
    <2>1. PublishedHasManifest'
      BY Zenon, <1>1, ManifestCalls DEF OpState, Resumable
    <2>2. Goes(p)
      BY Zenon, <1>1, AtPath, KeepsCalls DEF Goes
    <2> QED  BY Zenon, <2>1, <2>2, <1>2, PathStep
  <1>4. Life /\ removals = 0 => Life'
    <2> SUFFICES ASSUME Life, removals = 0
                 PROVE  Life'
      OBVIOUS
    <2>1. /\ pc[p] = "record" /\ pc'[p] = "recording"
          /\ UNCHANGED <<holder, op, job, outcome>> /\ lockFile' = Torn
      BY Zenon, <1>1, Running DEF HeldPC, PC
    <2>2. LockSays(p)'
      BY Zenon, <2>1 DEF LockSays, Making, Recorded
    <2>3. OwnSays(p)'
      BY Zenon, <2>1 DEF Life, OwnSays, Making, Resuming, Ending, Own, Adopted, Is
    <2>4. TodoSays(p)'
      BY ZenonT(90), <2>1 DEF Life, TodoSays, Making, HeldPC, PC, Todo, Other, Own, Is
    <2>5. WaitSays(p)'
      BY Zenon, <2>1 DEF Life, WaitSays
    <2> QED
      BY Zenon, <2>1, <2>2, <2>3, <2>4, <2>5, SameStep, <1>2, <1>3
         DEF HeldPC, PC, Unborn, Fails, Absent, Torn
  <1>5. Life /\ removals = 0 => \A x \in Run : Kept(x)
    BY Zenon, <1>1, KeptCalls
  <1> QED  BY Zenon, <1>2, <1>3, <1>4, <1>5 DEF Good

\* record_written keeps the invariant and every operation's progress.
LEMMA record_written_step ==
    ASSUME PathInv, NEW p \in Run, record_written(p)
    PROVE  Good(p)
  <1>1. /\ pc[p] = "recording" /\ UNCHANGED <<holder, op>>
        /\ lockFile' = IF holder = p THEN RecordName(p) ELSE lockFile
        /\ \/ /\ pc'[p] = IF job[p].claimed THEN "takeover"
                          ELSE IF IsCleanup(p) THEN "row" ELSE "work"
              /\ UNCHANGED <<job, outcome>>
           \/ /\ holder # p /\ job[p].claimed /\ pc'[p] \in {"obtain", "ended"}
              /\ JobOnly(p) /\ job'[p].id = job[p].id /\ job'[p].mem = job[p].mem
              /\ job'[p].work = job[p].work /\ job'[p].rows = job[p].rows
              /\ Fails(p)
    <2>1. Again(p) /\ job[p].rounds < MaxRounds =>
            /\ JobOnly(p) /\ job'[p].id = job[p].id /\ job'[p].mem = job[p].mem
            /\ job'[p].work = job[p].work /\ job'[p].rows = job[p].rows
      BY Zenon, AgainEffect DEF PathInv, TypeOK
    <2>2. Goto(p, IF job[p].claimed THEN "takeover"
                  ELSE IF IsCleanup(p) THEN "row" ELSE "work") =>
            pc'[p] = IF job[p].claimed THEN "takeover"
                     ELSE IF IsCleanup(p) THEN "row" ELSE "work"
      BY Zenon, GotoIs DEF PC, Guarded
    <2>3. /\ Goto(p, "obtain") => pc'[p] = "obtain"
          /\ Goto(p, "ended") => pc'[p] = "ended"
          /\ Report(p, "refused") \/ UNCHANGED outcome => Fails(p)
          /\ UNCHANGED job => JobOnly(p)
      BY Zenon, GotoIs, ReportFails DEF PC, Fails, JobOnly, PathInv, TypeOK
    <2> QED  BY Zenon, <2>1, <2>2, <2>3 DEF record_written, WriteLock, Again
  <1>2. Frame(p)
    <2>1. op' \in [Run -> OpType]
      BY Zenon DEF TypeOK, PathInv, record_written
    <2>2. Learned(p)
      BY Zenon, AgainEffect DEF TypeOK, PathInv, record_written, Again, Learned, JobOnly
    <2>3. Moved(p)
      BY Zenon, GotoEffect DEF PathInv, record_written, PC, Guarded
    <2>4. Reported(p)
      BY Zenon, ReportEffect DEF TypeOK, PathInv, record_written, Reported
    <2>5. Rest
      BY Zenon, LockEffect DEF TypeOK, PathInv, record_written, NoFault, Rest
    <2> QED  BY Zenon, <2>1, <2>2, <2>3, <2>4, <2>5, FrameParts DEF PathInv
  <1>3. PathInv'
    <2>1. PublishedHasManifest'
      BY Zenon, <1>1, ManifestCalls DEF OpState, Resumable
    <2>2. Goes(p)
      BY Zenon, <1>1, AtPath, KeepsCalls DEF Goes, Keeps, Own
    <2> QED  BY Zenon, <2>1, <2>2, <1>2, PathStep
  <1>4. Life /\ removals = 0 => Life'
    <2> SUFFICES ASSUME Life, removals = 0
                 PROVE  Life'
      OBVIOUS
    <2>0. pc[p] = "recording" /\ holder = p /\ Frame(p) /\ PathInv'
      BY Zenon, <1>1, <1>2, <1>3, OthersIdle
         DEF HeldPC, PC
    <2>1. /\ pc'[p] = IF job[p].claimed THEN "takeover"
                      ELSE IF IsCleanup(p) THEN "row" ELSE "work"
          /\ lockFile' = RecordName(p) /\ UNCHANGED <<holder, op, job, outcome>>
      BY Zenon, <2>0, <1>1
    <2>2. lockFile' # Absent
      BY Zenon, <2>1 DEF RecordName, PathInv, TypeOK, JobType, Own, Absent, None
    <2>3. LockSays(p)'
      BY Zenon, <2>1 DEF LockSays, Making, Recorded, RecordName, Own, IsCleanup
    <2>4. OwnSays(p)'
      BY ZenonT(60), <2>0, <2>1 DEF Life, OwnSays, Making, Resuming, Ending, Own, Adopted, Is,
         IsCleanup
    <2>5. TodoSays(p)'
      BY ZenonT(90), <2>0, <2>1 DEF Life, TodoSays, Making, HeldPC, PC, Guarded, Todo, Other, Own, Is,
         IsCleanup
    <2>6. WaitSays(p)'
      BY Zenon, <2>0, <2>1 DEF WaitSays, Life
    <2> QED
      BY Zenon, <2>0, <2>1, <2>2, <2>3, <2>4, <2>5, <2>6, SameStep
         DEF HeldPC, PC, Guarded, Unborn, Fails
  <1>5. Life /\ removals = 0 => \A x \in Run : Kept(x)
    BY Zenon, <1>1, KeptCalls
  <1> QED  BY Zenon, <1>2, <1>3, <1>4, <1>5 DEF Good

\* RecordFails keeps the invariant and every operation's progress.
LEMMA RecordFails_step ==
    ASSUME PathInv, NEW p \in Run, RecordFails(p)
    PROVE  Good(p)
  <1>1. /\ pc[p] = "recording" /\ Fails(p) /\ UNCHANGED <<op, job>>
        /\ WriteLock(p, RecordName(p)) \/ UNCHANGED lockFile
        /\ IF job[p].claimed THEN Unhold(p) /\ pc'[p] = "ended"
           ELSE UNCHANGED holder /\ pc'[p] = "giveback"
    BY Zenon, GotoIs, ReportFails DEF RecordFails, PC
  <1>2. Frame(p)
    <2>1. op' \in [Run -> OpType]
      BY Zenon DEF TypeOK, PathInv, RecordFails
    <2>2. Learned(p)
      BY Zenon DEF TypeOK, PathInv, RecordFails, Learned, JobOnly
    <2>3. Moved(p)
      BY Zenon, GotoEffect DEF PathInv, RecordFails, PC, Guarded
    <2>4. Reported(p)
      BY Zenon, ReportEffect DEF TypeOK, PathInv, RecordFails, Reported
    <2>5. Rest
      BY Zenon, FaultEffect, LockEffect DEF TypeOK, PathInv, RecordFails, NoFault, Rest
    <2> QED  BY Zenon, <2>1, <2>2, <2>3, <2>4, <2>5, FrameParts DEF PathInv
  <1>3. PathInv'
    <2>1. PublishedHasManifest'
      BY Zenon, <1>1, ManifestCalls DEF OpState, Resumable
    <2>2. Goes(p)
      BY Zenon, <1>1, AtPath, KeepsCalls DEF Goes
    <2> QED  BY Zenon, <2>1, <2>2, <1>2, PathStep
  <1>4. Life /\ removals = 0 => Life'
    <2> SUFFICES ASSUME Life, removals = 0
                 PROVE  Life'
      OBVIOUS
    <2>0. /\ pc[p] = "recording" /\ pc[p] \in HeldPC /\ Fails(p) /\ UNCHANGED <<op, job>>
          /\ lockFile' = RecordName(p) \/ UNCHANGED lockFile
          /\ Frame(p) /\ PathInv' /\ lockFile = Torn
      BY Zenon, <1>1, <1>2, <1>3, Running
         DEF HeldPC, PC, Life, LockSays
    <2>1. lockFile' \in Run => op[lockFile'].place = "there"
      BY SMTT(30), <2>0 DEF RecordName, Life, OwnSays, Resuming, Is, Torn
    <2>2. lockFile' # Absent
      BY Zenon, <2>0 DEF RecordName, PathInv, TypeOK, JobType, Own, Absent, None, Torn
    <2>3. CASE job[p].claimed
      <3>1. Unhold(p) /\ pc'[p] = "ended"
        BY Zenon, <2>3, <1>1
      <3> QED  BY Zenon, <2>0, <2>1, <3>1, EndStep DEF Own
    <2>4. CASE ~job[p].claimed
      <3>1. UNCHANGED holder /\ pc'[p] = "giveback"
        BY Zenon, <2>4, <1>1
      <3>2. LockSays(p)' /\ OwnSays(p)' /\ TodoSays(p)'
        BY Zenon, <3>1 DEF LockSays, OwnSays, TodoSays, Making, Recorded, Resuming, Ending
      <3>3. WaitSays(p)'
        BY Zenon, <2>0, <3>1 DEF WaitSays, Life, Fails
      <3> QED
        BY Zenon, <2>0, <2>1, <2>2, <3>1, <3>2, <3>3, SameStep DEF HeldPC, PC, Unborn
    <2> QED  BY Zenon, <2>3, <2>4
  <1>5. Life /\ removals = 0 => \A x \in Run : Kept(x)
    BY Zenon, <1>1, KeptCalls
  <1> QED  BY Zenon, <1>2, <1>3, <1>4, <1>5 DEF Good

\* takeover keeps the invariant and every operation's progress.
LEMMA takeover_step ==
    ASSUME PathInv, NEW p \in Run, takeover(p)
    PROVE  Good(p)
  <1>1. /\ pc[p] = "takeover" /\ ~IsCleanup(p) /\ Own(p) \in Run
        /\ job[p].mem \in OpState /\ UNCHANGED <<holder, lockFile, job>>
        /\ \/ pc'[p] = "work" /\ Wrote(Own(p), job[p].mem, FALSE) /\ UNCHANGED outcome
           \/ /\ pc'[p] = "fail" /\ Fails(p)
              /\ UNCHANGED op \/ Wrote(Own(p), job[p].mem, FALSE)
    <2>1. pc[p] = "takeover" /\ ~IsCleanup(p) /\ Own(p) \in Run /\ job[p].mem \in OpState
      BY Zenon, CopyOnly DEF takeover
    <2>2. /\ WriteOk(Own(p), job[p].mem, FALSE) => Wrote(Own(p), job[p].mem, FALSE)
          /\ WriteErr(Own(p), job[p].mem, FALSE) =>
               UNCHANGED op \/ Wrote(Own(p), job[p].mem, FALSE)
      BY Zenon, <2>1, WriteCalls
    <2> QED  BY Zenon, <2>1, <2>2, EndsIs DEF takeover, PC, Guarded
  <1>2. Frame(p)
    <2>0. Own(p) \in Run /\ job[p].mem \in OpState
      <3>1. pc[p] = "takeover" /\ PathSays(p) /\ job[p].mem \in OpState \cup {None}
        BY Zenon DEF TypeOK, PathInv, takeover, JobType
      <3> QED  BY Zenon, <3>1 DEF PathSays, Resuming, Ending
    <2>1. op' \in [Run -> OpType]
      BY Zenon, <2>0, WrittenEffect DEF TypeOK, PathInv, takeover, OpOnly, WriteOk, WriteErr
    <2>2. Learned(p)
      BY Zenon DEF TypeOK, PathInv, takeover, Step, stop_after_record, Learned, JobOnly
    <2>3. Moved(p)
      BY Zenon, GotoEffect DEF PathInv, takeover, Step, stop_after_record, PC, Guarded
    <2>4. Reported(p)
      BY Zenon, ReportEffect DEF TypeOK, PathInv, takeover, Step, stop_after_record,
         Reported
    <2>5. Rest
      BY Zenon, FaultEffect DEF TypeOK, PathInv, takeover, Step, stop_after_record,
         WriteOk, WriteErr, NoFault, Rest
    <2> QED  BY Zenon, <2>1, <2>2, <2>3, <2>4, <2>5, FrameParts DEF PathInv
  <1>3. PathInv'
    <2>1. PublishedHasManifest'
      BY Zenon, <1>1, ManifestCalls DEF OpState, Resumable
    <2>2. Goes(p)
      BY Zenon, <1>1, AtPath, KeepsCalls DEF Goes
    <2> QED  BY Zenon, <2>1, <2>2, <1>2, PathStep
  <1>4. Life /\ removals = 0 => Life'
    <2> SUFFICES ASSUME Life, removals = 0
                 PROVE  Life'
      OBVIOUS
    <2>1. /\ pc[p] = "takeover" /\ ~IsCleanup(p) /\ UNCHANGED <<holder, lockFile, job>>
          /\ Frame(p) /\ PathInv' /\ Fails(p) /\ pc[p] \in Resuming
      BY Zenon, <1>1, <1>2, <1>3 DEF Fails, Resuming
    <2>2. PICK o \in Run : Own(p) = o
      BY Zenon, <1>1
    <2>3. PICK s \in Resumable : s = job[p].mem
      BY Zenon, <2>1, Working
    <2>4. /\ UNCHANGED op \/ Wrote(o, s, FALSE)
          /\ pc'[p] \in {"work", "fail"}
      BY Zenon, <2>2, <2>3, <1>1
    <2>5. /\ OpOnly(o) /\ OpSays(o)' /\ Is(o, Resumable)' /\ Is(o, Resumable)
          /\ op'[o].partial = op[o].partial /\ op'[o].store = op[o].store
      BY Zenon, <2>1, <2>2, <2>4, ResumableWrite
    <2>6. CASE pc'[p] = "fail"
      BY Zenon, <2>1, <2>2, <2>5, <2>6, StopStep DEF Is, OpState, Resumable
    <2>7. CASE pc'[p] = "work"
      <3>1. Own(p)' = o /\ Todo(p)' = Todo(p) /\ job'[p].mem = s
        BY Zenon, <2>1, <2>2, <2>3 DEF Own, Todo
      <3>2. /\ op[o].place # Absent /\ (Kind = "tree" => op[o].store = "ok")
            /\ lockFile \in {o, Torn} /\ (~Adopted(p) => ~op[p].partial)
        BY Zenon, <2>1, <2>2, Working
      <3>3. LockSays(p)'
        BY Zenon, <2>1, <2>7, <3>1, <3>2 DEF LockSays, Making, Recorded, RecordName, IsCleanup
      <3>4. OwnSays(p)'
        BY ZenonT(60), <2>1, <2>2, <2>5, <2>7, <3>1, <3>2
           DEF OwnSays, Making, Resuming, Ending, Adopted, Is, OpState, Resumable, None
      <3>5. WaitSays(p)'
        BY Zenon, <2>1, <2>7 DEF WaitSays, Life, Fails
      <3>6. TodoSays(p)'
        BY Zenon, <2>1, <2>2, <2>5, <2>7, <3>1, TodoOwn
           DEF Planning, Settled, Copying, Making, HeldPC, PC, Guarded
      <3> QED
        BY Zenon, <2>1, <2>2, <2>5, <2>7, <3>1, <3>2, <3>3, <3>4, <3>5, <3>6, OwnStep
           DEF HeldPC, PC, Guarded, Unborn
    <2> QED  BY Zenon, <2>4, <2>6, <2>7
  <1>5. Life /\ removals = 0 => \A x \in Run : Kept(x)
    <2> SUFFICES ASSUME Life, removals = 0
                 PROVE  \A x \in Run : Kept(x)
      BY Zenon
    <2>1. /\ pc[p] \in {"takeover", "transfer"} /\ ~IsCleanup(p) /\ Own(p) \in Run
          /\ \/ UNCHANGED op
             \/ Wrote(Own(p), job[p].mem, FALSE)
             \/ Wrote(Own(p), "TRANSFERRING", FALSE)
      BY Zenon, <1>1
    <2>2. Is(Own(p), Resumable) /\ job[p].mem \in Resumable
      BY Zenon, <2>1 DEF Life, OwnSays, Resuming
    <2>3. PICK o \in Run : o = Own(p)
      BY Zenon, <2>1
    <2>4. UNCHANGED op \/ (OpOnly(o) /\ Is(o, Resumable)')
      BY Zenon, <2>1, <2>2, <2>3 DEF Wrote, Is, Resumable
    <2> QED  BY Zenon, <2>2, <2>3, <2>4, KeptCalls, KeptAll
  <1> QED  BY Zenon, <1>2, <1>3, <1>4, <1>5 DEF Good

\* give_back keeps the invariant and every operation's progress.
LEMMA give_back_step ==
    ASSUME PathInv, NEW p \in Run, give_back(p)
    PROVE  Good(p)
  <1>1. /\ pc[p] = "giveback" /\ pc'[p] = "ended" /\ Unhold(p)
        /\ (holder = p /\ lockFile' = Absent) \/ UNCHANGED lockFile
        /\ UNCHANGED <<op, job, outcome>>
    BY Zenon, GotoIs DEF give_back, PC
  <1>2. Frame(p)
    <2>1. op' \in [Run -> OpType]
      BY Zenon DEF TypeOK, PathInv, give_back
    <2>2. Learned(p)
      BY Zenon DEF TypeOK, PathInv, give_back, Learned, JobOnly
    <2>3. Moved(p)
      BY Zenon, GotoEffect DEF PathInv, give_back, PC, Guarded
    <2>4. Reported(p)
      BY Zenon DEF TypeOK, PathInv, give_back, Reported
    <2>5. Rest
      BY Zenon, FaultEffect, LockEffect DEF TypeOK, PathInv, give_back, NoFault, Rest
    <2> QED  BY Zenon, <2>1, <2>2, <2>3, <2>4, <2>5, FrameParts DEF PathInv
  <1>3. PathInv'
    <2>1. PublishedHasManifest'
      BY Zenon, <1>1, ManifestCalls DEF OpState, Resumable
    <2>2. Goes(p)
      BY Zenon, <1>1, AtPath, KeepsCalls DEF Goes
    <2> QED  BY Zenon, <2>1, <2>2, <1>2, PathStep
  <1>4. Life /\ removals = 0 => Life'
    <2> SUFFICES ASSUME Life, removals = 0
                 PROVE  Life'
      OBVIOUS
    <2> QED
      BY Zenon, <1>1, <1>2, <1>3, EndStep
         DEF HeldPC, PC, Own, Fails
  <1>5. Life /\ removals = 0 => \A x \in Run : Kept(x)
    BY Zenon, <1>1, KeptCalls
  <1> QED  BY Zenon, <1>2, <1>3, <1>4, <1>5 DEF Good

\* transfer keeps the invariant and every operation's progress.
LEMMA transfer_step ==
    ASSUME PathInv, NEW p \in Run, transfer(p)
    PROVE  Good(p)
  <1>1. /\ pc[p] = "transfer" /\ ~IsCleanup(p) /\ Own(p) \in Run
        /\ UNCHANGED <<holder, lockFile>>
        /\ \/ /\ pc'[p] = "copy" /\ Wrote(Own(p), "TRANSFERRING", FALSE)
              /\ Knows(p, Own(p), "TRANSFERRING") /\ UNCHANGED outcome
           \/ /\ pc'[p] = "fail" /\ Fails(p) /\ UNCHANGED job
              /\ UNCHANGED op \/ Wrote(Own(p), "TRANSFERRING", FALSE)
    <2>1. pc[p] = "transfer" /\ ~IsCleanup(p) /\ Own(p) \in Run
      BY Zenon, CopyOnly DEF transfer
    <2>2. /\ WriteOk(Own(p), "TRANSFERRING", FALSE) => Wrote(Own(p), "TRANSFERRING", FALSE)
          /\ WriteErr(Own(p), "TRANSFERRING", FALSE) =>
               UNCHANGED op \/ Wrote(Own(p), "TRANSFERRING", FALSE)
      BY Zenon, <2>1, WriteCalls DEF OpState, Resumable
    <2>3. job' = [job EXCEPT ![p].mem = "TRANSFERRING"] => Knows(p, Own(p), "TRANSFERRING")
      BY Zenon, JobCalls DEF OpState, Resumable
    <2> QED  BY Zenon, <2>1, <2>2, <2>3, EndsIs, GotoIs DEF transfer, PC, Guarded
  <1>2. Frame(p)
    <2>1. op' \in [Run -> OpType]
      BY Zenon, WrittenEffect DEF TypeOK, PathInv, transfer, WriteOk, WriteErr,
         OpState, Resumable, OpOnly
    <2>2. Learned(p)
      BY Zenon, MemEffect DEF TypeOK, PathInv, transfer, OpState, Resumable,
         stop_after_record, Learned, JobOnly
    <2>3. Moved(p)
      BY Zenon, GotoEffect DEF PathInv, transfer, stop_after_record, PC, Guarded
    <2>4. Reported(p)
      BY Zenon, ReportEffect DEF TypeOK, PathInv, transfer, stop_after_record, Reported
    <2>5. Rest
      BY Zenon, FaultEffect DEF TypeOK, PathInv, transfer, stop_after_record, WriteOk,
         WriteErr, NoFault, Rest
    <2> QED  BY Zenon, <2>1, <2>2, <2>3, <2>4, <2>5, FrameParts DEF PathInv
  <1>3. PathInv'
    <2>1. PublishedHasManifest'
      BY Zenon, <1>1, ManifestCalls DEF OpState, Resumable
    <2>2. Goes(p)
      BY Zenon, <1>1, AtPath, KeepsCalls DEF Goes, Knows, Own, OpState,
         Resumable
    <2> QED  BY Zenon, <2>1, <2>2, <1>2, PathStep
  <1>4. Life /\ removals = 0 => Life'
    <2> SUFFICES ASSUME Life, removals = 0
                 PROVE  Life'
      OBVIOUS
    <2>1. /\ pc[p] = "transfer" /\ ~IsCleanup(p) /\ UNCHANGED <<holder, lockFile>>
          /\ Frame(p) /\ PathInv' /\ Fails(p) /\ pc[p] \in Resuming
      BY Zenon, <1>1, <1>2, <1>3 DEF Fails, Resuming
    <2>2. PICK o \in Run : Own(p) = o
      BY Zenon, <1>1
    <2>4. UNCHANGED op \/ Wrote(o, "TRANSFERRING", FALSE)
      BY Zenon, <2>2, <1>1
    <2>5. /\ OpOnly(o) /\ OpSays(o)' /\ Is(o, Resumable)' /\ Is(o, Resumable)
          /\ op'[o].partial = op[o].partial /\ op'[o].store = op[o].store
      <3>1. "TRANSFERRING" \in Resumable
        BY Zenon DEF Resumable
      <3> QED  BY Zenon, <2>1, <2>2, <2>4, <3>1, ResumableWrite
    <2>6. CASE pc'[p] = "fail" /\ UNCHANGED job
      BY Zenon, <2>1, <2>2, <2>5, <2>6, StopStep DEF Is, OpState, Resumable
    <2>7. CASE pc'[p] = "copy" /\ Knows(p, o, "TRANSFERRING")
      <3>1. Own(p)' = o /\ Todo(p)' = Todo(p) /\ job'[p].mem \in Resumable
        BY Zenon, <2>7 DEF Own, Todo, Knows, Resumable
      <3>2. /\ op[o].place # Absent /\ (Kind = "tree" => op[o].store = "ok")
            /\ lockFile \in {o, Torn} /\ (~Adopted(p) => ~op[p].partial)
        BY Zenon, <2>1, <2>2, Working
      <3>3. LockSays(p)'
        BY Zenon, <2>1, <2>7, <3>1, <3>2 DEF LockSays, Making, Recorded, RecordName, IsCleanup
      <3>4. OwnSays(p)'
        BY ZenonT(60), <2>1, <2>2, <2>5, <2>7, <3>1, <3>2
           DEF OwnSays, Making, Resuming, Ending, Adopted, Is, OpState, Resumable, None
      <3>5. WaitSays(p)'
        BY Zenon, <2>1, <2>7 DEF WaitSays, Life, Fails
      <3>6. TodoSays(p)'
        BY Zenon, <2>1, <2>2, <2>5, <2>7, <3>1, TodoOwn
           DEF Planning, Settled, Copying, Making, HeldPC, PC, Guarded
      <3> QED
        BY Zenon, <2>1, <2>2, <2>5, <2>7, <3>1, <3>2, <3>3, <3>4, <3>5, <3>6, OwnStep
           DEF HeldPC, PC, Guarded, Unborn
    <2> QED  BY Zenon, <2>2, <2>6, <2>7, <1>1
  <1>5. Life /\ removals = 0 => \A x \in Run : Kept(x)
    <2> SUFFICES ASSUME Life, removals = 0
                 PROVE  \A x \in Run : Kept(x)
      BY Zenon
    <2>1. /\ pc[p] \in {"takeover", "transfer"} /\ ~IsCleanup(p) /\ Own(p) \in Run
          /\ \/ UNCHANGED op
             \/ Wrote(Own(p), job[p].mem, FALSE)
             \/ Wrote(Own(p), "TRANSFERRING", FALSE)
      BY Zenon, <1>1
    <2>2. Is(Own(p), Resumable) /\ job[p].mem \in Resumable
      BY Zenon, <2>1 DEF Life, OwnSays, Resuming
    <2>3. PICK o \in Run : o = Own(p)
      BY Zenon, <2>1
    <2>4. UNCHANGED op \/ (OpOnly(o) /\ Is(o, Resumable)')
      BY Zenon, <2>1, <2>2, <2>3 DEF Wrote, Is, Resumable
    <2> QED  BY Zenon, <2>2, <2>3, <2>4, KeptCalls, KeptAll
  <1> QED  BY Zenon, <1>2, <1>3, <1>4, <1>5 DEF Good

\* sweep_unlistable keeps the invariant and every operation's progress.
LEMMA sweep_unlistable_step ==
    ASSUME PathInv, NEW p \in Run, sweep_unlistable(p)
    PROVE  Good(p)
  <1>1. /\ pc[p] = "work" /\ UNCHANGED <<holder, lockFile, op>>
        /\ \/ /\ pc'[p] = "work" /\ WorkOnly(p) /\ Other(p)' \subseteq Other(p)
              /\ Todo(p)'.remove \subseteq Todo(p).remove
              /\ Todo(p)'.finish = Todo(p).finish
              /\ Todo(p)'.abandon = Todo(p).abandon /\ UNCHANGED outcome
           \/ pc'[p] = "fail" /\ ~IsCleanup(p) /\ Fails(p) /\ UNCHANGED job
    <2> DEFINE w == [Todo(p) EXCEPT !.keep = Todo(p).sweep]
    <2>1. Todo(p) \in WorkType
      BY Zenon DEF PathInv, TypeOK, JobType, Todo
    <2>2. /\ w \in WorkType /\ w.abandon = Todo(p).abandon /\ w.sweep = Todo(p).sweep
          /\ w.keep = Todo(p).sweep /\ w.remove = Todo(p).remove
          /\ w.retiring = Todo(p).retiring /\ w.finish = Todo(p).finish
          /\ w.debris = Todo(p).debris
      BY Zenon, <2>1 DEF WorkType
    <2>3. /\ pc[p] = "work" /\ UNCHANGED op
          /\ \/ SetWork(p, w) /\ Worked(p)
             \/ ~IsCleanup(p) /\ stop_after_record(p)
      BY Zenon DEF sweep_unlistable, AtWork
    <2> HIDE DEF w
    <2>4. CASE SetWork(p, w) /\ Worked(p)
      <3>1. WorkOnly(p) /\ job'[p].work = w
        BY Zenon, <2>2, <2>4, WorkEffect DEF PathInv, TypeOK
      <3>2. pc'[p] = "work" /\ UNCHANGED <<holder, lockFile, outcome>>
        BY Zenon, <2>4, GotoIs DEF Worked, PC, Guarded
      <3> QED  BY Zenon, <2>2, <2>3, <3>1, <3>2 DEF Todo, Other
    <2>5. CASE ~IsCleanup(p) /\ stop_after_record(p)
      BY Zenon, <2>3, <2>5, EndsIs
    <2> QED  BY Zenon, <2>3, <2>4, <2>5
  <1>2. Frame(p)
    <2>1. op' \in [Run -> OpType]
      BY Zenon DEF TypeOK, PathInv, sweep_unlistable
    <2>2. Learned(p)
      <3> DEFINE w == [Todo(p) EXCEPT !.keep = Todo(p).sweep]
      <3>0. Todo(p) \in WorkType
        BY Zenon DEF TypeOK, PathInv, Todo, JobType
      <3>1. w \in WorkType
        BY Zenon, <3>0 DEF WorkType
      <3>2. UNCHANGED job \/ SetWork(p, w)
        BY Zenon DEF sweep_unlistable, stop_after_record
      <3> QED
        BY Zenon, <3>1, <3>2, WorkEffect DEF TypeOK, PathInv, Learned, WorkOnly, JobOnly
    <2>3. Moved(p)
      BY Zenon, GotoEffect DEF PathInv, sweep_unlistable, stop_after_record, Worked,
         PC, Guarded
    <2>4. Reported(p)
      BY Zenon, ReportEffect DEF TypeOK, PathInv, sweep_unlistable, stop_after_record,
         Worked, Reported
    <2>5. Rest
      BY Zenon, FaultEffect DEF TypeOK, PathInv, sweep_unlistable, stop_after_record,
         Worked, NoFault, Rest
    <2> QED  BY Zenon, <2>1, <2>2, <2>3, <2>4, <2>5, FrameParts DEF PathInv
  <1>3. PathInv'
    <2>1. PublishedHasManifest'
      BY Zenon, <1>1, ManifestCalls DEF OpState, Resumable
    <2>2. Goes(p)
      BY Zenon, <1>1, AtPath, KeepsCalls DEF Goes
    <2> QED  BY Zenon, <2>1, <2>2, <1>2, PathStep
  <1>4. Life /\ removals = 0 => Life'
    <2> SUFFICES ASSUME Life, removals = 0
                 PROVE  Life'
      OBVIOUS
    <2>1. /\ pc[p] = "work" /\ UNCHANGED <<holder, lockFile, op>>
          /\ Frame(p) /\ PathInv' /\ Fails(p)
      BY Zenon, <1>1, <1>2, <1>3 DEF Fails
    <2>2. PICK o \in Todo(p).sweep : TRUE
      BY Zenon DEF sweep_unlistable
    <2>3. o \in Run /\ o \in Other(p)
      BY Zenon, <2>2 DEF PathInv, TypeOK, JobType, WorkType, Todo, Other
    <2>4. OpOnly(o) /\ OpSays(o)'
      BY Zenon, <2>1, <2>3, SameOp
    <2>5. /\ o # p /\ o # Own(p) /\ ~Is(o, Resumable) /\ ~Is(o, Resumable)'
          /\ o \in Todo(p).remove => ~op[o].partial
          /\ Is(o, {"ABANDONED"})' => Is(o, {"ABANDONED"})
      BY Zenon, <2>1, <2>3, WorkFacts DEF Is
    <2>6. op[o] # Nothing \/ op'[o] = Nothing
      BY Zenon, <2>1
    <2>7. CASE pc'[p] = "fail" /\ ~IsCleanup(p) /\ UNCHANGED job
      <3>1. TodoSays(p)'
        BY Zenon, <2>7 DEF TodoSays, Making
      <3>2. JobOnly(p)
        BY Zenon, <2>7 DEF JobOnly, PathInv, TypeOK
      <3> QED  BY Zenon, <2>1, <2>3, <2>4, <2>5, <2>6, <2>7, <3>1, <3>2, OtherStep
    <2>8. CASE /\ pc'[p] = "work" /\ WorkOnly(p) /\ Other(p)' \subseteq Other(p)
               /\ Todo(p)'.remove \subseteq Todo(p).remove
               /\ Todo(p)'.finish = Todo(p).finish
               /\ Todo(p)'.abandon = Todo(p).abandon /\ UNCHANGED outcome
      BY Zenon, <2>1, <2>3, <2>4, <2>5, <2>6, <2>8, FinalStep
    <2> QED  BY Zenon, <2>7, <2>8, <1>1
  <1>5. Life /\ removals = 0 => \A x \in Run : Kept(x)
    BY Zenon, <1>1, KeptCalls
  <1> QED  BY Zenon, <1>2, <1>3, <1>4, <1>5 DEF Good

\* work_done keeps the invariant and every operation's progress.
LEMMA work_done_step ==
    ASSUME PathInv, NEW p \in Run, work_done(p)
    PROVE  Good(p)
  <1>1. /\ pc[p] = "work" /\ UNCHANGED <<holder, lockFile, op, outcome>>
        /\ pc'[p] = IF IsCleanup(p) THEN "row" ELSE "transfer"
        /\ WorkOnly(p) /\ Todo(p).abandon = {} /\ Todo(p)' = NoWork
    <2>1. NoWork \in WorkType
      BY Zenon DEF NoWork, WorkType
    <2>2. WorkOnly(p) /\ Todo(p)' = NoWork
      BY Zenon, <2>1, WorkEffect DEF work_done, PathInv, TypeOK, Todo
    <2>3. Todo(p).abandon = {}
      <3>1. Todo(p) \in WorkType
        BY Zenon DEF PathInv, TypeOK, JobType, Todo
      <3>2. [Todo(p) EXCEPT !.keep = {}].abandon = Todo(p).abandon
        BY Zenon, <3>1 DEF WorkType
      <3>3. [Todo(p) EXCEPT !.keep = {}] = NoWork
        BY Zenon DEF work_done, WorkLeft
      <3> QED  BY Zenon, <3>2, <3>3 DEF NoWork
    <2>4. pc'[p] = IF IsCleanup(p) THEN "row" ELSE "transfer"
      BY Zenon, GotoIs DEF work_done, PC, Guarded
    <2> QED  BY Zenon, <2>2, <2>3, <2>4 DEF work_done
  <1>2. Frame(p)
    <2>1. op' \in [Run -> OpType]
      BY Zenon DEF TypeOK, PathInv, work_done
    <2>2. Learned(p)
      <3>1. NoWork \in WorkType
        BY Zenon DEF NoWork, WorkType
      <3> QED
        BY Zenon, <3>1, WorkEffect DEF TypeOK, PathInv, work_done, Learned, WorkOnly
    <2>3. Moved(p)
      BY Zenon, GotoEffect DEF PathInv, work_done, PC, Guarded
    <2>4. Reported(p)
      BY Zenon DEF TypeOK, PathInv, work_done, Reported
    <2>5. Rest
      BY Zenon DEF TypeOK, PathInv, work_done, NoFault, Rest
    <2> QED  BY Zenon, <2>1, <2>2, <2>3, <2>4, <2>5, FrameParts DEF PathInv
  <1>3. PathInv'
    <2>1. PublishedHasManifest'
      BY Zenon, <1>1, ManifestCalls DEF OpState, Resumable
    <2>2. Goes(p)
      BY Zenon, <1>1, AtPath, KeepsCalls DEF Goes
    <2> QED  BY Zenon, <2>1, <2>2, <1>2, PathStep
  <1>4. Life /\ removals = 0 => Life'
    <2> SUFFICES ASSUME Life, removals = 0
                 PROVE  Life'
      OBVIOUS
    <2>1. /\ pc[p] = "work" /\ UNCHANGED <<holder, lockFile, op, outcome>>
          /\ pc'[p] = IF IsCleanup(p) THEN "row" ELSE "transfer"
          /\ WorkOnly(p) /\ Todo(p).abandon = {} /\ Todo(p)' = NoWork
          /\ Frame(p) /\ PathInv' /\ Fails(p)
      BY Zenon, <1>1, <1>2, <1>3 DEF Fails
    <2>2. /\ Idle(p) /\ lockFile # Absent /\ pc[p] \in HeldPC /\ pc'[p] \in HeldPC
      BY Zenon, <2>1, OthersIdle DEF HeldPC, PC, Guarded
    <2>3. Own(p)' = Own(p) /\ job'[p].mem = job[p].mem
      BY Zenon, <2>1 DEF WorkOnly, Own
    <2>4. World(p)
      BY Zenon, <2>1, <2>2, <2>3, Unchanged DEF Knowing
    <2>5. LockSays(p)'
      BY Zenon, <2>1, <2>3 DEF Life, LockSays, Making, Recorded, RecordName, IsCleanup
    <2>6. OwnSays(p)'
      BY SMTT(60), <2>1, <2>3 DEF Life, OwnSays, Making, Resuming, Ending, Is, Adopted, IsCleanup
    <2>7. TodoSays(p)'
      <3>1. /\ Todo(p)'.abandon = {} /\ Other(p)' = {} /\ Todo(p)'.remove = {}
            /\ Todo(p)'.finish = {}
        BY Zenon, <2>1, NoWorkIs DEF Other
      <3>2. ~IsCleanup(p) => \A o \in Run \ {p, Own(p)'} : ~Is(o, Resumable)'
        BY Zenon, <2>1, <2>3 DEF Life, TodoSays, HeldPC, PC, Guarded, Is
      <3> QED  BY Zenon, <3>1, <3>2 DEF TodoSays, IsCleanup
    <2>8. WaitSays(p)'
      BY Zenon, <2>1, <2>3 DEF Life, WaitSays, Fails
    <2>9. FreshSays(p)'
      BY Zenon, <2>1, <2>3, FreshStep DEF Unborn
    <2> QED
      BY Zenon, <2>1, <2>2, <2>4, <2>5, <2>6, <2>7, <2>8, <2>9, HeldStep DEF Runs
  <1>5. Life /\ removals = 0 => \A x \in Run : Kept(x)
    BY Zenon, <1>1, KeptCalls
  <1> QED  BY Zenon, <1>2, <1>3, <1>4, <1>5 DEF Good

\* abandon keeps the invariant and every operation's progress.
LEMMA abandon_step ==
    ASSUME PathInv, NEW p \in Run, NEW o \in Run, abandon(p, o)
    PROVE  Good(p)
  <1>1. /\ pc[p] = "work" /\ o \in Todo(p).abandon /\ UNCHANGED <<holder, lockFile>>
        /\ UNCHANGED op \/ Wrote(o, "ABANDONED", FALSE)
        /\ \/ /\ pc'[p] = "work" /\ Wrote(o, "ABANDONED", FALSE)
              /\ Passed(p, o, "abandon", "sweep") /\ UNCHANGED outcome
           \/ /\ pc'[p] = "work" /\ IsCleanup(p)
              /\ Dropped(p, o, "abandon") /\ UNCHANGED outcome
           \/ pc'[p] = "fail" /\ ~IsCleanup(p) /\ Fails(p) /\ UNCHANGED job
    <2>1. /\ WriteOk(o, "ABANDONED", FALSE) => Wrote(o, "ABANDONED", FALSE)
          /\ WriteErr(o, "ABANDONED", FALSE) =>
               UNCHANGED op \/ Wrote(o, "ABANDONED", FALSE)
      BY Zenon, WriteCalls DEF OpState
    <2>2. /\ Drop(p, o, "abandon") => Dropped(p, o, "abandon")
          /\ Move(p, o, "abandon", "sweep") => Passed(p, o, "abandon", "sweep")
      BY Zenon, WorkCalls DEF Phase
    <2>3. Worked(p) => pc'[p] = "work" /\ UNCHANGED <<holder, lockFile, outcome>>
      BY Zenon, GotoIs DEF Worked, PC, Guarded
    <2>4. pc[p] = "work" /\ o \in Todo(p).abandon
      BY Zenon DEF abandon, AtWork
    <2> QED  BY Zenon, <2>1, <2>2, <2>3, <2>4, EndsIs DEF abandon
  <1>2. Frame(p)
    <2>1. op' \in [Run -> OpType]
      BY Zenon, WrittenEffect DEF TypeOK, PathInv, abandon, WriteOk, WriteErr, OpState,
         Resumable, OpOnly
    <2>2. Learned(p)
      <3>1. UNCHANGED job \/ Move(p, o, "abandon", "sweep") \/ Drop(p, o, "abandon")
        BY Zenon DEF abandon, stop_after_record
      <3> QED
        BY Zenon, <3>1, DropEffect, MoveEffect DEF TypeOK, PathInv, Learned, WorkOnly, JobOnly, Phase
    <2>3. Moved(p)
      BY Zenon, GotoEffect DEF PathInv, abandon, stop_after_record, Worked, PC, Guarded
    <2>4. Reported(p)
      BY Zenon, ReportEffect DEF TypeOK, PathInv, abandon, stop_after_record, Worked,
         Reported
    <2>5. Rest
      BY Zenon, FaultEffect DEF TypeOK, PathInv, abandon, stop_after_record, Worked,
         WriteOk, WriteErr, NoFault, Rest
    <2> QED  BY Zenon, <2>1, <2>2, <2>3, <2>4, <2>5, FrameParts DEF PathInv
  <1>3. PathInv'
    <2>1. PublishedHasManifest'
      BY Zenon, <1>1, ManifestCalls DEF OpState, Resumable
    <2>2. Goes(p)
      BY Zenon, <1>1, AtPath, KeepsCalls DEF Goes, Dropped, Passed
    <2> QED  BY Zenon, <2>1, <2>2, <1>2, PathStep
  <1>4. Life /\ removals = 0 => Life'
    <2> SUFFICES ASSUME Life, removals = 0
                 PROVE  Life'
      OBVIOUS
    <2>1. /\ pc[p] = "work" /\ o \in Todo(p).abandon /\ UNCHANGED <<holder, lockFile>>
          /\ Frame(p) /\ PathInv' /\ Fails(p)
          /\ UNCHANGED op \/ Wrote(o, "ABANDONED", FALSE)
      BY Zenon, <1>1, <1>2, <1>3 DEF Fails
    <2>2. o # p /\ o # Own(p) /\ Is(o, Resumable) /\ o \notin Other(p)
      BY Zenon, <2>1, WorkFacts
    <2>3. op[o] # Nothing
      BY SMTT(30), <2>2 DEF Is, Nothing, Absent
    <2>4. OpOnly(o) /\ OpSays(o)'
      <3>1. CASE UNCHANGED op
        BY Zenon, <2>1, <3>1, SameOp
      <3>2. CASE Wrote(o, "ABANDONED", FALSE)
        BY Zenon, <3>2 DEF Wrote, OpSays, Is
      <3> QED  BY Zenon, <2>1, <3>1, <3>2
    <2>5. Wrote(o, "ABANDONED", FALSE) => ~Is(o, Resumable)'
      BY Zenon DEF Wrote, Is, Resumable
    <2>6. CASE pc'[p] = "fail" /\ ~IsCleanup(p) /\ UNCHANGED job
      <3>1. TodoSays(p)'
        BY Zenon, <2>6 DEF TodoSays, Making
      <3>2. JobOnly(p)
        BY Zenon, <2>6 DEF JobOnly, PathInv, TypeOK
      <3> QED  BY Zenon, <2>1, <2>2, <2>3, <2>4, <2>6, <3>1, <3>2, OtherStep
    <2>7. CASE /\ pc'[p] = "work" /\ Wrote(o, "ABANDONED", FALSE)
               /\ Passed(p, o, "abandon", "sweep")
      <3>1. /\ WorkOnly(p) /\ Other(p)' \subseteq Other(p) \cup {o}
            /\ Todo(p)'.remove \subseteq Todo(p).remove
            /\ Todo(p)'.finish \subseteq Todo(p).finish
            /\ Todo(p)'.abandon = Todo(p).abandon \ {o}
        BY Zenon, <2>7 DEF Passed
      <3>2. o \notin Todo(p).remove /\ o \notin Todo(p).finish /\ Own(p)' = Own(p)
        BY Zenon, <2>2, <3>1 DEF Other, WorkOnly, Own
      <3>3. TodoSays(p)'
        BY Zenon, <2>1, <2>2, <2>4, <2>5, <2>7, <3>1, <3>2, TodoOther
      <3> QED
        BY Zenon, <2>1, <2>2, <2>3, <2>4, <2>7, <3>1, <3>3, OtherStep DEF WorkOnly
    <2>8. CASE pc'[p] = "work" /\ IsCleanup(p) /\ Dropped(p, o, "abandon")
      <3>1. /\ WorkOnly(p) /\ Other(p)' \subseteq Other(p)
            /\ Todo(p)'.remove \subseteq Todo(p).remove
            /\ Todo(p)'.finish \subseteq Todo(p).finish
            /\ Todo(p)'.abandon = Todo(p).abandon \ {o}
        BY Zenon, <2>8 DEF Dropped
      <3>2. o \notin Todo(p).remove /\ o \notin Todo(p).finish /\ Own(p)' = Own(p)
        BY Zenon, <2>2, <3>1 DEF Other, WorkOnly, Own
      <3>3. TodoSays(p)'
        BY Zenon, <2>1, <2>2, <2>4, <2>8, <3>1, <3>2, TodoOther
      <3>4. JobOnly(p) /\ job'[p].id = job[p].id /\ job'[p].mem = job[p].mem
        BY Zenon, <3>1 DEF WorkOnly
      <3> QED  BY Zenon, <2>1, <2>2, <2>3, <2>4, <2>8, <3>3, <3>4, OtherStep
    <2> QED  BY Zenon, <2>6, <2>7, <2>8, <1>1
  <1>5. Life /\ removals = 0 => \A x \in Run : Kept(x)
    <2> SUFFICES ASSUME Life, removals = 0
                 PROVE  \A x \in Run : Kept(x)
      BY Zenon
    <2>1. /\ pc[p] = "work" /\ o \in Todo(p).abandon
          /\ UNCHANGED op \/ Wrote(o, "ABANDONED", FALSE)
      BY Zenon, <1>1
    <2>2. Is(o, Resumable) /\ Own(p) # o /\ Flag[p] \in {"restart", "break", "cleanup"}
      BY Zenon, <2>1 DEF Life, TodoSays
    <2>3. Wrote(o, "ABANDONED", FALSE) => Kept(o)
      BY Zenon, <2>1, <2>2 DEF Kept, Wrote, Is
    <2> QED  BY Zenon, <2>1, <2>3, KeptCalls, KeptAll DEF Wrote
  <1> QED  BY Zenon, <1>2, <1>3, <1>4, <1>5 DEF Good

\* sweep_partials keeps the invariant and every operation's progress.
LEMMA sweep_partials_step ==
    ASSUME PathInv, NEW p \in Run, NEW o \in Run, sweep_partials(p, o)
    PROVE  Good(p)
  <1>1. /\ pc[p] = "work" /\ pc'[p] = "work" /\ o \in Other(p)
        /\ UNCHANGED <<holder, lockFile, outcome>>
        /\ \/ /\ Staged(o, FALSE)
              /\ Dropped(p, o, "sweep") \/ Passed(p, o, "sweep", "remove")
           \/ UNCHANGED op /\ Dropped(p, o, "sweep")
    <2>1. /\ Drop(p, o, "sweep") => Dropped(p, o, "sweep")
          /\ Move(p, o, "sweep", "remove") => Passed(p, o, "sweep", "remove")
      BY Zenon, WorkCalls DEF Phase
    <2>2. pc'[p] = "work" /\ UNCHANGED <<holder, lockFile, outcome>>
      BY Zenon, GotoIs DEF sweep_partials, Worked, PC, Guarded
    <2>3. pc[p] = "work" /\ o \in Other(p)
      BY Zenon DEF sweep_partials, AtWork, Other
    <2> QED  BY Zenon, <2>1, <2>2, <2>3, OpCalls DEF sweep_partials
  <1>2. Frame(p)
    <2>1. op' \in [Run -> OpType]
      BY Zenon, PartialEffect DEF TypeOK, PathInv, sweep_partials, OpOnly
    <2>2. Learned(p)
      <3>1. UNCHANGED job \/ Move(p, o, "sweep", "remove") \/ Drop(p, o, "sweep")
        BY Zenon DEF sweep_partials
      <3> QED
        BY Zenon, <3>1, DropEffect, MoveEffect DEF TypeOK, PathInv, Learned, WorkOnly, JobOnly, Phase
    <2>3. Moved(p)
      BY Zenon, GotoEffect DEF PathInv, sweep_partials, Worked, PC, Guarded
    <2>4. Reported(p)
      BY Zenon DEF TypeOK, PathInv, sweep_partials, Worked, Reported
    <2>5. Rest
      BY Zenon, FaultEffect DEF TypeOK, PathInv, sweep_partials, Worked, NoFault, Rest
    <2> QED  BY Zenon, <2>1, <2>2, <2>3, <2>4, <2>5, FrameParts DEF PathInv
  <1>3. PathInv'
    <2>1. PublishedHasManifest'
      BY Zenon, <1>1, ManifestCalls DEF OpState, Resumable
    <2>2. Goes(p)
      BY Zenon, <1>1, AtPath, KeepsCalls DEF Goes, Dropped, Passed
    <2> QED  BY Zenon, <2>1, <2>2, <1>2, PathStep
  <1>4. Life /\ removals = 0 => Life'
    <2> SUFFICES ASSUME Life, removals = 0
                 PROVE  Life'
      OBVIOUS
    <2>1. /\ pc[p] = "work" /\ pc'[p] = "work" /\ o \in Other(p)
          /\ UNCHANGED <<holder, lockFile, outcome>> /\ Frame(p) /\ PathInv'
      BY Zenon, <1>1, <1>2, <1>3
    <2>2. CASE UNCHANGED op /\ Dropped(p, o, "sweep")
      BY Zenon, <2>1, <2>2, SameFinal DEF Phase
    <2>3. CASE /\ Staged(o, FALSE)
               /\ Dropped(p, o, "sweep") \/ Passed(p, o, "sweep", "remove")
      <3>1. /\ WorkOnly(p) /\ Todo(p)'.abandon = Todo(p).abandon
            /\ Other(p)' \subseteq Other(p) \cup {o}
            /\ Todo(p)'.remove \subseteq Todo(p).remove \cup {o}
            /\ Todo(p)'.finish \subseteq Todo(p).finish
        BY Zenon, <2>3 DEF Dropped, Passed
      <3>2. ~Is(o, Resumable)
        BY Zenon, <2>1, WorkFacts
      <3> QED  BY Zenon, <2>1, <2>3, <3>1, <3>2, StagedSays, FinalStep
    <2> QED  BY Zenon, <2>2, <2>3, <1>1
  <1>5. Life /\ removals = 0 => \A x \in Run : Kept(x)
    BY Zenon, <1>1, KeptCalls, KeptAll DEF Staged
  <1> QED  BY Zenon, <1>2, <1>3, <1>4, <1>5 DEF Good

\* remove keeps the invariant and every operation's progress.
LEMMA remove_step ==
    ASSUME PathInv, NEW p \in Run, NEW o \in Run, remove(p, o)
    PROVE  Good(p)
  <1>1. /\ pc[p] = "work" /\ pc'[p] = "work" /\ o \in Other(p) /\ o \in Todo(p).remove
        /\ UNCHANGED <<holder, lockFile, outcome>>
        /\ \/ /\ op[o].place = "there" /\ Placed(o, "removing")
              /\ Passed(p, o, "remove", "retiring")
           \/ op[o].place = "there" /\ Emptied(o) /\ Dropped(p, o, "remove")
           \/ UNCHANGED op /\ Dropped(p, o, "remove")
    <2>1. pc'[p] = "work" /\ UNCHANGED <<holder, lockFile, outcome>>
      BY Zenon, GotoIs DEF remove, Worked, PC, Guarded
    <2>2. pc[p] = "work" /\ o \in Other(p) /\ o \in Todo(p).remove
      BY Zenon DEF remove, AtWork, Other
    <2> QED  BY Zenon, <2>1, <2>2, retire_effect DEF remove
  <1>2. Frame(p)
    <2>1. op' \in [Run -> OpType]
      BY Zenon, PlaceEffect, GoneEffect DEF TypeOK, PathInv, remove, Rename, Place,
         retire, OpOnly
    <2>2. Learned(p)
      <3>1. UNCHANGED job \/ Move(p, o, "remove", "retiring") \/ Drop(p, o, "remove")
        BY Zenon DEF remove, retire
      <3> QED
        BY Zenon, <3>1, DropEffect, MoveEffect DEF TypeOK, PathInv, Learned, WorkOnly, JobOnly, Phase
    <2>3. Moved(p)
      BY Zenon, GotoEffect DEF PathInv, remove, Worked, retire, PC, Guarded
    <2>4. Reported(p)
      BY Zenon DEF TypeOK, PathInv, remove, Worked, retire, Reported
    <2>5. Rest
      BY Zenon, FaultEffect DEF TypeOK, PathInv, remove, Worked, retire, NoFault, Rest
    <2> QED  BY Zenon, <2>1, <2>2, <2>3, <2>4, <2>5, FrameParts DEF PathInv
  <1>3. PathInv'
    <2>1. PublishedHasManifest'
      BY Zenon, <1>1, ManifestCalls DEF OpState, Resumable
    <2>2. Goes(p)
      BY Zenon, <1>1, AtPath, KeepsCalls DEF Goes, Dropped, Passed
    <2> QED  BY Zenon, <2>1, <2>2, <1>2, PathStep
  <1>4. Life /\ removals = 0 => Life'
    <2> SUFFICES ASSUME Life, removals = 0
                 PROVE  Life'
      OBVIOUS
    <2>1. /\ pc[p] = "work" /\ pc'[p] = "work" /\ o \in Other(p)
          /\ UNCHANGED <<holder, lockFile, outcome>> /\ Frame(p) /\ PathInv'
          /\ ~op[o].partial
      BY Zenon, <1>1, <1>2, <1>3, WorkFacts
    <2>2. CASE UNCHANGED op /\ Dropped(p, o, "remove")
      BY Zenon, <2>1, <2>2, SameFinal DEF Phase
    <2>3. CASE /\ op[o].place = "there"
               /\ \/ Placed(o, "removing") /\ Passed(p, o, "remove", "retiring")
                  \/ Emptied(o) /\ Dropped(p, o, "remove")
      BY Zenon, <2>1, <2>3, RetireStep DEF Phase, Absent
    <2> QED  BY Zenon, <2>2, <2>3, <1>1
  <1>5. Life /\ removals = 0 => \A x \in Run : Kept(x)
    <2> SUFFICES ASSUME Life, removals = 0
                 PROVE  \A x \in Run : Kept(x)
      BY Zenon
    <2>1. /\ pc[p] = "work" /\ o \in Other(p)
          /\ UNCHANGED op \/ Staged(o, FALSE) \/ Placed(o, "removing") \/ Emptied(o)
      BY Zenon, <1>1
    <2>2. ~Is(o, Resumable)
      BY Zenon, <2>1 DEF Life, TodoSays
    <2> QED
      BY Zenon, <2>1, <2>2, KeptCalls, KeptAll DEF Staged, Placed, Emptied, Absent
  <1> QED  BY Zenon, <1>2, <1>3, <1>4, <1>5 DEF Good

\* finish_completed keeps the invariant and every operation's progress.
LEMMA finish_completed_step ==
    ASSUME PathInv, NEW p \in Run, NEW o \in Run, finish_completed(p, o)
    PROVE  Good(p)
  <1>1. /\ pc[p] = "work" /\ pc'[p] = "work" /\ o \in Other(p)
        /\ UNCHANGED <<holder, lockFile, outcome>>
        /\ \/ Staged(o, FALSE) /\ UNCHANGED job
           \/ /\ op[o].place = "there" /\ ~(op[o].recorded /\ op[o].partial)
              /\ \/ Placed(o, "removing") /\ Passed(p, o, "finish", "retiring")
                 \/ Emptied(o) /\ Dropped(p, o, "finish")
           \/ UNCHANGED op /\ Dropped(p, o, "finish")
    <2>1. pc'[p] = "work" /\ UNCHANGED <<holder, lockFile, outcome>>
      BY Zenon, GotoIs DEF finish_completed, Worked, PC, Guarded
    <2>2. pc[p] = "work" /\ o \in Other(p)
      BY Zenon DEF finish_completed, AtWork, Other
    <2>3. Drop(p, o, "finish") => Dropped(p, o, "finish")
      BY Zenon, WorkCalls DEF Phase
    <2> QED  BY Zenon, <2>1, <2>2, <2>3, retire_effect, OpCalls DEF finish_completed
  <1>2. Frame(p)
    <2>1. op' \in [Run -> OpType]
      BY Zenon, PartialEffect, PlaceEffect, GoneEffect DEF TypeOK, PathInv,
         finish_completed, Rename, Place, retire, OpOnly
    <2>2. Learned(p)
      <3>1. UNCHANGED job \/ Move(p, o, "finish", "retiring") \/ Drop(p, o, "finish")
        BY Zenon DEF finish_completed, retire
      <3> QED
        BY Zenon, <3>1, DropEffect, MoveEffect DEF TypeOK, PathInv, Learned, WorkOnly, JobOnly, Phase
    <2>3. Moved(p)
      BY Zenon, GotoEffect DEF PathInv, finish_completed, Worked, retire, PC, Guarded
    <2>4. Reported(p)
      BY Zenon DEF TypeOK, PathInv, finish_completed, Worked, retire, Reported
    <2>5. Rest
      BY Zenon, FaultEffect DEF TypeOK, PathInv, finish_completed, Worked, retire,
         NoFault, Rest
    <2> QED  BY Zenon, <2>1, <2>2, <2>3, <2>4, <2>5, FrameParts DEF PathInv
  <1>3. PathInv'
    <2>1. PublishedHasManifest'
      BY Zenon, <1>1, ManifestCalls DEF OpState, Resumable
    <2>2. Goes(p)
      BY Zenon, <1>1, AtPath, KeepsCalls DEF Goes, Dropped, Passed
    <2> QED  BY Zenon, <2>1, <2>2, <1>2, PathStep
  <1>4. Life /\ removals = 0 => Life'
    <2> SUFFICES ASSUME Life, removals = 0
                 PROVE  Life'
      OBVIOUS
    <2>1. /\ pc[p] = "work" /\ pc'[p] = "work" /\ o \in Other(p)
          /\ UNCHANGED <<holder, lockFile, outcome>> /\ Frame(p) /\ PathInv'
          /\ ~Is(o, Resumable)
      BY Zenon, <1>1, <1>2, <1>3, WorkFacts
    <2>2. CASE UNCHANGED op /\ Dropped(p, o, "finish")
      BY Zenon, <2>1, <2>2, SameFinal DEF Phase
    <2>3. CASE Staged(o, FALSE) /\ UNCHANGED job
      <3>1. WorkOnly(p) /\ Todo(p)' = Todo(p) /\ Other(p)' = Other(p)
        BY Zenon, <2>3 DEF WorkOnly, JobOnly, PathInv, TypeOK, Todo, Other
      <3> QED  BY Zenon, <2>1, <2>3, <3>1, StagedSays, FinalStep
    <2>4. CASE /\ op[o].place = "there" /\ ~(op[o].recorded /\ op[o].partial)
               /\ \/ Placed(o, "removing") /\ Passed(p, o, "finish", "retiring")
                  \/ Emptied(o) /\ Dropped(p, o, "finish")
      <3>1. o \in Todo(p).finish
        BY Zenon DEF finish_completed, AtWork
      <3>2. Is(o, {"COMPLETED"})
        <4>1. op[o].manifest \in OpState \ {"ABANDONED"}
          BY Zenon, <2>1, <2>4, <3>1, WorkFacts
             DEF Is, PathInv, PublishedHasManifest, TypeOK, OpType
        <4> QED  BY Zenon, <2>1, <2>4, <4>1 DEF Is, OpState
      <3>3. op[o].partial => Missed(o)
        BY Zenon, <2>4, <3>2 DEF Life, OpSays
      <3> QED  BY Zenon, <2>1, <2>4, <3>3, RetireStep DEF Phase, Absent
    <2> QED  BY Zenon, <2>2, <2>3, <2>4, <1>1
  <1>5. Life /\ removals = 0 => \A x \in Run : Kept(x)
    <2> SUFFICES ASSUME Life, removals = 0
                 PROVE  \A x \in Run : Kept(x)
      BY Zenon
    <2>1. /\ pc[p] = "work" /\ o \in Other(p)
          /\ UNCHANGED op \/ Staged(o, FALSE) \/ Placed(o, "removing") \/ Emptied(o)
      BY Zenon, <1>1
    <2>2. ~Is(o, Resumable)
      BY Zenon, <2>1 DEF Life, TodoSays
    <2> QED
      BY Zenon, <2>1, <2>2, KeptCalls, KeptAll DEF Staged, Placed, Emptied, Absent
  <1> QED  BY Zenon, <1>2, <1>3, <1>4, <1>5 DEF Good

\* finish_retire keeps the invariant and every operation's progress.
LEMMA finish_retire_step ==
    ASSUME PathInv, NEW p \in Run, NEW o \in Run, finish_retire(p, o)
    PROVE  Good(p)
  <1>1. /\ pc[p] = "work" /\ pc'[p] = "work" /\ o \in Other(p)
        /\ UNCHANGED <<holder, lockFile, outcome>>
        /\ Dropped(p, o, "retiring") \/ Dropped(p, o, "debris")
        /\ (op[o].place \in {"creating", "removing"} /\ Emptied(o)) \/ UNCHANGED op
    <2>1. pc'[p] = "work" /\ UNCHANGED <<holder, lockFile, outcome>>
      BY Zenon, GotoIs DEF finish_retire, Worked, PC, Guarded
    <2>2. pc[p] = "work" /\ o \in Other(p)
      BY Zenon DEF finish_retire, AtWork, Other
    <2>3. /\ Drop(p, o, "retiring") => Dropped(p, o, "retiring")
          /\ Drop(p, o, "debris") => Dropped(p, o, "debris")
      BY Zenon, WorkCalls DEF Phase
    <2> QED  BY Zenon, <2>1, <2>2, <2>3, OpCalls DEF finish_retire
  <1>2. Frame(p)
    <2>1. op' \in [Run -> OpType]
      BY Zenon, GoneEffect DEF TypeOK, PathInv, finish_retire, OpOnly
    <2>2. Learned(p)
      <3>1. UNCHANGED job \/ Drop(p, o, "retiring") \/ Drop(p, o, "debris")
        BY Zenon DEF finish_retire
      <3> QED
        BY Zenon, <3>1, DropEffect, MoveEffect DEF TypeOK, PathInv, Learned, WorkOnly, JobOnly, Phase
    <2>3. Moved(p)
      BY Zenon, GotoEffect DEF PathInv, finish_retire, Worked, PC, Guarded
    <2>4. Reported(p)
      BY Zenon DEF TypeOK, PathInv, finish_retire, Worked, Reported
    <2>5. Rest
      BY Zenon, FaultEffect DEF TypeOK, PathInv, finish_retire, Worked, NoFault, Rest
    <2> QED  BY Zenon, <2>1, <2>2, <2>3, <2>4, <2>5, FrameParts DEF PathInv
  <1>3. PathInv'
    <2>1. PublishedHasManifest'
      BY Zenon, <1>1, ManifestCalls DEF OpState, Resumable
    <2>2. Goes(p)
      BY Zenon, <1>1, AtPath, KeepsCalls DEF Goes, Dropped, Passed
    <2> QED  BY Zenon, <2>1, <2>2, <1>2, PathStep
  <1>4. Life /\ removals = 0 => Life'
    <2> SUFFICES ASSUME Life, removals = 0
                 PROVE  Life'
      OBVIOUS
    <2>1. /\ pc[p] = "work" /\ pc'[p] = "work" /\ o \in Other(p)
          /\ UNCHANGED <<holder, lockFile, outcome>> /\ Frame(p) /\ PathInv'
      BY Zenon, <1>1, <1>2, <1>3
    <2>2. PICK from \in Phase \ {"abandon"} : Dropped(p, o, from)
      BY Zenon, <1>1 DEF Phase
    <2>3. CASE UNCHANGED op
      BY Zenon, <2>1, <2>2, <2>3, SameFinal
    <2>4. CASE op[o].place \in {"creating", "removing"} /\ Emptied(o)
      <3>1. op[o].partial => Missed(o)
        BY Zenon, <2>4 DEF Life, OpSays
      <3> QED  BY Zenon, <2>1, <2>2, <2>4, <3>1, RetireStep DEF Absent
    <2> QED  BY Zenon, <2>3, <2>4, <1>1
  <1>5. Life /\ removals = 0 => \A x \in Run : Kept(x)
    BY Zenon, <1>1, KeptCalls, KeptAll DEF Emptied
  <1> QED  BY Zenon, <1>2, <1>3, <1>4, <1>5 DEF Good

-----------------------------------------------------------------------------
\* The end of a run, and the cleanup pass.

\* copy_ends keeps the invariant and every operation's progress.
LEMMA copy_ends_step ==
    ASSUME PathInv, NEW p \in Run, copy_ends(p)
    PROVE  Good(p)
  <1>1. /\ pc[p] \in {"copy", "copying"} /\ ~IsCleanup(p) /\ Own(p) \in Run
        /\ UNCHANGED <<holder, lockFile, op, job>> /\ Fails(p)
        /\ \/ pc'[p] = "complete" /\ (Kind = "file" /\ op[Own(p)].partial => Adopted(p))
           \/ pc'[p] = "fail"
           \/ pc[p] = "copy" /\ pc'[p] = "rollback" /\ ~Adopted(p)
    <2>1. pc[p] \in {"copy", "copying"} /\ ~IsCleanup(p) /\ Own(p) \in Run
      BY Zenon, CopyOnly DEF copy_ends
    <2>2. /\ Goto(p, "complete") => pc'[p] = "complete"
          /\ Goto(p, "fail") => pc'[p] = "fail"
          /\ Goto(p, "rollback") => pc'[p] = "rollback"
          /\ UNCHANGED outcome => Fails(p)
      BY Zenon, GotoIs, ReportFails DEF PC, Guarded, Fails
    <2>3. Report(p, "refused") \/ Report(p, "failed") => Fails(p)
      BY Zenon, ReportFails
    <2> QED  BY Zenon, <2>1, <2>2, <2>3 DEF copy_ends
  <1>2. Frame(p)
    <2>1. op' \in [Run -> OpType]
      BY Zenon DEF TypeOK, PathInv, copy_ends
    <2>2. Learned(p)
      BY Zenon DEF TypeOK, PathInv, copy_ends, Learned, JobOnly
    <2>3. Moved(p)
      BY Zenon, GotoEffect DEF PathInv, copy_ends, PC, Guarded
    <2>4. Reported(p)
      BY Zenon, ReportEffect DEF TypeOK, PathInv, copy_ends, Reported
    <2>5. Rest
      BY Zenon DEF TypeOK, PathInv, copy_ends, NoFault, Rest
    <2> QED  BY Zenon, <2>1, <2>2, <2>3, <2>4, <2>5, FrameParts DEF PathInv
  <1>3. PathInv'
    <2>1. PublishedHasManifest'
      BY Zenon, <1>1, ManifestCalls DEF OpState, Resumable
    <2>2. Goes(p)
      BY Zenon, <1>1, AtPath, KeepsCalls DEF Goes
    <2> QED  BY Zenon, <2>1, <2>2, <1>2, PathStep
  <1>4. Life /\ removals = 0 => Life'
    <2> SUFFICES ASSUME Life, removals = 0
                 PROVE  Life'
      OBVIOUS
    <2>1. /\ pc[p] \in {"copy", "copying"} /\ ~IsCleanup(p) /\ Own(p) \in Run
          /\ UNCHANGED <<holder, lockFile, op, job>> /\ Fails(p)
          /\ Frame(p) /\ PathInv' /\ lockFile # Absent
          /\ \/ pc'[p] = "complete" /\ (Kind = "file" /\ op[Own(p)].partial => Adopted(p))
             \/ pc'[p] = "fail"
             \/ pc[p] = "copy" /\ pc'[p] = "rollback" /\ ~Adopted(p)
      BY Zenon, <1>1, <1>2, <1>3, OthersIdle
         DEF HeldPC, PC, Guarded
    <2>2. LockSays(p)'
      BY Zenon, <2>1 DEF Life, LockSays, RecordName, Own, Making, Recorded
    <2>3. OwnSays(p)'
      <3>1. \A q \in Run : outcome'[q] = "ok" /\ ~IsCleanup(q) => Own(q)' # Own(p)'
        BY Zenon, <2>1, StopClear DEF Resuming
      <3> QED
        BY ZenonT(60), <2>1, <3>1
           DEF Life, OwnSays, Making, Resuming, Ending, Own, Adopted, Is, IsCleanup
    <2>4. TodoSays(p)'
      BY Zenon, <2>1 DEF Life, TodoSays, Making, HeldPC, PC, Guarded, Todo, Own, Is
    <2>5. WaitSays(p)'
      BY Zenon, <2>1 DEF WaitSays, Life, Fails
    <2> QED
      BY Zenon, <2>1, <2>2, <2>3, <2>4, <2>5, SameStep DEF HeldPC, PC, Guarded, Unborn
  <1>5. Life /\ removals = 0 => \A x \in Run : Kept(x)
    BY Zenon, <1>1, KeptCalls
  <1> QED  BY Zenon, <1>2, <1>3, <1>4, <1>5 DEF Good

\* complete keeps the invariant and every operation's progress.
LEMMA complete_step ==
    ASSUME PathInv, NEW p \in Run, complete(p)
    PROVE  Good(p)
  <1>1. /\ pc[p] = "complete" /\ ~IsCleanup(p) /\ Own(p) \in Run
        /\ UNCHANGED <<holder, lockFile>>
        /\ \E r \in leftovers(p) \cap BOOLEAN :
             \/ /\ pc'[p] = IF r THEN "release" ELSE "unname"
                /\ Wrote(Own(p), "COMPLETED", r) /\ Knows(p, Own(p), "COMPLETED")
             \/ /\ pc'[p] = "fail" /\ Fails(p) /\ UNCHANGED job
                /\ UNCHANGED op \/ Wrote(Own(p), "COMPLETED", r)
    <2>1. pc[p] = "complete" /\ ~IsCleanup(p) /\ Own(p) \in Run
      BY Zenon, CopyOnly DEF complete
    <2>2. leftovers(p) \subseteq BOOLEAN
      <3>1. op[Own(p)].partial \in BOOLEAN
        BY Zenon, <2>1 DEF PathInv, TypeOK, OpType
      <3> QED  BY Zenon, <3>1 DEF leftovers
    <2>3. PICK r \in leftovers(p) :
            \/ /\ WriteOk(Own(p), "COMPLETED", r)
               /\ job' = [job EXCEPT ![p].mem = "COMPLETED"]
               /\ Goto(p, IF r THEN "release" ELSE "unname")
               /\ UNCHANGED <<holder, lockFile>>
            \/ WriteErr(Own(p), "COMPLETED", r) /\ stop_after_record(p)
      BY Zenon DEF complete
    <2>4. /\ WriteOk(Own(p), "COMPLETED", r) => Wrote(Own(p), "COMPLETED", r)
          /\ WriteErr(Own(p), "COMPLETED", r) =>
               UNCHANGED op \/ Wrote(Own(p), "COMPLETED", r)
      BY ZenonT(60), <2>1, <2>2, <2>3, WriteCalls DEF OpState, Resumable
    <2>5. job' = [job EXCEPT ![p].mem = "COMPLETED"] => Knows(p, Own(p), "COMPLETED")
      BY Zenon, JobCalls DEF OpState, Resumable
    <2>6. (IF r THEN "release" ELSE "unname") \in PC
      BY Zenon DEF PC, Guarded
    <2> QED  BY Zenon, <2>1, <2>2, <2>3, <2>4, <2>5, <2>6, EndsIs, GotoIs
  <1>2. Frame(p)
    <2>0. Own(p) \in Run /\ leftovers(p) \subseteq BOOLEAN
      <3>1. Own(p) \in Run
        BY Zenon DEF PathInv, PathSays, complete, Resuming, Ending, IsCleanup
      <3>2. op[Own(p)].partial \in BOOLEAN
        BY Zenon, <3>1 DEF PathInv, TypeOK, OpType
      <3> QED  BY Zenon, <3>1, <3>2 DEF leftovers
    <2>1. op' \in [Run -> OpType]
      BY Zenon, <2>0, WrittenEffect DEF TypeOK, PathInv, complete, OpOnly, WriteOk, WriteErr,
         OpState, Resumable
    <2>2. Learned(p)
      BY Zenon, MemEffect DEF TypeOK, PathInv, complete, OpState, Resumable,
         stop_after_record, Learned, JobOnly
    <2>3. Moved(p)
      BY Zenon, GotoEffect DEF PathInv, complete, stop_after_record, PC, Guarded
    <2>4. Reported(p)
      BY Zenon, ReportEffect DEF TypeOK, PathInv, complete, stop_after_record, Reported
    <2>5. Rest
      BY Zenon, FaultEffect DEF TypeOK, PathInv, complete, stop_after_record, WriteOk,
         WriteErr, NoFault, Rest
    <2> QED  BY Zenon, <2>1, <2>2, <2>3, <2>4, <2>5, FrameParts DEF PathInv
  <1>3. PathInv'
    <2>1. PublishedHasManifest'
      BY Zenon, <1>1, ManifestCalls DEF OpState, Resumable
    <2>2. Goes(p)
      BY Zenon, <1>1, AtPath, KeepsCalls DEF Goes, Knows, Own, OpState,
         Resumable
    <2> QED  BY Zenon, <2>1, <2>2, <1>2, PathStep
  <1>4. Life /\ removals = 0 => Life'
    <2> SUFFICES ASSUME Life, removals = 0
                 PROVE  Life'
      OBVIOUS
    <2>1. /\ pc[p] = "complete" /\ ~IsCleanup(p) /\ UNCHANGED <<holder, lockFile>>
          /\ Frame(p) /\ PathInv' /\ pc[p] \in Resuming
      BY Zenon, <1>1, <1>2, <1>3 DEF Resuming
    <2>2. PICK o \in Run : Own(p) = o
      BY Zenon, <1>1
    <2>3. PICK r \in leftovers(p) \cap BOOLEAN :
            \/ /\ pc'[p] = IF r THEN "release" ELSE "unname"
               /\ Wrote(o, "COMPLETED", r) /\ Knows(p, o, "COMPLETED")
            \/ /\ pc'[p] = "fail" /\ Fails(p) /\ UNCHANGED job
               /\ UNCHANGED op \/ Wrote(o, "COMPLETED", r)
      BY Zenon, <2>2, <1>1
    <2>4. /\ op[o].place # Absent /\ (Kind = "tree" => op[o].store = "ok")
          /\ lockFile \in {o, Torn} /\ Is(o, Resumable)
      BY Zenon, <2>1, <2>2, Working
    <2>5. r = op[o].partial \/ Adopted(p) \/ ~op[o].partial
      BY Zenon, <2>1, <2>2, <2>3 DEF leftovers, Life, OwnSays
    <2>6. Own(p)' = o /\ Todo(p)' = Todo(p) /\ (Adopted(p)' <=> Adopted(p))
      BY Zenon, <2>2, <2>3 DEF Own, Todo, Knows, Adopted
    <2>7. Adopted(p) => Missed(o)'
      BY Zenon, <2>6 DEF Missed
    <2>8. CASE UNCHANGED op
      <3>1. /\ pc'[p] = "fail" /\ Fails(p) /\ UNCHANGED job
        BY Zenon, <2>3, <2>4, <2>8 DEF Wrote, Is, Resumable
      <3>2. /\ OpOnly(o) /\ OpSays(o)' /\ op'[o].store = op[o].store
            /\ Is(o, OpState \ {"ABANDONED"})'
        BY Zenon, <2>1, <2>4, <2>8, SameOp DEF Is, OpState, Resumable
      <3> QED  BY Zenon, <2>1, <2>2, <3>1, <3>2, StopStep
    <2>9. CASE Wrote(o, "COMPLETED", r)
      <3>1. /\ OpOnly(o) /\ op'[o].store = op[o].store /\ Is(o, {"COMPLETED"})'
            /\ op'[o].partial = op[o].partial /\ op'[o].recorded = r
            /\ ~Is(o, Resumable)' /\ Is(o, OpState \ {"ABANDONED"})'
            /\ op'[o].place = "there"
        BY Zenon, <2>9 DEF Wrote, Is, OpState, Resumable
      <3>2. OpSays(o)'
        BY Zenon, <2>4, <2>5, <2>7, <3>1 DEF OpSays, Is
      <3>3. CASE pc'[p] = "fail" /\ Fails(p) /\ UNCHANGED job
        BY Zenon, <2>1, <2>2, <3>1, <3>2, <3>3, StopStep
      <3>4. CASE pc'[p] = IF r THEN "release" ELSE "unname"
        <4>1. LockSays(p)'
          BY Zenon, <2>1, <2>4, <2>6, <3>4 DEF LockSays, Making, Recorded, RecordName, IsCleanup
        <4>2. OwnSays(p)'
          BY Zenon, <2>2, <2>4, <2>5, <2>6, <3>1, <3>4
             DEF OwnSays, Making, Resuming, Ending, Adopted
        <4>3. WaitSays(p)'
          BY Zenon, <2>6, <3>4 DEF WaitSays
        <4>4. TodoSays(p)'
          BY Zenon, <2>1, <2>2, <2>6, <3>1, <3>4, TodoOwn
             DEF Planning, Settled, Copying, Making, HeldPC, PC, Guarded
        <4> QED
          BY Zenon, <2>1, <2>2, <2>4, <2>6, <3>1, <3>2, <3>4, <4>1, <4>2, <4>3, <4>4, OwnStep
             DEF HeldPC, PC, Guarded, Unborn, Torn
      <3> QED  BY Zenon, <2>3, <3>3, <3>4
    <2> QED  BY Zenon, <2>3, <2>8, <2>9
  <1>5. Life /\ removals = 0 => \A x \in Run : Kept(x)
    <2> SUFFICES ASSUME Life, removals = 0
                 PROVE  \A x \in Run : Kept(x)
      BY Zenon
    <2>1. pc[p] = "complete" /\ ~IsCleanup(p) /\ Own(p) \in Run
          /\ (UNCHANGED op \/ \E r \in BOOLEAN : Wrote(Own(p), "COMPLETED", r))
      BY Zenon, <1>1
    <2>2. Is(Own(p), Resumable)
      BY Zenon, <2>1 DEF Life, OwnSays, Resuming
    <2>3. PICK o \in Run : o = Own(p)
      BY Zenon, <2>1
    <2>4. UNCHANGED op \/ (OpOnly(o) /\ Is(o, {"COMPLETED"})')
      BY Zenon, <2>1, <2>3 DEF Wrote, Is
    <2>5. Is(o, {"COMPLETED"})' => Kept(o)
      BY Zenon, <2>1, <2>2, <2>3 DEF Kept, Is, Resumable
    <2> QED  BY Zenon, <2>4, <2>5, KeptCalls, KeptAll
  <1> QED  BY Zenon, <1>2, <1>3, <1>4, <1>5 DEF Good

\* rollback keeps the invariant and every operation's progress.
LEMMA rollback_step ==
    ASSUME PathInv, NEW p \in Run, rollback(p)
    PROVE  Good(p)
  <1>1. /\ pc[p] = "rollback" /\ ~IsCleanup(p) /\ Own(p) \in Run /\ pc'[p] = "unname"
        /\ UNCHANGED <<holder, lockFile, op, job, outcome>>
    BY Zenon, CopyOnly, EndsIs DEF rollback, PC
  <1>2. Frame(p)
    <2>1. op' \in [Run -> OpType]
      BY Zenon DEF TypeOK, PathInv, rollback
    <2>2. Learned(p)
      BY Zenon DEF TypeOK, PathInv, rollback, Step, Learned, JobOnly
    <2>3. Moved(p)
      BY Zenon, GotoEffect DEF PathInv, rollback, Step, PC, Guarded
    <2>4. Reported(p)
      BY Zenon DEF TypeOK, PathInv, rollback, Step, Reported
    <2>5. Rest
      BY Zenon DEF TypeOK, PathInv, rollback, Step, NoFault, Rest
    <2> QED  BY Zenon, <2>1, <2>2, <2>3, <2>4, <2>5, FrameParts DEF PathInv
  <1>3. PathInv'
    <2>1. PublishedHasManifest'
      BY Zenon, <1>1, ManifestCalls DEF OpState, Resumable
    <2>2. Goes(p)
      BY Zenon, <1>1, AtPath, KeepsCalls DEF Goes
    <2> QED  BY Zenon, <2>1, <2>2, <1>2, PathStep
  <1>4. Life /\ removals = 0 => Life'
    <2> SUFFICES ASSUME Life, removals = 0
                 PROVE  Life'
      OBVIOUS
    <2>1. /\ pc[p] = "rollback" /\ pc'[p] = "unname" /\ ~IsCleanup(p) /\ Own(p) \in Run
          /\ UNCHANGED <<holder, lockFile, op, job, outcome>>
          /\ Frame(p) /\ PathInv' /\ lockFile # Absent
      BY Zenon, <1>1, <1>2, <1>3, OthersIdle
         DEF HeldPC, PC, Guarded
    <2>2. LockSays(p)'
      BY Zenon, <2>1 DEF Life, LockSays, RecordName, Own, Making, Recorded
    <2>3. OwnSays(p)'
      BY Zenon, <2>1 DEF Life, OwnSays, Making, Resuming, Ending, Own, Adopted, Is
    <2>4. TodoSays(p)'
      BY Zenon, <2>1 DEF Life, TodoSays, Making, HeldPC, PC, Guarded, Todo, Own, Is
    <2>5. WaitSays(p)'
      BY Zenon, <2>1 DEF WaitSays, Life
    <2> QED
      BY Zenon, <2>1, <2>2, <2>3, <2>4, <2>5, SameStep DEF HeldPC, PC, Guarded, Unborn, Fails
  <1>5. Life /\ removals = 0 => \A x \in Run : Kept(x)
    BY Zenon, <1>1, KeptCalls
  <1> QED  BY Zenon, <1>2, <1>3, <1>4, <1>5 DEF Good

\* unname keeps the invariant and every operation's progress.
LEMMA unname_step ==
    ASSUME PathInv, NEW p \in Run, unname(p)
    PROVE  Good(p)
  <1>1. /\ pc[p] = "unname" /\ ~IsCleanup(p) /\ Own(p) \in Run
        /\ UNCHANGED <<holder, op, job>> /\ Fails(p)
        /\ \/ pc'[p] = "unnaming" /\ WriteLock(p, Torn)
           \/ pc'[p] = "release" /\ UNCHANGED lockFile
    <2>1. pc[p] = "unname" /\ ~IsCleanup(p) /\ Own(p) \in Run
      BY Zenon, CopyOnly DEF unname, Ending
    <2>2. UNCHANGED outcome => Fails(p)
      BY Zenon DEF Fails
    <2> QED  BY Zenon, <2>1, <2>2, GotoIs, ReportFails DEF unname, PC, Guarded
  <1>2. Frame(p)
    <2>1. op' \in [Run -> OpType]
      BY Zenon DEF TypeOK, PathInv, unname
    <2>2. Learned(p)
      BY Zenon DEF TypeOK, PathInv, unname, Learned, JobOnly
    <2>3. Moved(p)
      BY Zenon, GotoEffect DEF PathInv, unname, PC, Guarded
    <2>4. Reported(p)
      BY Zenon, ReportEffect DEF TypeOK, PathInv, unname, Reported
    <2>5. Rest
      BY Zenon, FaultEffect, LockEffect DEF TypeOK, PathInv, unname, NoFault, Rest
    <2> QED  BY Zenon, <2>1, <2>2, <2>3, <2>4, <2>5, FrameParts DEF PathInv
  <1>3. PathInv'
    <2>1. PublishedHasManifest'
      BY Zenon, <1>1, ManifestCalls DEF OpState, Resumable
    <2>2. Goes(p)
      BY Zenon, <1>1, AtPath, KeepsCalls DEF Goes
    <2> QED  BY Zenon, <2>1, <2>2, <1>2, PathStep
  <1>4. Life /\ removals = 0 => Life'
    <2> SUFFICES ASSUME Life, removals = 0
                 PROVE  Life'
      OBVIOUS
    <2>1. /\ pc[p] = "unname" /\ ~IsCleanup(p) /\ Own(p) \in Run
          /\ UNCHANGED <<holder, op, job>> /\ Fails(p)
          /\ \/ pc'[p] = "unnaming" /\ lockFile' = Torn
             \/ pc'[p] = "release" /\ UNCHANGED lockFile
          /\ Frame(p) /\ PathInv' /\ lockFile # Absent
      BY Zenon, <1>1, <1>2, <1>3, OthersIdle, Running
         DEF HeldPC, PC
    <2>2. LockSays(p)'
      BY Zenon, <2>1 DEF Life, LockSays, Making, Recorded
    <2>3. OwnSays(p)'
      BY ZenonT(60), <2>1 DEF Life, OwnSays, Making, Resuming, Ending, Own, Adopted, Is
    <2>4. TodoSays(p)'
      BY Zenon, <2>1 DEF Life, TodoSays, Making, HeldPC, PC, Todo, Own, Is
    <2>5. WaitSays(p)'
      BY Zenon, <2>1 DEF WaitSays, Life, Fails, Own
    <2> QED
      BY Zenon, <2>1, <2>2, <2>3, <2>4, <2>5, SameStep
         DEF HeldPC, PC, Guarded, Unborn, Absent, Torn
  <1>5. Life /\ removals = 0 => \A x \in Run : Kept(x)
    BY Zenon, <1>1, KeptCalls
  <1> QED  BY Zenon, <1>2, <1>3, <1>4, <1>5 DEF Good

\* unnamed keeps the invariant and every operation's progress.
LEMMA unnamed_step ==
    ASSUME PathInv, NEW p \in Run, unnamed(p)
    PROVE  Good(p)
  <1>1. /\ pc[p] = "unnaming" /\ ~IsCleanup(p) /\ Own(p) \in Run
        /\ UNCHANGED <<holder, op, job>> /\ Fails(p)
        /\ \/ pc'[p] = "removeown" /\ WriteLock(p, None)
           \/ /\ pc'[p] = "release"
              /\ WriteLock(p, None) \/ UNCHANGED lockFile
    <2>1. pc[p] = "unnaming" /\ ~IsCleanup(p) /\ Own(p) \in Run
      BY Zenon, CopyOnly DEF unnamed, Ending
    <2>2. UNCHANGED outcome => Fails(p)
      BY Zenon DEF Fails
    <2> QED  BY Zenon, <2>1, <2>2, GotoIs, ReportFails DEF unnamed, PC, Guarded
  <1>2. Frame(p)
    <2>1. op' \in [Run -> OpType]
      BY Zenon DEF TypeOK, PathInv, unnamed
    <2>2. Learned(p)
      BY Zenon DEF TypeOK, PathInv, unnamed, Learned, JobOnly
    <2>3. Moved(p)
      BY Zenon, GotoEffect DEF PathInv, unnamed, PC, Guarded
    <2>4. Reported(p)
      BY Zenon, ReportEffect DEF TypeOK, PathInv, unnamed, Reported
    <2>5. Rest
      BY Zenon, FaultEffect, LockEffect DEF TypeOK, PathInv, unnamed, NoFault, Rest
    <2> QED  BY Zenon, <2>1, <2>2, <2>3, <2>4, <2>5, FrameParts DEF PathInv
  <1>3. PathInv'
    <2>1. PublishedHasManifest'
      BY Zenon, <1>1, ManifestCalls DEF OpState, Resumable
    <2>2. Goes(p)
      BY Zenon, <1>1, AtPath, KeepsCalls DEF Goes
    <2> QED  BY Zenon, <2>1, <2>2, <1>2, PathStep
  <1>4. Life /\ removals = 0 => Life'
    <2> SUFFICES ASSUME Life, removals = 0
                 PROVE  Life'
      OBVIOUS
    <2>1. /\ pc[p] = "unnaming" /\ ~IsCleanup(p) /\ Own(p) \in Run
          /\ UNCHANGED <<holder, op, job>> /\ Fails(p)
          /\ \/ pc'[p] = "removeown" /\ lockFile' = None
             \/ pc'[p] = "release" /\ (lockFile' = None \/ UNCHANGED lockFile)
          /\ Frame(p) /\ PathInv' /\ lockFile # Absent
      BY Zenon, <1>1, <1>2, <1>3, OthersIdle, Running
         DEF HeldPC, PC
    <2>2. LockSays(p)'
      BY Zenon, <2>1 DEF Life, LockSays, Making, Recorded
    <2>3. OwnSays(p)'
      BY Zenon, <2>1 DEF Life, OwnSays, Making, Resuming, Ending, Own, Adopted, Is
    <2>4. TodoSays(p)'
      BY Zenon, <2>1 DEF Life, TodoSays, Making, HeldPC, PC, Todo, Own, Is
    <2>5. WaitSays(p)'
      BY Zenon, <2>1 DEF WaitSays, Life, Fails, Own
    <2> QED
      BY Zenon, <2>1, <2>2, <2>3, <2>4, <2>5, SameStep
         DEF HeldPC, PC, Guarded, Unborn, Absent, None
  <1>5. Life /\ removals = 0 => \A x \in Run : Kept(x)
    BY Zenon, <1>1, KeptCalls
  <1> QED  BY Zenon, <1>2, <1>3, <1>4, <1>5 DEF Good

\* remove_own keeps the invariant and every operation's progress.
LEMMA remove_own_step ==
    ASSUME PathInv, NEW p \in Run, remove_own(p)
    PROVE  Good(p)
  <1>1. /\ pc[p] \in {"removeown", "removingown"} /\ ~IsCleanup(p) /\ Own(p) \in Run
        /\ UNCHANGED <<holder, lockFile, job>> /\ Fails(p)
        /\ \/ /\ pc[p] = "removeown" /\ pc'[p] = "removingown"
              /\ Placed(Own(p), "removing")
           \/ /\ pc'[p] = "release" /\ (Emptied(Own(p)) \/ UNCHANGED op)
              /\ pc[p] = "removeown" => Kind = "file" \/ UNCHANGED op
    <2>1. pc[p] \in {"removeown", "removingown"} /\ ~IsCleanup(p) /\ Own(p) \in Run
      BY Zenon, CopyOnly DEF remove_own, Ending
    <2>2. UNCHANGED outcome => Fails(p)
      BY Zenon DEF Fails
    <2> QED
      BY Zenon, <2>1, <2>2, OpCalls, GotoIs, ReportFails DEF remove_own, PC, Guarded
  <1>2. Frame(p)
    <2>1. op' \in [Run -> OpType]
      BY Zenon, PlaceEffect, GoneEffect DEF TypeOK, PathInv, remove_own, Rename, Place,
         OpOnly
    <2>2. Learned(p)
      BY Zenon DEF TypeOK, PathInv, remove_own, Learned, JobOnly
    <2>3. Moved(p)
      BY Zenon, GotoEffect DEF PathInv, remove_own, PC, Guarded
    <2>4. Reported(p)
      BY Zenon, ReportEffect DEF TypeOK, PathInv, remove_own, Reported
    <2>5. Rest
      BY Zenon, FaultEffect DEF TypeOK, PathInv, remove_own, NoFault, Rest
    <2> QED  BY Zenon, <2>1, <2>2, <2>3, <2>4, <2>5, FrameParts DEF PathInv
  <1>3. PathInv'
    <2>1. PublishedHasManifest'
      BY Zenon, <1>1, ManifestCalls DEF OpState, Resumable
    <2>2. Goes(p)
      BY Zenon, <1>1, AtPath, KeepsCalls DEF Goes
    <2> QED  BY Zenon, <2>1, <2>2, <1>2, PathStep
  <1>4. Life /\ removals = 0 => Life'
    <2> SUFFICES ASSUME Life, removals = 0
                 PROVE  Life'
      OBVIOUS
    <2>1. /\ pc[p] \in {"removeown", "removingown"} /\ ~IsCleanup(p)
          /\ pc'[p] \in {"removingown", "release"}
          /\ UNCHANGED <<holder, lockFile, job>>
          /\ Frame(p) /\ PathInv' /\ Fails(p) /\ lockFile = None
      BY Zenon, <1>1, <1>2, <1>3 DEF Life, LockSays
    <2>2. PICK o \in Run : Own(p) = o
      BY Zenon, <1>1
    <2>3. /\ UNCHANGED op \/ Placed(o, "removing") \/ Emptied(o)
          /\ pc'[p] = "removingown" => Placed(o, "removing")
      BY Zenon, <2>2, <1>1
    <2>4. op[o].place \in {"there", "removing"} /\ op[o].place # Absent
      BY Zenon, <2>1, <2>2 DEF Life, OwnSays, Ending, Is, Absent
    <2>5. op[o].partial => Missed(o)
      <3>1. CASE pc[p] = "removeown"
        <4>1. Adopted(p) \/ ~op[o].partial
          BY Zenon, <2>2, <3>1 DEF Life, OwnSays, Adopted
        <4> QED  BY Zenon, <2>2, <4>1 DEF Missed
      <3>2. CASE pc[p] = "removingown"
        BY Zenon, <2>2, <3>2 DEF Life, OwnSays, OpSays
      <3> QED  BY Zenon, <2>1, <3>1, <3>2
    <2>6. Own(p)' = o /\ Todo(p)' = Todo(p)
      BY Zenon, <2>1, <2>2 DEF Own, Todo
    <2>7. /\ OpOnly(o) /\ OpSays(o)' /\ (Is(o, Resumable)' => Is(o, Resumable))
          /\ pc'[p] = "removingown" => op'[o].place = "removing"
      <3>1. CASE UNCHANGED op
        BY Zenon, <2>1, <2>3, <3>1, SameOp DEF Placed
      <3>2. CASE Placed(o, "removing") \/ Emptied(o)
        <4>1. /\ OpOnly(o) /\ op'[o].place # "there" /\ op'[o].partial = op[o].partial
              /\ pc'[p] = "removingown" => op'[o].place = "removing"
          BY Zenon, <2>3, <3>2 DEF Placed, Emptied, Absent
        <4> QED  BY Zenon, <2>1, <2>5, <4>1, MissedStays DEF OpSays, Is
      <3> QED  BY Zenon, <2>3, <3>1, <3>2
    <2>8. LockSays(p)' /\ OwnSays(p)'
      BY Zenon, <2>1, <2>6, <2>7 DEF LockSays, OwnSays, Making, Recorded, Resuming, Ending
    <2>9. WaitSays(p)'
      BY Zenon, <2>1, <2>2, <2>6 DEF WaitSays, Life, Fails
    <2>10. TodoSays(p)'
      BY Zenon, <2>1, <2>2, <2>6, <2>7, TodoOwn
         DEF Planning, Settled, Copying, Making, HeldPC, PC, Guarded, Ending
    <2> QED
      BY Zenon, <2>1, <2>2, <2>4, <2>6, <2>7, <2>8, <2>9, <2>10, OwnStep
         DEF HeldPC, PC, Guarded, Unborn
  <1>5. Life /\ removals = 0 => \A x \in Run : Kept(x)
    <2> SUFFICES ASSUME Life, removals = 0
                 PROVE  \A x \in Run : Kept(x)
      BY Zenon
    <2>1. /\ pc[p] \in {"removeown", "removingown"} /\ Own(p) \in Run
          /\ UNCHANGED op \/ Placed(Own(p), "removing") \/ Emptied(Own(p))
      BY Zenon, <1>1
    <2>2. UNCHANGED op \/ (OpOnly(Own(p)) /\ op'[Own(p)].place # "there")
      BY Zenon, <2>1 DEF Placed, Emptied, Absent
    <2>3. CASE pc[p] = "removingown"
      BY ZenonT(90), <2>1, <2>2, <2>3, KeptCalls, KeptAll DEF Life, OwnSays
    <2>4. CASE pc[p] = "removeown" /\ Own(p) # p
      <3>1. ~Is(Own(p), Resumable)
        BY SMTT(30), <2>1, <2>4 DEF Life, OwnSays, Adopted, Is, Resumable, None
      <3> QED  BY Zenon, <2>1, <2>2, <3>1, KeptCalls, KeptAll
    <2>5. CASE pc[p] = "removeown" /\ Own(p) = p
      <3>1. op'[p].place # "there" => Kept(p)
        BY Zenon, <2>5 DEF Kept
      <3> QED  BY Zenon, <2>1, <2>2, <2>5, <3>1, KeptCalls, KeptAll
    <2> QED  BY Zenon, <2>1, <2>3, <2>4, <2>5
  <1> QED  BY Zenon, <1>2, <1>3, <1>4, <1>5 DEF Good

\* fail keeps the invariant and every operation's progress.
LEMMA fail_step ==
    ASSUME PathInv, NEW p \in Run, fail(p)
    PROVE  Good(p)
  <1>1. /\ pc[p] = "fail" /\ ~IsCleanup(p) /\ Own(p) \in Run /\ pc'[p] = "release"
        /\ UNCHANGED <<holder, lockFile, job, outcome>>
        /\ UNCHANGED op \/ Wrote(Own(p), "FAILED", FALSE)
    <2>1. pc[p] = "fail" /\ ~IsCleanup(p) /\ Own(p) \in Run
      BY Zenon, CopyOnly DEF fail, Ending
    <2>2. WriteOk(Own(p), "FAILED", FALSE) \/ WriteErr(Own(p), "FAILED", FALSE) =>
            UNCHANGED op \/ Wrote(Own(p), "FAILED", FALSE)
      BY Zenon, <2>1, WriteCalls DEF OpState, Resumable
    <2> QED  BY Zenon, <2>1, <2>2, EndsIs DEF fail, PC, Guarded
  <1>2. Frame(p)
    <2>1. op' \in [Run -> OpType]
      BY Zenon, WrittenEffect DEF TypeOK, PathInv, fail, WriteOk, WriteErr, OpState,
         Resumable, OpOnly
    <2>2. Learned(p)
      BY Zenon DEF TypeOK, PathInv, fail, Step, Learned, JobOnly
    <2>3. Moved(p)
      BY Zenon, GotoEffect DEF PathInv, fail, Step, PC, Guarded
    <2>4. Reported(p)
      BY Zenon DEF TypeOK, PathInv, fail, Step, Reported
    <2>5. Rest
      BY Zenon, FaultEffect DEF TypeOK, PathInv, fail, Step, WriteOk, WriteErr,
         NoFault, Rest
    <2> QED  BY Zenon, <2>1, <2>2, <2>3, <2>4, <2>5, FrameParts DEF PathInv
  <1>3. PathInv'
    <2>1. PublishedHasManifest'
      BY Zenon, <1>1, ManifestCalls DEF OpState, Resumable
    <2>2. Goes(p)
      BY Zenon, <1>1, AtPath, KeepsCalls DEF Goes
    <2> QED  BY Zenon, <2>1, <2>2, <1>2, PathStep
  <1>4. Life /\ removals = 0 => Life'
    <2> SUFFICES ASSUME Life, removals = 0
                 PROVE  Life'
      OBVIOUS
    <2>1. /\ pc[p] = "fail" /\ ~IsCleanup(p) /\ pc'[p] = "release"
          /\ UNCHANGED <<holder, lockFile, job>>
          /\ Frame(p) /\ PathInv' /\ Fails(p)
      BY Zenon, <1>1, <1>2, <1>3 DEF Fails
    <2>2. PICK o \in Run : Own(p) = o
      BY Zenon, <1>1
    <2>3. UNCHANGED op \/ Wrote(o, "FAILED", FALSE)
      BY Zenon, <2>2, <1>1
    <2>4. /\ op[o].place = "there" /\ op[o].place # Absent /\ Clear(o)
          /\ (Kind = "tree" => op[o].store = "ok") /\ lockFile \in {o, Torn}
      BY SMTT(30), <2>1, <2>2 DEF Life, OwnSays, LockSays, Ending, Recorded, RecordName, Is, Clear,
         Absent
    <2>5. Own(p)' = o /\ Todo(p)' = Todo(p)
      BY Zenon, <2>1, <2>2 DEF Own, Todo
    <2>6. OpOnly(o) /\ OpSays(o)' /\ op'[o].place = "there"
      <3>1. CASE UNCHANGED op
        BY Zenon, <2>1, <2>4, <3>1, SameOp
      <3>2. CASE Wrote(o, "FAILED", FALSE)
        BY Zenon, <2>4, <3>2 DEF Wrote, OpSays, Is
      <3> QED  BY Zenon, <2>3, <3>1, <3>2
    <2>7. LockSays(p)' /\ OwnSays(p)'
      BY Zenon, <2>1 DEF LockSays, OwnSays, Making, Recorded, Resuming, Ending
    <2>8. WaitSays(p)'
      BY Zenon, <2>1 DEF WaitSays, Life, Fails
    <2>9. TodoSays(p)'
      BY Zenon, <2>1 DEF TodoSays, Making
    <2> QED
      BY Zenon, <2>1, <2>2, <2>4, <2>5, <2>6, <2>7, <2>8, <2>9, OwnStep
         DEF HeldPC, PC, Guarded, Unborn, Torn
  <1>5. Life /\ removals = 0 => \A x \in Run : Kept(x)
    <2> SUFFICES ASSUME Life, removals = 0
                 PROVE  \A x \in Run : Kept(x)
      BY Zenon
    <2>1. pc[p] = "fail" /\ ~IsCleanup(p) /\ Own(p) \in Run
          /\ (UNCHANGED op \/ Wrote(Own(p), "FAILED", FALSE))
      BY Zenon, <1>1
    <2>2. Is(Own(p), OpState \ {"ABANDONED"})
      BY Zenon, <2>1 DEF Life, OwnSays, Ending
    <2>3. PICK o \in Run : o = Own(p)
      BY Zenon, <2>1
    <2>4. UNCHANGED op \/ (OpOnly(o) /\ Is(o, Resumable)')
      BY Zenon, <2>1, <2>3 DEF Wrote, Is, Resumable
    <2> QED  BY Zenon, <2>2, <2>3, <2>4, KeptCalls, KeptAll
  <1> QED  BY Zenon, <1>2, <1>3, <1>4, <1>5 DEF Good

\* release keeps the invariant and every operation's progress.
LEMMA release_step ==
    ASSUME PathInv, NEW p \in Run, release(p)
    PROVE  Good(p)
  <1>1. /\ pc[p] = "release" /\ pc'[p] = "ended" /\ UNCHANGED <<op, job>>
        /\ (lockFile' = Absent /\ holder' = None) \/ (Unhold(p) /\ UNCHANGED lockFile)
        /\ IsCleanup(p) \/ Fails(p)
    <2>1. ~IsCleanup(p) /\ Report(p, IF IsCleanup(p) THEN "ok" ELSE "refused") =>
            Fails(p)
      BY Zenon, ReportFails
    <2> QED  BY Zenon, <2>1, GotoIs, ReportFails DEF release, PC
  <1>2. Frame(p)
    <2>1. op' \in [Run -> OpType]
      BY Zenon DEF TypeOK, PathInv, release
    <2>2. Learned(p)
      BY Zenon DEF TypeOK, PathInv, release, Learned, JobOnly
    <2>3. Moved(p)
      BY Zenon, GotoEffect DEF PathInv, release, PC, Guarded
    <2>4. Reported(p)
      BY Zenon, ReportEffect DEF TypeOK, PathInv, release, Reported
    <2>5. Rest
      BY Zenon, FaultEffect, LockEffect DEF TypeOK, PathInv, release, NoFault, Rest
    <2> QED  BY Zenon, <2>1, <2>2, <2>3, <2>4, <2>5, FrameParts DEF PathInv
  <1>3. PathInv'
    <2>1. PublishedHasManifest'
      BY Zenon, <1>1, ManifestCalls DEF OpState, Resumable
    <2>2. Goes(p)
      BY Zenon, <1>1, AtPath, KeepsCalls DEF Goes
    <2> QED  BY Zenon, <2>1, <2>2, <1>2, PathStep
  <1>4. Life /\ removals = 0 => Life'
    <2> SUFFICES ASSUME Life, removals = 0
                 PROVE  Life'
      OBVIOUS
    <2> QED
      BY Zenon, <1>1, <1>2, <1>3, EndStep
         DEF HeldPC, PC, Guarded, Own
  <1>5. Life /\ removals = 0 => \A x \in Run : Kept(x)
    BY Zenon, <1>1, KeptCalls
  <1> QED  BY Zenon, <1>2, <1>3, <1>4, <1>5 DEF Good

\* owned keeps the invariant and every operation's progress.
LEMMA owned_step ==
    ASSUME PathInv, NEW p \in Run, owned(p)
    PROVE  Good(p)
  <1>1. UNCHANGED <<holder, lockFile, op, pc, job, outcome>>
    BY Zenon DEF owned
  <1>2. Frame(p)
    <2>1. op' \in [Run -> OpType]
      BY Zenon DEF TypeOK, PathInv, owned
    <2>2. Learned(p)
      BY Zenon DEF TypeOK, PathInv, owned, Learned, JobOnly
    <2>3. Moved(p)
      BY Zenon DEF TypeOK, PathInv, owned, Moved
    <2>4. Reported(p)
      BY Zenon DEF TypeOK, PathInv, owned, Reported
    <2>5. Rest
      BY Zenon DEF TypeOK, PathInv, owned, NoFault, Rest
    <2> QED  BY Zenon, <2>1, <2>2, <2>3, <2>4, <2>5, FrameParts DEF PathInv
  <1>3. PathInv'
    <2>1. PublishedHasManifest'
      BY Zenon, <1>1, ManifestCalls DEF OpState, Resumable
    <2>2. Goes(p)
      BY Zenon, <1>1, AtPath, KeepsCalls DEF Goes
    <2> QED  BY Zenon, <2>1, <2>2, <1>2, PathStep
  <1>4. Life => Life'
    BY Zenon, SameLife DEF owned
  <1>5. Life /\ removals = 0 => \A x \in Run : Kept(x)
    BY Zenon, <1>1, KeptCalls
  <1> QED  BY Zenon, <1>2, <1>3, <1>4, <1>5 DEF Good

\* lost keeps the invariant and every operation's progress.
LEMMA lost_step ==
    ASSUME PathInv, NEW p \in Run, lost(p)
    PROVE  Good(p)
  <1>1. /\ pc[p] \in Guarded /\ pc'[p] = "ended" /\ Unhold(p) /\ Fails(p)
        /\ UNCHANGED <<lockFile, op, job>>
    BY Zenon, GotoIs, ReportFails DEF lost, Checking, PC
  <1>2. Frame(p)
    <2>1. op' \in [Run -> OpType]
      BY Zenon DEF TypeOK, PathInv, lost
    <2>2. Learned(p)
      BY Zenon DEF TypeOK, PathInv, lost, Learned, JobOnly
    <2>3. Moved(p)
      BY Zenon, GotoEffect DEF PathInv, lost, PC, Guarded
    <2>4. Reported(p)
      BY Zenon, ReportEffect DEF TypeOK, PathInv, lost, Reported
    <2>5. Rest
      BY Zenon, LockEffect DEF TypeOK, PathInv, lost, NoFault, Rest
    <2> QED  BY Zenon, <2>1, <2>2, <2>3, <2>4, <2>5, FrameParts DEF PathInv
  <1>3. PathInv'
    <2>1. PublishedHasManifest'
      BY Zenon, <1>1, ManifestCalls DEF OpState, Resumable
    <2>2. Goes(p)
      BY Zenon, <1>1, AtPath, KeepsCalls DEF Goes
    <2> QED  BY Zenon, <2>1, <2>2, <1>2, PathStep
  <1>4. Life /\ removals = 0 => Life'
    <2> SUFFICES ASSUME Life, removals = 0
                 PROVE  Life'
      OBVIOUS
    <2> QED
      BY Zenon, <1>1, <1>2, <1>3, EndStep DEF HeldPC, PC, Guarded, Own
  <1>5. Life /\ removals = 0 => \A x \in Run : Kept(x)
    BY Zenon, <1>1, KeptCalls
  <1> QED  BY Zenon, <1>2, <1>3, <1>4, <1>5 DEF Good

\* CheckFails keeps the invariant and every operation's progress.
LEMMA CheckFails_step ==
    ASSUME PathInv, NEW p \in Run, CheckFails(p)
    PROVE  Good(p)
  <1>1. /\ pc[p] \in Guarded /\ Fails(p) /\ UNCHANGED <<op, job>>
        /\ \/ /\ pc[p] \in {"work", "copy", "copying"}
              /\ WriteLock(p, Torn) \/ UNCHANGED lockFile
              /\ UNCHANGED holder
              /\ pc'[p] = IF IsCleanup(p) THEN "release" ELSE "fail"
           \/ UNCHANGED lockFile /\ Unhold(p) /\ pc'[p] = "ended"
    <2>1. /\ Goto(p, IF IsCleanup(p) THEN "release" ELSE "fail") =>
               pc'[p] = IF IsCleanup(p) THEN "release" ELSE "fail"
          /\ Goto(p, "ended") => pc'[p] = "ended"
      BY Zenon, GotoIs DEF PC, Guarded
    <2>2. Report(p, IF pc[p] \in {"copy", "copying"} THEN "lost" ELSE "failed") =>
            Fails(p)
      BY Zenon, ReportFails
    <2> QED  BY Zenon, <2>1, <2>2, ReportFails DEF CheckFails, Checking
  <1>2. Frame(p)
    <2>1. op' \in [Run -> OpType]
      BY Zenon DEF TypeOK, PathInv, CheckFails
    <2>2. Learned(p)
      BY Zenon DEF TypeOK, PathInv, CheckFails, Learned, JobOnly
    <2>3. Moved(p)
      BY Zenon, GotoEffect DEF PathInv, CheckFails, PC, Guarded
    <2>4. Reported(p)
      BY Zenon, ReportEffect DEF TypeOK, PathInv, CheckFails, Reported
    <2>5. Rest
      BY Zenon, FaultEffect, LockEffect DEF TypeOK, PathInv, CheckFails, NoFault, Rest
    <2> QED  BY Zenon, <2>1, <2>2, <2>3, <2>4, <2>5, FrameParts DEF PathInv
  <1>3. PathInv'
    <2>1. PublishedHasManifest'
      BY Zenon, <1>1, ManifestCalls DEF OpState, Resumable
    <2>2. Goes(p)
      BY Zenon, <1>1, AtPath, KeepsCalls DEF Goes, Guarded
    <2> QED  BY Zenon, <2>1, <2>2, <1>2, PathStep
  <1>4. Life /\ removals = 0 => Life'
    <2> SUFFICES ASSUME Life, removals = 0
                 PROVE  Life'
      OBVIOUS
    <2>0. /\ pc[p] \in HeldPC /\ Fails(p) /\ UNCHANGED <<op, job>>
          /\ Frame(p) /\ PathInv' /\ lockFile # Absent
      BY Zenon, <1>1, <1>2, <1>3, OthersIdle
         DEF HeldPC, PC, Guarded
    <2>1. CASE UNCHANGED lockFile /\ Unhold(p) /\ pc'[p] = "ended"
      BY Zenon, <2>0, <2>1, EndStep DEF Own
    <2>2. CASE /\ pc[p] \in {"work", "copy", "copying"}
               /\ WriteLock(p, Torn) \/ UNCHANGED lockFile
               /\ UNCHANGED holder
               /\ pc'[p] = IF IsCleanup(p) THEN "release" ELSE "fail"
      <3>1. lockFile' = lockFile \/ lockFile' = Torn
        BY Zenon, <2>0, <2>2, Running
      <3>2. LockSays(p)'
        BY Zenon, <2>0, <2>2, <3>1 DEF Life, LockSays, RecordName, Own, Making, Recorded
      <3>3. OwnSays(p)'
        <4>1. CASE IsCleanup(p)
          BY Zenon, <2>2, <4>1 DEF OwnSays, Making, Resuming, Ending
        <4>2. CASE ~IsCleanup(p)
          <5>1. \A q \in Run : outcome'[q] = "ok" /\ ~IsCleanup(q) => Own(q)' # Own(p)'
            BY Zenon, <2>0, <2>2, <4>2, StopClear DEF Resuming
          <5> QED
            BY ZenonT(60), <2>0, <2>2, <4>2, <5>1
               DEF Life, OwnSays, Making, Resuming, Ending, Own, Is, IsCleanup
        <4> QED  BY Zenon, <4>1, <4>2
      <3>4. TodoSays(p)'
        BY Zenon, <2>2 DEF TodoSays, Making
      <3>5. WaitSays(p)'
        BY Zenon, <2>0, <2>2 DEF WaitSays, Life, Fails
      <3> QED
        BY Zenon, <2>0, <2>2, <3>1, <3>2, <3>3, <3>4, <3>5, SameStep
           DEF HeldPC, PC, Guarded, Unborn, Absent, Torn
    <2> QED  BY Zenon, <2>1, <2>2, <1>1
  <1>5. Life /\ removals = 0 => \A x \in Run : Kept(x)
    BY Zenon, <1>1, KeptCalls
  <1> QED  BY Zenon, <1>2, <1>3, <1>4, <1>5 DEF Good

\* run_pass_ends keeps the invariant and every operation's progress.
LEMMA run_pass_ends_step ==
    ASSUME PathInv, NEW p \in Run, run_pass_ends(p)
    PROVE  Good(p)
  <1>1. /\ pc[p] = "row" /\ pc'[p] = "release"
        /\ UNCHANGED <<holder, lockFile, op, job, outcome>>
    BY Zenon, GotoIs DEF run_pass_ends, PC, Guarded
  <1>2. Frame(p)
    <2>1. op' \in [Run -> OpType]
      BY Zenon DEF TypeOK, PathInv, run_pass_ends
    <2>2. Learned(p)
      BY Zenon DEF TypeOK, PathInv, run_pass_ends, Learned, JobOnly
    <2>3. Moved(p)
      BY Zenon, GotoEffect DEF PathInv, run_pass_ends, PC, Guarded
    <2>4. Reported(p)
      BY Zenon DEF TypeOK, PathInv, run_pass_ends, Reported
    <2>5. Rest
      BY Zenon DEF TypeOK, PathInv, run_pass_ends, NoFault, Rest
    <2> QED  BY Zenon, <2>1, <2>2, <2>3, <2>4, <2>5, FrameParts DEF PathInv
  <1>3. PathInv'
    <2>1. PublishedHasManifest'
      BY Zenon, <1>1, ManifestCalls DEF OpState, Resumable
    <2>2. Goes(p)
      BY Zenon, <1>1, AtPath, KeepsCalls DEF Goes
    <2> QED  BY Zenon, <2>1, <2>2, <1>2, PathStep
  <1>4. Life /\ removals = 0 => Life'
    <2> SUFFICES ASSUME Life, removals = 0
                 PROVE  Life'
      OBVIOUS
    <2>1. /\ pc[p] = "row" /\ pc'[p] = "release"
          /\ UNCHANGED <<holder, lockFile, op, job, outcome>>
          /\ Frame(p) /\ PathInv' /\ lockFile # Absent
      BY Zenon, <1>1, <1>2, <1>3, OthersIdle
         DEF HeldPC, PC
    <2>2. LockSays(p)' /\ OwnSays(p)' /\ TodoSays(p)'
      BY Zenon, <2>1 DEF LockSays, OwnSays, TodoSays, Making, Recorded, Resuming, Ending
    <2>3. WaitSays(p)'
      BY Zenon, <2>1 DEF WaitSays, Life
    <2> QED  BY Zenon, <2>1, <2>2, <2>3, SameStep DEF HeldPC, PC, Guarded, Unborn, Fails
  <1>5. Life /\ removals = 0 => \A x \in Run : Kept(x)
    BY Zenon, <1>1, KeptCalls
  <1> QED  BY Zenon, <1>2, <1>3, <1>4, <1>5 DEF Good

\* Crash keeps the invariant and every operation's progress.
LEMMA Crash_step ==
    ASSUME PathInv, NEW p \in Run, Crash(p)
    PROVE  Good(p)
  <1>1. /\ pc[p] \in HeldPC /\ pc'[p] = "dead" /\ Unhold(p)
        /\ UNCHANGED <<op, job, outcome>>
        /\ \/ UNCHANGED lockFile
           \/ pc[p] \in {"work", "copy", "copying"} /\ WriteLock(p, Torn)
    BY Zenon, GotoIs DEF Crash, PC, PathInv, TypeOK, HeldPC
  <1>2. Frame(p)
    <2>1. op' \in [Run -> OpType]
      BY Zenon DEF TypeOK, PathInv, Crash
    <2>2. Learned(p)
      BY Zenon DEF TypeOK, PathInv, Crash, Learned, JobOnly
    <2>3. Moved(p)
      BY Zenon, GotoEffect DEF PathInv, Crash, PC, Guarded
    <2>4. Reported(p)
      BY Zenon DEF TypeOK, PathInv, Crash, Reported
    <2>5. Rest
      BY Zenon, LockEffect DEF TypeOK, PathInv, Crash, NoFault, Rest
    <2> QED  BY Zenon, <2>1, <2>2, <2>3, <2>4, <2>5, FrameParts DEF PathInv
  <1>3. PathInv'
    <2>1. PublishedHasManifest'
      BY Zenon, <1>1, ManifestCalls DEF OpState, Resumable
    <2>2. Goes(p)
      BY Zenon, <1>1, AtPath, KeepsCalls DEF Goes
    <2> QED  BY Zenon, <2>1, <2>2, <1>2, PathStep
  <1>4. Life /\ removals = 0 => Life'
    <2> SUFFICES ASSUME Life, removals = 0
                 PROVE  Life'
      OBVIOUS
    <2>1. lockFile' = lockFile \/ lockFile' = Torn
      BY Zenon, <1>1, Running
    <2> QED
      BY Zenon, <2>1, <1>1, <1>2, <1>3, EndStep DEF Own, Fails
  <1>5. Life /\ removals = 0 => \A x \in Run : Kept(x)
    BY Zenon, <1>1, KeptCalls
  <1> QED  BY Zenon, <1>2, <1>3, <1>4, <1>5 DEF Good

\* discover keeps the invariant and every operation's progress.
LEMMA discover_step ==
    ASSUME PathInv, NEW p \in Run, discover(p)
    PROVE  Good(p)
  <1>1. /\ pc[p] = "discover" /\ pc'[p] \in {"obtain", "ended"}
        /\ UNCHANGED <<holder, lockFile, op, outcome>>
        /\ JobOnly(p) /\ job'[p].id = job[p].id /\ job'[p].mem = job[p].mem
        /\ job'[p].work = job[p].work /\ job'[p].claimed = job[p].claimed
        /\ \A r \in job'[p].rows : r[1] # p
    <2> DEFINE Row(e) ==
          {<<o, op[o].place, IF Is(o, OpState \ {"COMPLETED"}) THEN 1 ELSE 0>> :
              o \in {q \in Run \ {p} : e[q]}}
    <2>1. PICK e \in [Run \ {p} -> BOOLEAN] : job' = WithRows(job, p, Row(e))
      BY Zenon DEF discover, WithRows
    <2>2. /\ Row(e) \in SUBSET (Run \X Place \X {0, 1})
          /\ \A r \in Row(e) : r[1] # p
      BY SMTT(60) DEF TypeOK, PathInv, OpType
    <2>3. /\ pc[p] = "discover" /\ pc'[p] \in {"obtain", "ended"}
          /\ UNCHANGED <<holder, lockFile, op, outcome>>
      BY Zenon, GotoIs DEF discover, PC
    <2> HIDE DEF Row
    <2> QED  BY SMTT(60), <2>1, <2>2, <2>3, SetRows DEF TypeOK, PathInv, JobOnly
  <1>2. Frame(p)
    <2>1. op' \in [Run -> OpType]
      BY Zenon DEF TypeOK, PathInv, discover
    <2>2. Learned(p)
      BY Zenon, <1>1 DEF TypeOK, PathInv, Learned, JobOnly, Own
    <2>3. Moved(p)
      BY Zenon, GotoEffect DEF PathInv, discover, PC, Guarded
    <2>4. Reported(p)
      BY Zenon DEF TypeOK, PathInv, discover, Reported
    <2>5. Rest
      BY Zenon DEF TypeOK, PathInv, discover, NoFault, Rest
    <2> QED  BY Zenon, <2>1, <2>2, <2>3, <2>4, <2>5, FrameParts DEF PathInv
  <1>3. PathInv'
    <2>1. PublishedHasManifest'
      BY Zenon, <1>1, ManifestCalls DEF OpState, Resumable
    <2>2. Goes(p)
      BY Zenon, <1>1, AtPath, KeepsCalls DEF Goes, Keeps, Own
    <2> QED  BY Zenon, <2>1, <2>2, <1>2, PathStep
  <1>4. Life /\ removals = 0 => Life'
    <2> SUFFICES ASSUME Life, removals = 0
                 PROVE  Life'
      OBVIOUS
    <2> QED
      BY Zenon, <1>1, <1>2, IdleStep DEF Fails
  <1>5. Life /\ removals = 0 => \A x \in Run : Kept(x)
    BY Zenon, <1>1, KeptCalls
  <1> QED  BY Zenon, <1>2, <1>3, <1>4, <1>5 DEF Good

\* row keeps the invariant and every operation's progress.
LEMMA row_step ==
    ASSUME PathInv, NEW p \in Run, row(p)
    PROVE  Good(p)
  <1>1. /\ pc[p] = "row" /\ pc'[p] = "work"
        /\ UNCHANGED <<holder, lockFile, op, outcome>>
        /\ JobOnly(p) /\ job'[p].id = job[p].id /\ job'[p].mem = job[p].mem
        /\ job'[p].claimed = job[p].claimed /\ job'[p].rows \subseteq job[p].rows
        /\ \E r \in job[p].rows :
             /\ r[1] \in Run
             /\ Todo(p)'.abandon \subseteq {r[1]} /\ Other(p)' \subseteq {r[1]}
             /\ Todo(p)'.abandon # {} => Is(r[1], Resumable)
             /\ Other(p)' # {} => ~Is(r[1], Resumable)
        /\ Todo(p)'.remove = {}
        /\ \A o \in Todo(p)'.finish : Is(o, {"COMPLETED"})
    <2> DEFINE W(o) == [NoWork EXCEPT
                          !.abandon = IF Is(o, Resumable) THEN {o} ELSE {},
                          !.sweep   = IF Is(o, {"ABANDONED"}) THEN {o} ELSE {},
                          !.finish  = IF Is(o, {"COMPLETED"}) THEN {o} ELSE {},
                          !.debris  = IF op[o].place # "there" THEN {o} ELSE {}]
               V(e, o) == IF e THEN W(o) ELSE NoWork
    <2>1. PICK r \in job[p].rows, e \in BOOLEAN :
            job' = [job EXCEPT ![p].rows = @ \ {r}, ![p].work = V(e, r[1])]
      BY ZenonT(60) DEF row, classify
    <2>2. /\ r[1] \in Run
          /\ job[p].rows \ {r} \in SUBSET (Run \X Place \X {0, 1})
      BY SMTT(30) DEF TypeOK, PathInv, JobType
    <2>3. /\ W(r[1]) \in WorkType /\ W(r[1]).keep = {} /\ W(r[1]).remove = {}
          /\ W(r[1]).retiring = {}
          /\ W(r[1]).abandon = IF Is(r[1], Resumable) THEN {r[1]} ELSE {}
          /\ W(r[1]).sweep = IF Is(r[1], {"ABANDONED"}) THEN {r[1]} ELSE {}
          /\ W(r[1]).finish = IF Is(r[1], {"COMPLETED"}) THEN {r[1]} ELSE {}
          /\ W(r[1]).debris = IF op[r[1]].place # "there" THEN {r[1]} ELSE {}
      BY ZenonT(60), <2>2 DEF NoWork, WorkType
    <2>4. /\ NoWork \in WorkType /\ NoWork.abandon = {} /\ NoWork.sweep = {}
          /\ NoWork.keep = {} /\ NoWork.remove = {} /\ NoWork.retiring = {}
          /\ NoWork.finish = {} /\ NoWork.debris = {}
      BY Zenon DEF NoWork, WorkType
    <2>5. SetWorkOf(WithRows(job, p, job[p].rows \ {r}), p, V(e, r[1]))
      BY Zenon, <2>1 DEF SetWorkOf, WithRows
    <2>6. /\ pc[p] = "row" /\ pc'[p] = "work"
          /\ UNCHANGED <<holder, lockFile, op, outcome>>
      BY Zenon, GotoIs DEF row, PC, Guarded
    <2> HIDE DEF W
    <2>7. V(e, r[1]) \in WorkType
      BY Zenon, <2>3, <2>4
    <2>8. /\ JobOnly(p) /\ job'[p].id = job[p].id /\ job'[p].mem = job[p].mem
          /\ job'[p].claimed = job[p].claimed /\ job'[p].rows = job[p].rows \ {r}
          /\ job'[p].work = V(e, r[1])
      <3> HIDE DEF V
      <3> QED
        BY SMTT(60), <2>2, <2>5, <2>7, SetRows, SetWorkOfEffect DEF TypeOK, PathInv, JobOnly
    <2>9. /\ Todo(p)'.abandon \subseteq {r[1]} /\ Other(p)' \subseteq {r[1]}
          /\ Todo(p)'.abandon # {} => Is(r[1], Resumable)
          /\ Other(p)' # {} => ~Is(r[1], Resumable)
          /\ Todo(p)'.remove = {}
          /\ \A o \in Todo(p)'.finish : Is(o, {"COMPLETED"})
      BY ZenonT(90), <2>3, <2>4, <2>8 DEF Todo, Other, Is, Resumable
    <2> QED  BY Zenon, <2>1, <2>2, <2>6, <2>8, <2>9
  <1>2. Frame(p)
    <2>1. op' \in [Run -> OpType]
      BY Zenon DEF TypeOK, PathInv, row
    <2>2. Learned(p)
      BY Zenon, <1>1 DEF TypeOK, PathInv, Learned, JobOnly, Own
    <2>3. Moved(p)
      BY Zenon, GotoEffect DEF PathInv, row, PC, Guarded
    <2>4. Reported(p)
      BY Zenon DEF TypeOK, PathInv, row, Reported
    <2>5. Rest
      BY Zenon DEF TypeOK, PathInv, row, NoFault, Rest
    <2> QED  BY Zenon, <2>1, <2>2, <2>3, <2>4, <2>5, FrameParts DEF PathInv
  <1>3. PathInv'
    <2>1. PublishedHasManifest'
      BY Zenon, <1>1, ManifestCalls DEF OpState, Resumable
    <2>2. Goes(p)
      BY ZenonT(60), <1>1, AtPath, KeepsCalls DEF Goes, Keeps, Own
    <2> QED  BY Zenon, <2>1, <2>2, <1>2, PathStep
  <1>4. Life /\ removals = 0 => Life'
    <2> SUFFICES ASSUME Life, removals = 0
                 PROVE  Life'
      OBVIOUS
    <2>1. /\ pc[p] = "row" /\ pc'[p] = "work"
          /\ UNCHANGED <<holder, lockFile, op, outcome>>
          /\ job'[p].id = job[p].id /\ job'[p].mem = job[p].mem
          /\ Frame(p) /\ PathInv' /\ Fails(p)
      BY Zenon, <1>1, <1>2, <1>3 DEF Fails
    <2>2. /\ Idle(p) /\ lockFile # Absent /\ pc[p] \in HeldPC /\ pc'[p] \in HeldPC
      BY Zenon, <2>1, OthersIdle DEF HeldPC, PC, Guarded
    <2>3. /\ Own(p)' = Own(p) /\ IsCleanup(p) /\ Own(p) = None
          /\ \A r \in job[p].rows : r[1] # p
      BY Zenon, <2>1 DEF PathInv, PathSays, Own
    <2>4. World(p)
      BY Zenon, <2>1, <2>2, <2>3, Unchanged DEF Knowing
    <2>5. LockSays(p)'
      BY Zenon, <2>1, <2>3 DEF Life, LockSays, Making, Recorded, RecordName, IsCleanup
    <2>6. OwnSays(p)'
      BY Zenon, <2>1, <2>3 DEF OwnSays, Making, Resuming, Ending, IsCleanup
    <2>7. TodoSays(p)'
      <3>1. PICK r \in job[p].rows :
              /\ r[1] \in Run
              /\ Todo(p)'.abandon \subseteq {r[1]} /\ Other(p)' \subseteq {r[1]}
              /\ Todo(p)'.abandon # {} => Is(r[1], Resumable)
              /\ Other(p)' # {} => ~Is(r[1], Resumable)
        BY Zenon, <1>1
      <3>2. {p, Own(p)'} \cap (Todo(p)'.abandon \cup Other(p)') = {}
        BY Zenon, <2>3, <3>1
      <3>3. /\ \A o \in Todo(p)'.abandon : Is(o, Resumable)'
            /\ \A o \in Other(p)' : ~Is(o, Resumable)'
        BY Zenon, <2>1, <3>1 DEF Is
      <3>4. Todo(p)'.remove = {} /\ \A o \in Todo(p)'.finish : ~Is(o, {"ABANDONED"})'
        BY Zenon, <2>1, <1>1 DEF Is
      <3> QED  BY Zenon, <2>1, <2>3, <3>2, <3>3, <3>4 DEF TodoSays, IsCleanup
    <2>8. WaitSays(p)'
      BY Zenon, <2>1, <2>3 DEF Life, WaitSays, Fails
    <2>9. FreshSays(p)'
      BY Zenon, <2>1, <2>3, FreshStep DEF Unborn
    <2> QED
      BY Zenon, <2>1, <2>2, <2>4, <2>5, <2>6, <2>7, <2>8, <2>9, HeldStep DEF Runs
  <1>5. Life /\ removals = 0 => \A x \in Run : Kept(x)
    BY Zenon, <1>1, KeptCalls
  <1> QED  BY Zenon, <1>2, <1>3, <1>4, <1>5 DEF Good

\* copy keeps the invariant and every operation's progress.
LEMMA copy_step ==
    ASSUME PathInv, NEW p \in Run, copy(p)
    PROVE  Good(p)
  <1>1. /\ pc[p] \in {"copy", "copying"} /\ ~IsCleanup(p) /\ Own(p) \in Run
        /\ pc'[p] = "copying" /\ UNCHANGED <<holder, lockFile, job, outcome>>
        /\ \E v \in BOOLEAN : Staged(Own(p), v)
    <2>1. pc[p] \in {"copy", "copying"} /\ ~IsCleanup(p) /\ Own(p) \in Run
      BY Zenon, CopyOnly DEF copy
    <2>2. PICK v \in BOOLEAN : op' = [op EXCEPT ![Own(p)].partial = v]
      BY Zenon DEF copy
    <2>3. Staged(Own(p), v)
      BY Zenon, <2>1, <2>2, PartialEffect DEF PathInv, TypeOK, Staged
    <2> QED  BY Zenon, <2>1, <2>3, EndsIs DEF copy, PC, Guarded
  <1>2. Frame(p)
    <2>1. op' \in [Run -> OpType]
      <3>1. Own(p) \in Run
        BY Zenon DEF PathInv, PathSays, copy, Resuming, Ending, IsCleanup
      <3>2. (~op[Own(p)].partial) \in BOOLEAN
        OBVIOUS
      <3> QED
        BY Zenon, <3>1, <3>2, PartialEffect DEF TypeOK, PathInv, copy, OpOnly
    <2>2. Learned(p)
      BY Zenon DEF TypeOK, PathInv, copy, Step, Learned, JobOnly
    <2>3. Moved(p)
      BY Zenon, GotoEffect DEF PathInv, copy, Step, PC, Guarded
    <2>4. Reported(p)
      BY Zenon DEF TypeOK, PathInv, copy, Step, Reported
    <2>5. Rest
      BY Zenon DEF TypeOK, PathInv, copy, Step, NoFault, Rest
    <2> QED  BY Zenon, <2>1, <2>2, <2>3, <2>4, <2>5, FrameParts DEF PathInv
  <1>3. PathInv'
    <2>1. PublishedHasManifest'
      BY Zenon, <1>1, ManifestCalls DEF OpState, Resumable
    <2>2. Goes(p)
      BY Zenon, <1>1, AtPath, KeepsCalls DEF Goes
    <2> QED  BY Zenon, <2>1, <2>2, <1>2, PathStep
  <1>4. Life /\ removals = 0 => Life'
    <2> SUFFICES ASSUME Life, removals = 0
                 PROVE  Life'
      OBVIOUS
    <2>1. /\ pc[p] \in {"copy", "copying"} /\ ~IsCleanup(p)
          /\ UNCHANGED <<holder, lockFile, job>> /\ pc'[p] = "copying"
          /\ Frame(p) /\ PathInv' /\ Fails(p) /\ pc[p] \in Resuming
      BY Zenon, <1>1, <1>2, <1>3 DEF Fails, Resuming
    <2>2. PICK o \in Run : Own(p) = o
      BY Zenon, <1>1
    <2>3. PICK v \in BOOLEAN : Staged(o, v)
      BY Zenon, <2>2, <1>1
    <2>4. /\ op[o].place # Absent /\ (Kind = "tree" => op[o].store = "ok")
          /\ lockFile \in {o, Torn} /\ Is(o, Resumable) /\ job[p].mem \in Resumable
      BY Zenon, <2>1, <2>2, Working
    <2>5. /\ OpOnly(o) /\ Is(o, Resumable)' /\ op'[o].store = op[o].store
      BY Zenon, <2>3, <2>4 DEF Staged, Is
    <2>6. OpSays(o)'
      BY Zenon, <2>4, <2>5 DEF OpSays, Is, Resumable
    <2>7. Own(p)' = o /\ Todo(p)' = Todo(p) /\ job'[p].mem = job[p].mem
      BY Zenon, <2>1, <2>2 DEF Own, Todo
    <2>8. LockSays(p)'
      BY Zenon, <2>1, <2>4, <2>7 DEF LockSays, Making, Recorded, RecordName, IsCleanup
    <2>9. OwnSays(p)'
      BY Zenon, <2>1, <2>4, <2>5, <2>7
         DEF OwnSays, Making, Resuming, Ending, Is, OpState, Resumable
    <2>10. WaitSays(p)'
      BY Zenon, <2>1 DEF WaitSays, Life, Fails
    <2>11. TodoSays(p)'
      BY Zenon, <2>1, <2>2, <2>5, <2>7, TodoOwn
         DEF Planning, Settled, Copying, Making, HeldPC, PC, Guarded
    <2> QED
      BY Zenon, <2>1, <2>2, <2>4, <2>5, <2>6, <2>7, <2>8, <2>9, <2>10, <2>11, OwnStep
         DEF HeldPC, PC, Guarded, Unborn
  <1>5. Life /\ removals = 0 => \A x \in Run : Kept(x)
    BY Zenon, <1>1, KeptCalls, KeptAll DEF Staged
  <1> QED  BY Zenon, <1>2, <1>3, <1>4, <1>5 DEF Good

\* PathInv holds at the start.
LEMMA PathInit ==
    ASSUME Init
    PROVE  PathInv
  <1>1. NoJob \in JobType /\ NoJob.id = None /\ NoJob.mem = None
        /\ NoJob.rows = {} /\ ~NoJob.claimed
    <2>1. NoWork \in WorkType
      BY Zenon DEF NoWork, WorkType
    <2> QED  BY SMTT(30), <2>1 DEF NoJob, JobType
  <1>2. Nothing \in OpType /\ Nothing.place # "there"
    BY Zenon DEF Nothing, OpType, Place, Absent
  <1>3. TypeOK
    BY SMTT(30), <1>1, <1>2 DEF Init, TypeOK, PC
  <1>4. PublishedHasManifest
    BY Zenon, <1>2 DEF Init, PublishedHasManifest
  <1>5. ASSUME NEW p \in Run
        PROVE  PathSays(p)
    BY Zenon, <1>1 DEF Init, PathSays, Own, Resuming, Ending, IsCleanup
  <1> QED  BY Zenon, <1>3, <1>4, <1>5 DEF PathInv

\* Life holds at the start.
LEMMA LifeInit ==
    ASSUME Init
    PROVE  Life
  <1>1. ASSUME NEW p \in Run
        PROVE  /\ pc[p] \in {"discover", "obtain"} /\ Own(p) = None
               /\ Todo(p) = NoWork /\ op[p] = Nothing /\ outcome[p] = None
    BY Zenon DEF Init, Own, Todo, NoJob
  <1>2. /\ Nothing.place = Absent /\ Nothing.partial = FALSE
    BY Zenon DEF Nothing
  <1>3. Holding
    BY Zenon, <1>1 DEF Init, Holding, HeldPC
  <1>4. RecordNamesState /\ CompletedStays
    BY Zenon, <1>1 DEF Init, RecordNamesState, CompletedStays, None
  <1>5. ASSUME NEW p \in Run
        PROVE  LockSays(p) /\ WaitSays(p)
    BY Zenon, <1>1 DEF LockSays, WaitSays, Making, Recorded, None
  <1>6. ASSUME NEW p \in Run
        PROVE  FreshSays(p)
    BY Zenon, <1>1 DEF FreshSays
  <1>7. ASSUME NEW p \in Run
        PROVE  OwnSays(p) /\ TodoSays(p)
    BY Zenon, <1>1 DEF OwnSays, TodoSays, Making, Resuming, Ending, HeldPC
  <1>8. ASSUME NEW o \in Run
        PROVE  OpSays(o)
    BY Zenon, <1>1, <1>2 DEF OpSays, Is, Absent
  <1> QED  BY Zenon, <1>3, <1>4, <1>5, <1>6, <1>7, <1>8 DEF Life

\* Removing a lock by hand keeps PathInv.
LEMMA RemoveLock_path ==
    ASSUME PathInv, RemoveLock
    PROVE  PathInv'
  <1>1. TypeOK'
    BY SMTT(30) DEF PathInv, TypeOK, RemoveLock
  <1>2. PublishedHasManifest' /\ \A p \in Run : PathSays(p)'
    BY Zenon DEF PathInv, PublishedHasManifest, PathSays, Own, IsCleanup, RemoveLock
  <1> QED  BY Zenon, <1>1, <1>2 DEF PathInv

\* A stuttering step keeps PathInv.
LEMMA Stutter_path ==
    ASSUME PathInv, UNCHANGED vars
    PROVE  PathInv'
  <1>1. TypeOK'
    BY Zenon DEF PathInv, TypeOK, vars
  <1>2. PublishedHasManifest' /\ \A p \in Run : PathSays(p)'
    BY Zenon DEF PathInv, PublishedHasManifest, PathSays, Own, IsCleanup, vars
  <1> QED  BY Zenon, <1>1, <1>2 DEF PathInv

\* Every step of a run keeps the invariant and every operation's progress.
LEMMA RunStep ==
    ASSUME PathInv, NEW p \in Run, Proceed(p) \/ copy(p) \/ Crash(p)
    PROVE  Good(p)
  <1>1. CASE Open(p)
    BY Zenon, <1>1, Obtain_step, scan_step, adopt_step, readopt_step,
       begin_workspace_step, probe_no_replace_step, build_workspace_step,
       publish_workspace_step, create_claim_store_step, unmake_step,
       create_record_step, write_record_step, record_written_step,
       RecordFails_step, takeover_step, give_back_step, transfer_step
       DEF Open
  <1>2. CASE Work(p)
    BY Zenon, <1>2, sweep_unlistable_step, work_done_step, abandon_step,
       sweep_partials_step, remove_step, finish_completed_step,
       finish_retire_step DEF Work
  <1>3. CASE End(p)
    BY Zenon, <1>3, copy_ends_step, complete_step, rollback_step, unname_step,
       unnamed_step, remove_own_step, fail_step, release_step DEF End
  <1>4. CASE Guard(p) \/ discover(p) \/ row(p) \/ run_pass_ends(p) \/ copy(p)
             \/ Crash(p)
    BY Zenon, <1>4, owned_step, lost_step, CheckFails_step, discover_step, row_step,
       run_pass_ends_step, copy_step, Crash_step DEF Guard
  <1> QED  BY Zenon, <1>1, <1>2, <1>3, <1>4 DEF Proceed

\* PathInv is kept by every step.
LEMMA PathNext ==
    ASSUME PathInv, [Next]_vars
    PROVE  PathInv'
  <1>1. ASSUME NEW p \in Run, Proceed(p) \/ copy(p) \/ Crash(p)
        PROVE  PathInv'
    BY Zenon, <1>1, RunStep DEF Good
  <1> QED  BY Zenon, <1>1, RemoveLock_path, Stutter_path DEF Next

\* LifeInv is kept by every step.
LEMMA LifeNext ==
    ASSUME LifeInv, [Next]_vars
    PROVE  LifeInv'
  <1>1. PathInv'
    BY Zenon, PathNext DEF LifeInv
  <1>2. CASE RemoveLock
    <2>1. removals' # 0
      BY SMTT(30), <1>2 DEF RemoveLock, LifeInv, PathInv, TypeOK
    <2> QED  BY Zenon, <1>1, <2>1 DEF LifeInv
  <1>3. CASE UNCHANGED vars
    BY Zenon, <1>1, <1>3, SameLife DEF LifeInv, vars
  <1>4. ASSUME NEW p \in Run, Proceed(p) \/ copy(p) \/ Crash(p)
        PROVE  LifeInv'
    BY Zenon, <1>1, <1>4, RunStep DEF LifeInv, Good, Frame
  <1> QED  BY Zenon, <1>2, <1>3, <1>4 DEF Next

\* Every step keeps every operation's progress, with the locks left in place.
LEMMA StepKept ==
    ASSUME LifeInv, removals = 0, [Next]_vars
    PROVE  \A x \in Run : Kept(x)
  <1>1. PathInv /\ Life
    BY Zenon DEF LifeInv
  <1>2. CASE RemoveLock \/ UNCHANGED vars
    BY Zenon, <1>2, KeptCalls DEF RemoveLock, vars
  <1>3. ASSUME NEW p \in Run, Proceed(p) \/ copy(p) \/ Crash(p)
        PROVE  \A x \in Run : Kept(x)
    BY Zenon, <1>1, <1>3, RunStep DEF Good
  <1> QED  BY Zenon, <1>2, <1>3 DEF Next

\* In every behaviour, whatever crashes, fails or is removed by hand, each run is
\* where its kind of run may be, and nothing is published without a manifest.
THEOREM PathInvariant == Spec => []PathInv
  BY PathInit, PathNext, PTL DEF Spec

\* operations/<id> never exists without its manifest (create_workspace,
\* retire_workspace), for any number of runs, faults and hand removals.
THEOREM ManifestsPublished == Spec => []PublishedHasManifest
  <1>1. PathInv => PublishedHasManifest
    BY Zenon DEF PathInv
  <1> QED  BY <1>1, PathInvariant, PTL

\* The lifecycle invariant holds for any number of runs, of any flags, with any
\* number of faults; and, as long as nobody removes a lock by hand, all of Life.
THEOREM LifeInvariant == Spec => []LifeInv
  <1>1. Init => LifeInv
    BY Zenon, PathInit, LifeInit DEF LifeInv
  <1> QED  BY <1>1, LifeNext, PTL DEF Spec

\* A lock record never names state that is not there.
THEOREM RecordsNameState == Spec => []RecordNamesState
  <1>1. LifeInv => RecordNamesState
    BY Zenon DEF LifeInv, Life, RecordNamesState
  <1> QED  BY <1>1, LifeInvariant, PTL

\* A copy that reported success is never offered for --resume again.
THEOREM CompletionsStay == Spec => []CompletedStays
  <1>1. LifeInv => CompletedStays
    BY Zenon DEF LifeInv, Life, CompletedStays
  <1> QED  BY <1>1, LifeInvariant, PTL

\* With every lock left in place: what started transferring has its claim store,
\* every temporary its state, and a copying run the only resumable operation.
THEOREM PromisesKept ==
    Spec => [](removals = 0 => StoreBeforeTransfer /\ PartialsNamed /\ SoleResumable)
  <1>1. ASSUME LifeInv, removals = 0
        PROVE  StoreBeforeTransfer /\ PartialsNamed /\ SoleResumable
    <2>1. StoreBeforeTransfer
      BY Zenon, <1>1 DEF LifeInv, Life, OpSays, StoreBeforeTransfer
    <2>2. PartialsNamed
      BY Zenon, <1>1 DEF LifeInv, Life, OpSays, Missed, PartialsNamed
    <2>3. ASSUME NEW p \in Run, pc[p] \in {"copy", "copying", "complete"},
                 NEW o \in Run \ {Own(p)}
          PROVE  ~Is(o, Resumable)
      <3>1. Life /\ PathInv /\ ~IsCleanup(p) /\ pc[p] \in HeldPC
        BY Zenon, <1>1, <2>3 DEF LifeInv, PathInv, PathSays, HeldPC, PC, Guarded
      <3>2. CASE o = p
        <4>1. Adopted(p)
          BY Zenon, <2>3, <3>1, <3>2 DEF PathInv, PathSays, Resuming, Adopted, None
        <4>2. op[p] = Nothing
          BY Zenon, <3>1, <4>1 DEF Life, FreshSays
        <4> QED  BY SMTT(30), <3>2, <4>2 DEF Is, Nothing, Absent
      <3>3. CASE o # p
        BY Zenon, <2>3, <3>1, <3>3 DEF Life, TodoSays, HeldPC
      <3> QED  BY Zenon, <3>2, <3>3
    <2> QED  BY Zenon, <2>1, <2>2, <2>3 DEF SoleResumable
  <1>2. LifeInv => (removals = 0 => StoreBeforeTransfer /\ PartialsNamed /\ SoleResumable)
    BY Zenon, <1>1
  <1> QED  BY <1>2, LifeInvariant, PTL

\* Where nobody removes a lock by hand, ABANDONED is terminal and recorded
\* progress is given up only on request (OutcomesKept).
THEOREM ProgressIsKept ==
    ASSUME MaxRemovals = 0
    PROVE  Spec => OutcomesKept
  <1>1. LifeInv /\ [Next]_vars => \A x \in Run : Kept(x)
    <2>1. LifeInv => removals = 0
      BY SMTT(30) DEF LifeInv, PathInv, TypeOK
    <2> QED  BY Zenon, <2>1, StepKept
  <1>2. ASSUME \A x \in Run : Kept(x)
        PROVE  /\ \A o \in Run : Is(o, {"ABANDONED"}) /\ op'[o].place = "there" =>
                    op'[o].manifest = "ABANDONED"
               /\ \A o \in Run : Is(o, Resumable) =>
                    \/ Is(o, Resumable)'
                    \/ /\ Is(o, {"COMPLETED"})'
                       /\ \E p \in Run : pc[p] = "complete" /\ Own(p) = o
                    \/ /\ Is(o, {"ABANDONED"})'
                       /\ \E p \in Run : /\ Flag[p] \in {"restart", "break", "cleanup"}
                                          /\ pc[p] = "work" /\ Own(p) # o
                    \/ op'[o].place # "there" /\ pc[o] \in {"removeown", "unmake"}
    BY Zenon, <1>2 DEF Kept
  <1> QED  BY <1>1, <1>2, LifeInvariant, PTL
          DEF Spec, OutcomesKept, AbandonedStays, ProgressKept
=============================================================================
