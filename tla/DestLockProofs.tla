--------------------------- MODULE DestLockProofs ---------------------------
(***************************************************************************)
(* Proofs about DestLock, for every set of runs and files, every mode and  *)
(* every bound.                                                            *)
(***************************************************************************)
EXTENDS DestLock, FiniteSetTheorems, TLAPS

USE DEF None, Empty, Unreadable, Foreign, Prior

\* Replacing one value of a function by one of its range keeps its type.
LEMMA ExceptType ==
  ASSUME NEW S, NEW T, NEW f \in [S -> T], NEW a, NEW b \in T
  PROVE  [f EXCEPT ![a] = b] \in [S -> T]
  BY Zenon

\* Type correctness: every call of the lock code leaves the file system and
\* the runs in the state space the model declares.
LEMMA TypeInit == Init => TypeOK
  BY SMTT(60), ProcAssumption, BoundAssumption
     DEF Init, TypeOK, Content, Records, PC, AcquirePC

\* Every step keeps the types.
LEMMA TypeStep == TypeOK /\ [Next]_vars => TypeOK'
  <1> SUFFICES ASSUME TypeOK, [Next]_vars PROVE TypeOK'
    OBVIOUS
  <1> USE ProcAssumption, BoundAssumption DEF TypeOK, Content, Records, Goto
  <1> USE DEF PC, AcquirePC, ClassifyPC, RecoverPC, TakeOverPC, TenurePC, EndPC
  <1>1. ASSUME NEW p \in Proc, acquire_create(p) PROVE TypeOK'
    BY SMTT(60), <1>1 DEF acquire_create, CreateLock, histVars
  <1>2. ASSUME NEW p \in Proc, acquire_dircheck(p) PROVE TypeOK'
    BY SMTT(60), <1>2 DEF acquire_dircheck, fsVars, histVars
  <1>3. ASSUME NEW p \in Proc, acquire_backoff(p) PROVE TypeOK'
    BY SMTT(60), <1>3 DEF acquire_backoff, TryLock, histVars
  <1>4. ASSUME NEW p \in Proc, own_lock_try(p) PROVE TypeOK'
    BY SMTT(60), <1>4 DEF own_lock_try, TryLock, histVars
  <1>5. ASSUME NEW p \in Proc, own_lock_wait(p) PROVE TypeOK'
    BY SMTT(60), <1>5 DEF own_lock_wait, own_lock_give_up, DropHandle, Dropped, NextPass, histVars
  <1>6. ASSUME NEW p \in Proc, own_lock_verify(p) PROVE TypeOK'
    BY SMTT(60), <1>6 DEF own_lock_verify, own_lock_give_up, DropHandle, Dropped, NextPass, histVars
  <1>7. ASSUME NEW p \in Proc, classify_open(p) PROVE TypeOK'
    BY SMTT(60), <1>7 DEF classify_open, NextPass, fsVars, histVars
  <1>8. ASSUME NEW p \in Proc, classify_lock(p) PROVE TypeOK'
    BY SMTT(60), <1>8 DEF classify_lock, TryLock, histVars
  <1>9. ASSUME NEW p \in Proc, classify_read(p) PROVE TypeOK'
    BY SMTT(60), <1>9 DEF classify_read, DropOld, Dropped, histVars
  <1>10. ASSUME NEW p \in Proc, recover_s1(p) PROVE TypeOK'
    BY SMTT(60), <1>10 DEF recover_s1, DropOld, Dropped, NextPass, histVars
  <1>11. ASSUME NEW p \in Proc, recover_s2(p) PROVE TypeOK'
    BY SMTT(60), <1>11 DEF recover_s2, DropOld, Dropped, NextPass, histVars
  <1>12. ASSUME NEW p \in Proc, recover_s3(p) PROVE TypeOK'
    BY Zenon, <1>12 DEF recover_s3, fsVars, histVars
  <1>13. ASSUME NEW p \in Proc, recover_putback(p) PROVE TypeOK'
    BY SMTT(60), <1>13 DEF recover_putback, DropOld, Dropped, NextPass, histVars
  <1>14. ASSUME NEW p \in Proc, recover_s4(p) PROVE TypeOK'
    BY SMTT(60), <1>14 DEF recover_s4, CreateLock, histVars
  <1>15. ASSUME NEW p \in Proc, recover_drop(p) PROVE TypeOK'
    BY SMTT(60), <1>15 DEF recover_drop, DropOld, Dropped, histVars
  <1>16. ASSUME NEW p \in Proc, recover_unlink(p) PROVE TypeOK'
    BY SMTT(60), <1>16 DEF recover_unlink, NextPass, histVars
  <1>17. ASSUME NEW p \in Proc, take_over_open(p) PROVE TypeOK'
    BY SMTT(60), <1>17 DEF take_over_open, NextPass, fsVars, histVars
  <1>18. ASSUME NEW p \in Proc, take_over_lock(p) PROVE TypeOK'
    BY SMTT(60), <1>18 DEF take_over_lock, TryLock, histVars
  <1>19. ASSUME NEW p \in Proc, take_over_path(p) PROVE TypeOK'
    BY SMTT(60), <1>19 DEF take_over_path, DropHandle, Dropped, NextPass, histVars
  <1>20. ASSUME NEW p \in Proc, take_over_read(p) PROVE TypeOK'
    BY SMTT(60), <1>20 DEF take_over_read, DropHandle, Dropped, NextPass, histVars
  <1>21. ASSUME NEW p \in Proc, write_begin(p) PROVE TypeOK'
    <2>1. Unreadable \in Content
      BY Zenon
    <2>2. content' \in [File -> Content]
      <3>1. content' = [content EXCEPT ![handle[p]] = Unreadable]
        BY Zenon, <1>21 DEF write_begin, Store
      <3>2. content \in [File -> Content]
        BY Zenon
      <3> HIDE DEF Content, Records
      <3> QED
        BY Zenon, <2>1, <3>1, <3>2, ExceptType
    <2>3. pc' \in [Proc -> PC]
      BY SMTT(60), <1>21 DEF write_begin
    <2> QED
      BY Zenon, <1>21, <2>2, <2>3 DEF write_begin, histVars
  <1>22. ASSUME NEW p \in Proc, write_end(p) PROVE TypeOK'
    <2>1. p \in Content
      BY Zenon, <1>22
    <2>2. content' \in [File -> Content]
      <3>1. content' = [content EXCEPT ![handle[p]] = p]
        BY Zenon, <1>22 DEF write_end, Store
      <3>2. content \in [File -> Content]
        BY Zenon
      <3> HIDE DEF Content, Records
      <3> QED
        BY Zenon, <2>1, <3>1, <3>2, ExceptType
    <2>3. pc' \in [Proc -> PC]
      BY SMTT(60), <1>22 DEF write_end
    <2> QED
      BY Zenon, <1>22, <2>2, <2>3 DEF write_end, histVars
  <1>23. ASSUME NEW p \in Proc, write_fails(p) PROVE TypeOK'
    <2>1. PICK c \in {Unreadable, p} : Store(p, c)
      BY Zenon, <1>23 DEF write_fails
    <2>2. content' \in [File -> Content]
      <3>1. c \in Content /\ content \in [File -> Content]
        BY ZenonT(60), <1>23
      <3> HIDE DEF Content, Records
      <3> QED
        BY Zenon, <2>1, <3>1, ExceptType DEF Store
    <2>3. pc' \in [Proc -> PC]
      BY SMTT(60), <1>23 DEF write_fails
    <2> QED
      BY Zenon, <1>23, <2>2, <2>3 DEF write_fails, histVars
  <1>24. ASSUME NEW p \in Proc, overwrite_check(p) PROVE TypeOK'
    BY SMTT(60), <1>24 DEF overwrite_check, DropHandle, Dropped, histVars
  <1>25. ASSUME NEW p \in Proc, give_back(p) PROVE TypeOK'
    BY SMTT(60), <1>25 DEF give_back, fsVars, histVars
  <1>26. ASSUME NEW p \in Proc, discard_check(p) PROVE TypeOK'
    BY Zenon, <1>26 DEF discard_check, fsVars, histVars
  <1>27. ASSUME NEW p \in Proc, guarded_check(p) PROVE TypeOK'
    BY Zenon, <1>27 DEF guarded_check, fsVars, histVars
  <1>28. ASSUME NEW p \in Proc, guarded_write(p) PROVE TypeOK'
    BY SMTT(60), <1>28 DEF guarded_write, fsVars
  <1>29. ASSUME NEW p \in Proc, release_check(p) PROVE TypeOK'
    BY Zenon, <1>29 DEF release_check, fsVars, histVars
  <1>30. ASSUME NEW p \in Proc, unlink(p) PROVE TypeOK'
    BY ZenonT(60), <1>30 DEF unlink, histVars
  <1>31. ASSUME NEW p \in Proc, close(p) PROVE TypeOK'
    BY Zenon, <1>31 DEF close, DropHandle, Dropped, histVars
  <1>32. ASSUME NEW p \in Proc, Die(p) PROVE TypeOK'
    BY Zenon, <1>32 DEF Die, histVars
  <1>33. CASE ForeignAppears
    BY SMTT(60), <1>33 DEF ForeignAppears, runVars, histVars
  <1>34. CASE UserRemovesLock
    BY SMTT(60), <1>34 DEF UserRemovesLock, runVars
  <1>35. CASE UNCHANGED vars
    BY Zenon, <1>35 DEF vars, fsVars, runVars, histVars
  <1> QED
    BY Zenon, <1>1, <1>2, <1>3, <1>4, <1>5, <1>6, <1>7, <1>8, <1>9, <1>10, <1>11,
       <1>12, <1>13, <1>14, <1>15, <1>16, <1>17, <1>18, <1>19, <1>20, <1>21,
       <1>22, <1>23, <1>24, <1>25, <1>26, <1>27, <1>28, <1>29, <1>30, <1>31,
       <1>32, <1>33, <1>34, <1>35
       DEF Next, Step

\* Every call opens and closes handles so that a run has exactly the handles
\* its next call uses.
LEMMA HandlesStep == TypeOK /\ Handles /\ [Next]_vars => Handles'
  <1> SUFFICES ASSUME TypeOK /\ Handles, [Next]_vars PROVE Handles'
    OBVIOUS
  <1> USE ProcAssumption, DistinctAssumption DEF TypeOK, Handles, Goto, PC,
           AcquirePC, ClassifyPC, RecoverPC, TakeOverPC, TenurePC, EndPC,
             NoHandlePC, OwnLockPC, OldPC, LockedPC, OldLockedPC, VerifiedPC
  <1>1. ASSUME NEW p \in Proc, acquire_create(p) PROVE Handles'
    BY SMTT(60), <1>1 DEF acquire_create, CreateLock, Free, histVars
  <1>2. ASSUME NEW p \in Proc, acquire_dircheck(p) PROVE Handles'
    BY SMTT(60), <1>2 DEF acquire_dircheck, fsVars, histVars
  <1>3. ASSUME NEW p \in Proc, acquire_backoff(p) PROVE Handles'
    BY SMTT(60), <1>3 DEF acquire_backoff, TryLock, histVars
  <1>4. ASSUME NEW p \in Proc, own_lock_try(p) PROVE Handles'
    BY SMTT(60), <1>4 DEF own_lock_try, TryLock, histVars
  <1>5. ASSUME NEW p \in Proc, own_lock_wait(p) PROVE Handles'
    BY SMTT(60), <1>5 DEF own_lock_wait, own_lock_give_up, DropHandle, Dropped, NextPass, histVars
  <1>6. ASSUME NEW p \in Proc, own_lock_verify(p) PROVE Handles'
    BY SMTT(60), <1>6 DEF own_lock_verify, own_lock_give_up, DropHandle, Dropped, NextPass, histVars
  <1>7. ASSUME NEW p \in Proc, classify_open(p) PROVE Handles'
    BY SMTT(60), <1>7 DEF classify_open, NextPass, fsVars, histVars
  <1>8. ASSUME NEW p \in Proc, classify_lock(p) PROVE Handles'
    BY SMTT(60), <1>8 DEF classify_lock, TryLock, histVars
  <1>9. ASSUME NEW p \in Proc, classify_read(p) PROVE Handles'
    BY SMTT(60), <1>9 DEF classify_read, DropOld, Dropped, histVars
  <1>10. ASSUME NEW p \in Proc, recover_s1(p) PROVE Handles'
    BY SMTT(60), <1>10 DEF recover_s1, DropOld, Dropped, NextPass, histVars
  <1>11. ASSUME NEW p \in Proc, recover_s2(p) PROVE Handles'
    BY SMTT(60), <1>11 DEF recover_s2, DropOld, Dropped, NextPass, histVars
  <1>12. ASSUME NEW p \in Proc, recover_s3(p) PROVE Handles'
    BY SMTT(60), <1>12 DEF recover_s3, fsVars, histVars
  <1>13. ASSUME NEW p \in Proc, recover_putback(p) PROVE Handles'
    BY SMTT(60), <1>13 DEF recover_putback, DropOld, Dropped, NextPass, histVars
  <1>14. ASSUME NEW p \in Proc, recover_s4(p) PROVE Handles'
    BY SMTT(60), <1>14 DEF recover_s4, CreateLock, Free, histVars
  <1>15. ASSUME NEW p \in Proc, recover_drop(p) PROVE Handles'
    BY SMTT(60), <1>15 DEF recover_drop, DropOld, Dropped, histVars
  <1>16. ASSUME NEW p \in Proc, recover_unlink(p) PROVE Handles'
    BY SMTT(60), <1>16 DEF recover_unlink, NextPass, histVars
  <1>17. ASSUME NEW p \in Proc, take_over_open(p) PROVE Handles'
    BY SMTT(60), <1>17 DEF take_over_open, NextPass, fsVars, histVars
  <1>18. ASSUME NEW p \in Proc, take_over_lock(p) PROVE Handles'
    BY SMTT(60), <1>18 DEF take_over_lock, TryLock, histVars
  <1>19. ASSUME NEW p \in Proc, take_over_path(p) PROVE Handles'
    BY SMTT(60), <1>19 DEF take_over_path, DropHandle, Dropped, NextPass, histVars
  <1>20. ASSUME NEW p \in Proc, take_over_read(p) PROVE Handles'
    BY SMTT(60), <1>20 DEF take_over_read, DropHandle, Dropped, NextPass, histVars
  <1>21. ASSUME NEW p \in Proc, write_begin(p) PROVE Handles'
    BY SMTT(60), <1>21 DEF write_begin, Store, histVars
  <1>22. ASSUME NEW p \in Proc, write_end(p) PROVE Handles'
    BY SMTT(60), <1>22 DEF write_end, Store, histVars
  <1>23. ASSUME NEW p \in Proc, write_fails(p) PROVE Handles'
    BY SMTT(60), <1>23 DEF write_fails, Store, histVars
  <1>24. ASSUME NEW p \in Proc, overwrite_check(p) PROVE Handles'
    BY SMTT(60), <1>24 DEF overwrite_check, DropHandle, Dropped, histVars
  <1>25. ASSUME NEW p \in Proc, give_back(p) PROVE Handles'
    BY SMTT(60), <1>25 DEF give_back, fsVars, histVars
  <1>26. ASSUME NEW p \in Proc, discard_check(p) PROVE Handles'
    BY SMTT(60), <1>26 DEF discard_check, fsVars, histVars
  <1>27. ASSUME NEW p \in Proc, guarded_check(p) PROVE Handles'
    BY SMTT(60), <1>27 DEF guarded_check, fsVars, histVars
  <1>28. ASSUME NEW p \in Proc, guarded_write(p) PROVE Handles'
    BY SMTT(60), <1>28 DEF guarded_write, fsVars
  <1>29. ASSUME NEW p \in Proc, release_check(p) PROVE Handles'
    BY SMTT(60), <1>29 DEF release_check, fsVars, histVars
  <1>30. ASSUME NEW p \in Proc, unlink(p) PROVE Handles'
    BY SMTT(60), <1>30 DEF unlink, histVars
  <1>31. ASSUME NEW p \in Proc, close(p) PROVE Handles'
    BY SMTT(60), <1>31 DEF close, DropHandle, Dropped, histVars
  <1>32. ASSUME NEW p \in Proc, Die(p) PROVE Handles'
    BY SMTT(60), <1>32 DEF Die, histVars
  <1>33. CASE ForeignAppears
    BY Zenon, <1>33 DEF ForeignAppears, runVars, histVars, Free
  <1>34. CASE UserRemovesLock
    BY Zenon, <1>34 DEF UserRemovesLock, runVars
  <1>35. CASE UNCHANGED vars
    BY Zenon, <1>35 DEF vars, fsVars, runVars, histVars
  <1> QED
    BY Zenon, <1>1, <1>2, <1>3, <1>4, <1>5, <1>6, <1>7, <1>8, <1>9, <1>10, <1>11,
       <1>12, <1>13, <1>14, <1>15, <1>16, <1>17, <1>18, <1>19, <1>20, <1>21,
       <1>22, <1>23, <1>24, <1>25, <1>26, <1>27, <1>28, <1>29, <1>30, <1>31,
       <1>32, <1>33, <1>34, <1>35
       DEF Next, Step

\* Taking a free OS-native lock takes no lock from anyone.
LEMMA TryLockKeeps ==
    ASSUME TypeOK, NEW p \in Proc, NEW f \in File,
           TryLock(p, f) \/ (osLock[f] # None /\ UNCHANGED osLock)
    PROVE  /\ TryLock(p, f) => osLock'[f] = p
           /\ \A q \in Proc, g \in File : osLock[g] = q => osLock'[g] = q
  BY ZenonT(60), ProcAssumption DEF TryLock, TypeOK, Content, Records

\* Every call keeps the OS-native locks with the runs that took them.
LEMMA LocksStep == TypeOK /\ Handles /\ Locks /\ [Next]_vars => Locks'
  <1> SUFFICES ASSUME TypeOK /\ Handles /\ Locks, [Next]_vars PROVE Locks'
    OBVIOUS
  <1> USE ProcAssumption, DistinctAssumption DEF TypeOK, Handles, Locks, Goto,
           PC, AcquirePC, ClassifyPC, RecoverPC, TakeOverPC, TenurePC, EndPC,
             NoHandlePC, OwnLockPC, OldPC, LockedPC, OldLockedPC, VerifiedPC
  <1>1. ASSUME NEW p \in Proc, acquire_create(p) PROVE Locks'
    BY SMTT(60), <1>1 DEF acquire_create, CreateLock, Free, histVars
  <1>2. ASSUME NEW p \in Proc, acquire_dircheck(p) PROVE Locks'
    BY SMTT(60), <1>2 DEF acquire_dircheck, fsVars, histVars
  <1>3. ASSUME NEW p \in Proc, acquire_backoff(p) PROVE Locks'
    <2>0. \A q \in Proc, g \in File : osLock[g] = q => osLock'[g] = q
      BY ZenonT(60), <1>3, TryLockKeeps DEF acquire_backoff
    <2>1. \A q \in Proc : pc'[q] \in LockedPC => osLock'[handle'[q]] = q
      BY SMTT(60), <1>3, <2>0 DEF acquire_backoff, TryLock
    <2>2. \A q \in Proc : pc'[q] \in OldLockedPC /\ old'[q] # None => osLock'[old'[q]] = q
      BY SMTT(60), <1>3, <2>0 DEF acquire_backoff
    <2>3. \A f \in File : osLock'[f] # None =>
                             handle'[osLock'[f]] = f \/ old'[osLock'[f]] = f
      BY SMTT(60), <1>3 DEF acquire_backoff, TryLock
    <2> QED
      BY Zenon, <2>1, <2>2, <2>3
  <1>4. ASSUME NEW p \in Proc, own_lock_try(p) PROVE Locks'
    <2>0. \A q \in Proc, g \in File : osLock[g] = q => osLock'[g] = q
      BY ZenonT(90), <1>4, TryLockKeeps DEF own_lock_try
    <2>1. \A q \in Proc : pc'[q] \in LockedPC => osLock'[handle'[q]] = q
      BY SMTT(60), <1>4, <2>0 DEF own_lock_try, TryLock
    <2>2. \A q \in Proc : pc'[q] \in OldLockedPC /\ old'[q] # None => osLock'[old'[q]] = q
      BY SMTT(60), <1>4, <2>0 DEF own_lock_try
    <2>3. \A f \in File : osLock'[f] # None =>
                             handle'[osLock'[f]] = f \/ old'[osLock'[f]] = f
      BY SMTT(60), <1>4 DEF own_lock_try, TryLock
    <2> QED
      BY Zenon, <2>1, <2>2, <2>3
  <1>5. ASSUME NEW p \in Proc, own_lock_wait(p) PROVE Locks'
    BY SMTT(60), <1>5 DEF own_lock_wait, own_lock_give_up, DropHandle, Dropped, NextPass, histVars
  <1>6. ASSUME NEW p \in Proc, own_lock_verify(p) PROVE Locks'
    BY SMTT(60), <1>6 DEF own_lock_verify, own_lock_give_up, DropHandle, Dropped, NextPass, histVars
  <1>7. ASSUME NEW p \in Proc, classify_open(p) PROVE Locks'
    BY SMTT(60), <1>7 DEF classify_open, NextPass, fsVars, histVars
  <1>8. ASSUME NEW p \in Proc, classify_lock(p) PROVE Locks'
    <2>0. \A q \in Proc, g \in File : osLock[g] = q => osLock'[g] = q
      BY SMTT(60), <1>8, TryLockKeeps DEF classify_lock
    <2>1. \A q \in Proc : pc'[q] \in LockedPC => osLock'[handle'[q]] = q
      BY SMTT(60), <1>8, <2>0 DEF classify_lock, TryLock
    <2>2. \A q \in Proc : pc'[q] \in OldLockedPC /\ old'[q] # None => osLock'[old'[q]] = q
      BY SMTT(60), <1>8, <2>0 DEF classify_lock
    <2>3. \A f \in File : osLock'[f] # None =>
                             handle'[osLock'[f]] = f \/ old'[osLock'[f]] = f
      BY SMTT(60), <1>8 DEF classify_lock, TryLock
    <2> QED
      BY Zenon, <2>1, <2>2, <2>3
  <1>9. ASSUME NEW p \in Proc, classify_read(p) PROVE Locks'
    BY SMTT(60), <1>9 DEF classify_read, DropOld, Dropped, histVars
  <1>10. ASSUME NEW p \in Proc, recover_s1(p) PROVE Locks'
    BY SMTT(60), <1>10 DEF recover_s1, DropOld, Dropped, NextPass, histVars
  <1>11. ASSUME NEW p \in Proc, recover_s2(p) PROVE Locks'
    BY SMTT(60), <1>11 DEF recover_s2, DropOld, Dropped, NextPass, histVars
  <1>12. ASSUME NEW p \in Proc, recover_s3(p) PROVE Locks'
    BY SMTT(60), <1>12 DEF recover_s3, fsVars, histVars
  <1>13. ASSUME NEW p \in Proc, recover_putback(p) PROVE Locks'
    BY SMTT(60), <1>13 DEF recover_putback, DropOld, Dropped, NextPass, histVars
  <1>14. ASSUME NEW p \in Proc, recover_s4(p) PROVE Locks'
    BY SMTT(60), <1>14 DEF recover_s4, CreateLock, Free, histVars
  <1>15. ASSUME NEW p \in Proc, recover_drop(p) PROVE Locks'
    BY SMTT(60), <1>15 DEF recover_drop, DropOld, Dropped, histVars
  <1>16. ASSUME NEW p \in Proc, recover_unlink(p) PROVE Locks'
    BY SMTT(60), <1>16 DEF recover_unlink, NextPass, histVars
  <1>17. ASSUME NEW p \in Proc, take_over_open(p) PROVE Locks'
    BY SMTT(60), <1>17 DEF take_over_open, NextPass, fsVars, histVars
  <1>18. ASSUME NEW p \in Proc, take_over_lock(p) PROVE Locks'
    <2>0. \A q \in Proc, g \in File : osLock[g] = q => osLock'[g] = q
      BY ZenonT(90), <1>18, TryLockKeeps DEF take_over_lock
    <2>1. \A q \in Proc : pc'[q] \in LockedPC => osLock'[handle'[q]] = q
      BY SMTT(60), <1>18, <2>0 DEF take_over_lock, TryLock
    <2>2. \A q \in Proc : pc'[q] \in OldLockedPC /\ old'[q] # None => osLock'[old'[q]] = q
      BY SMTT(60), <1>18, <2>0 DEF take_over_lock
    <2>3. \A f \in File : osLock'[f] # None =>
                             handle'[osLock'[f]] = f \/ old'[osLock'[f]] = f
      BY SMTT(60), <1>18 DEF take_over_lock, TryLock
    <2> QED
      BY Zenon, <2>1, <2>2, <2>3
  <1>19. ASSUME NEW p \in Proc, take_over_path(p) PROVE Locks'
    BY SMTT(60), <1>19 DEF take_over_path, DropHandle, Dropped, NextPass, histVars
  <1>20. ASSUME NEW p \in Proc, take_over_read(p) PROVE Locks'
    BY SMTT(60), <1>20 DEF take_over_read, DropHandle, Dropped, NextPass, histVars
  <1>21. ASSUME NEW p \in Proc, write_begin(p) PROVE Locks'
    BY SMTT(60), <1>21 DEF write_begin, Store, histVars
  <1>22. ASSUME NEW p \in Proc, write_end(p) PROVE Locks'
    BY SMTT(60), <1>22 DEF write_end, Store, histVars
  <1>23. ASSUME NEW p \in Proc, write_fails(p) PROVE Locks'
    BY SMTT(60), <1>23 DEF write_fails, Store, histVars
  <1>24. ASSUME NEW p \in Proc, overwrite_check(p) PROVE Locks'
    BY SMTT(60), <1>24 DEF overwrite_check, DropHandle, Dropped, histVars
  <1>25. ASSUME NEW p \in Proc, give_back(p) PROVE Locks'
    BY SMTT(60), <1>25 DEF give_back, fsVars, histVars
  <1>26. ASSUME NEW p \in Proc, discard_check(p) PROVE Locks'
    BY SMTT(60), <1>26 DEF discard_check, fsVars, histVars
  <1>27. ASSUME NEW p \in Proc, guarded_check(p) PROVE Locks'
    BY SMTT(60), <1>27 DEF guarded_check, fsVars, histVars
  <1>28. ASSUME NEW p \in Proc, guarded_write(p) PROVE Locks'
    BY SMTT(60), <1>28 DEF guarded_write, fsVars
  <1>29. ASSUME NEW p \in Proc, release_check(p) PROVE Locks'
    BY SMTT(60), <1>29 DEF release_check, fsVars, histVars
  <1>30. ASSUME NEW p \in Proc, unlink(p) PROVE Locks'
    BY SMTT(60), <1>30 DEF unlink, histVars
  <1>31. ASSUME NEW p \in Proc, close(p) PROVE Locks'
    BY SMTT(60), <1>31 DEF close, DropHandle, Dropped, histVars
  <1>32. ASSUME NEW p \in Proc, Die(p) PROVE Locks'
    BY SMTT(60), <1>32 DEF Die, histVars
  <1>33. CASE ForeignAppears
    BY Zenon, <1>33 DEF ForeignAppears, runVars, histVars, Free
  <1>34. CASE UserRemovesLock
    BY Zenon, <1>34 DEF UserRemovesLock, runVars
  <1>35. CASE UNCHANGED vars
    BY Zenon, <1>35 DEF vars, fsVars, runVars, histVars
  <1> QED
    BY Zenon, <1>1, <1>2, <1>3, <1>4, <1>5, <1>6, <1>7, <1>8, <1>9, <1>10, <1>11,
       <1>12, <1>13, <1>14, <1>15, <1>16, <1>17, <1>18, <1>19, <1>20, <1>21,
       <1>22, <1>23, <1>24, <1>25, <1>26, <1>27, <1>28, <1>29, <1>30, <1>31,
       <1>32, <1>33, <1>34, <1>35
       DEF Next, Step

\* Every call keeps the lock path naming the file of each run that has
\* verified it: only the run with that file's OS-native lock acts by name.
LEMMA PathsStep == TypeOK /\ Handles /\ Locks /\ Paths /\ [Next]_vars => Paths'
  <1> SUFFICES ASSUME TypeOK /\ Handles /\ Locks /\ Paths, [Next]_vars PROVE Paths'
    OBVIOUS
  <1> USE ProcAssumption, DistinctAssumption DEF TypeOK, Handles, Locks, Paths,
           still_empty_at_path, Goto, PC, AcquirePC, ClassifyPC, RecoverPC,
           TakeOverPC, TenurePC, EndPC,
             NoHandlePC, OwnLockPC, OldPC, LockedPC, OldLockedPC, VerifiedPC
  <1>1. ASSUME NEW p \in Proc, acquire_create(p) PROVE Paths'
    BY SMTT(60), <1>1 DEF acquire_create, CreateLock, Free, histVars
  <1>2. ASSUME NEW p \in Proc, acquire_dircheck(p) PROVE Paths'
    BY SMTT(60), <1>2 DEF acquire_dircheck, fsVars, histVars
  <1>3. ASSUME NEW p \in Proc, acquire_backoff(p) PROVE Paths'
    BY SMTT(60), <1>3 DEF acquire_backoff, TryLock, histVars
  <1>4. ASSUME NEW p \in Proc, own_lock_try(p) PROVE Paths'
    BY SMTT(60), <1>4 DEF own_lock_try, TryLock, histVars
  <1>5. ASSUME NEW p \in Proc, own_lock_wait(p) PROVE Paths'
    BY SMTT(60), <1>5 DEF own_lock_wait, own_lock_give_up, DropHandle, Dropped, NextPass, histVars
  <1>6. ASSUME NEW p \in Proc, own_lock_verify(p) PROVE Paths'
    BY SMTT(60), <1>6 DEF own_lock_verify, own_lock_give_up, DropHandle, Dropped, NextPass, histVars
  <1>7. ASSUME NEW p \in Proc, classify_open(p) PROVE Paths'
    BY SMTT(60), <1>7 DEF classify_open, NextPass, fsVars, histVars
  <1>8. ASSUME NEW p \in Proc, classify_lock(p) PROVE Paths'
    BY SMTT(60), <1>8 DEF classify_lock, TryLock, histVars
  <1>9. ASSUME NEW p \in Proc, classify_read(p) PROVE Paths'
    BY SMTT(60), <1>9 DEF classify_read, DropOld, Dropped, histVars
  <1>10. ASSUME NEW p \in Proc, recover_s1(p) PROVE Paths'
    BY SMTT(60), <1>10 DEF recover_s1, DropOld, Dropped, NextPass, histVars
  <1>11. ASSUME NEW p \in Proc, recover_s2(p) PROVE Paths'
    BY SMTT(60), <1>11 DEF recover_s2, DropOld, Dropped, NextPass, histVars
  <1>12. ASSUME NEW p \in Proc, recover_s3(p) PROVE Paths'
    BY SMTT(60), <1>12 DEF recover_s3, fsVars, histVars
  <1>13. ASSUME NEW p \in Proc, recover_putback(p) PROVE Paths'
    BY SMTT(60), <1>13 DEF recover_putback, DropOld, Dropped, NextPass, histVars
  <1>14. ASSUME NEW p \in Proc, recover_s4(p) PROVE Paths'
    <2>1. CASE lockPath = None
      <3>1. removals = 0 => \A q \in Proc : pc[q] \notin VerifiedPC /\ pc[q] # "s2"
        BY SMTT(60), <2>1
      <3>2. removals' = removals /\ old' = old /\ pc' = [pc EXCEPT ![p] = "ownlock"]
        BY Zenon, <1>14, <2>1 DEF recover_s4, histVars
      <3> QED
        BY SMTT(60), <3>1, <3>2
    <2>2. CASE lockPath # None
      BY SMTT(60), <1>14, <2>2 DEF recover_s4, CreateLock, histVars
    <2> QED
      BY Zenon, <2>1, <2>2
  <1>15. ASSUME NEW p \in Proc, recover_drop(p) PROVE Paths'
    BY SMTT(60), <1>15 DEF recover_drop, DropOld, Dropped, histVars
  <1>16. ASSUME NEW p \in Proc, recover_unlink(p) PROVE Paths'
    BY SMTT(60), <1>16 DEF recover_unlink, NextPass, histVars
  <1>17. ASSUME NEW p \in Proc, take_over_open(p) PROVE Paths'
    BY SMTT(60), <1>17 DEF take_over_open, NextPass, fsVars, histVars
  <1>18. ASSUME NEW p \in Proc, take_over_lock(p) PROVE Paths'
    BY SMTT(60), <1>18 DEF take_over_lock, TryLock, histVars
  <1>19. ASSUME NEW p \in Proc, take_over_path(p) PROVE Paths'
    BY SMTT(60), <1>19 DEF take_over_path, DropHandle, Dropped, NextPass, histVars
  <1>20. ASSUME NEW p \in Proc, take_over_read(p) PROVE Paths'
    BY SMTT(60), <1>20 DEF take_over_read, DropHandle, Dropped, NextPass, histVars
  <1>21. ASSUME NEW p \in Proc, write_begin(p) PROVE Paths'
    BY SMTT(60), <1>21 DEF write_begin, Store, histVars
  <1>22. ASSUME NEW p \in Proc, write_end(p) PROVE Paths'
    BY SMTT(60), <1>22 DEF write_end, Store, histVars
  <1>23. ASSUME NEW p \in Proc, write_fails(p) PROVE Paths'
    BY SMTT(60), <1>23 DEF write_fails, Store, histVars
  <1>24. ASSUME NEW p \in Proc, overwrite_check(p) PROVE Paths'
    BY SMTT(60), <1>24 DEF overwrite_check, DropHandle, Dropped, histVars
  <1>25. ASSUME NEW p \in Proc, give_back(p) PROVE Paths'
    BY SMTT(60), <1>25 DEF give_back, fsVars, histVars
  <1>26. ASSUME NEW p \in Proc, discard_check(p) PROVE Paths'
    BY SMTT(60), <1>26 DEF discard_check, fsVars, histVars
  <1>27. ASSUME NEW p \in Proc, guarded_check(p) PROVE Paths'
    BY SMTT(60), <1>27 DEF guarded_check, fsVars, histVars
  <1>28. ASSUME NEW p \in Proc, guarded_write(p) PROVE Paths'
    BY SMTT(60), <1>28 DEF guarded_write, fsVars
  <1>29. ASSUME NEW p \in Proc, release_check(p) PROVE Paths'
    BY SMTT(60), <1>29 DEF release_check, fsVars, histVars
  <1>30. ASSUME NEW p \in Proc, unlink(p) PROVE Paths'
    BY SMTT(60), <1>30 DEF unlink, histVars
  <1>31. ASSUME NEW p \in Proc, close(p) PROVE Paths'
    BY SMTT(60), <1>31 DEF close, DropHandle, Dropped, histVars
  <1>32. ASSUME NEW p \in Proc, Die(p) PROVE Paths'
    BY SMTT(60), <1>32 DEF Die, histVars
  <1>33. CASE ForeignAppears
    BY SMTT(60), <1>33 DEF ForeignAppears, runVars, histVars, Free
  <1>34. CASE UserRemovesLock
    BY SMTT(60), <1>34 DEF UserRemovesLock, runVars
  <1>35. CASE UNCHANGED vars
    BY Zenon, <1>35 DEF vars, fsVars, runVars, histVars
  <1> QED
    BY Zenon, <1>1, <1>2, <1>3, <1>4, <1>5, <1>6, <1>7, <1>8, <1>9, <1>10, <1>11,
       <1>12, <1>13, <1>14, <1>15, <1>16, <1>17, <1>18, <1>19, <1>20, <1>21,
       <1>22, <1>23, <1>24, <1>25, <1>26, <1>27, <1>28, <1>29, <1>30, <1>31,
       <1>32, <1>33, <1>34, <1>35
       DEF Next, Step

\* Every call leaves a file's content to the run with its OS-native lock.
LEMMA ContentsStep == TypeOK /\ Handles /\ Locks /\ Contents /\ [Next]_vars => Contents'
  <1> SUFFICES ASSUME TypeOK /\ Handles /\ Locks /\ Contents, [Next]_vars PROVE Contents'
    OBVIOUS
  <1> USE ProcAssumption, DistinctAssumption DEF TypeOK, Content, Records,
           Handles, Locks, Contents, still_empty_at_path, holds, Goto, PC,
           AcquirePC, ClassifyPC, RecoverPC, TakeOverPC, TenurePC, EndPC,
             NoHandlePC, OwnLockPC, OldPC, LockedPC, OldLockedPC, VerifiedPC
  <1>1. ASSUME NEW p \in Proc, acquire_create(p) PROVE Contents'
    BY SMTT(60), <1>1 DEF acquire_create, CreateLock, Free, histVars
  <1>2. ASSUME NEW p \in Proc, acquire_dircheck(p) PROVE Contents'
    BY SMTT(60), <1>2 DEF acquire_dircheck, fsVars, histVars
  <1>3. ASSUME NEW p \in Proc, acquire_backoff(p) PROVE Contents'
    BY SMTT(60), <1>3 DEF acquire_backoff, TryLock, histVars
  <1>4. ASSUME NEW p \in Proc, own_lock_try(p) PROVE Contents'
    BY SMTT(60), <1>4 DEF own_lock_try, TryLock, histVars
  <1>5. ASSUME NEW p \in Proc, own_lock_wait(p) PROVE Contents'
    BY SMTT(60), <1>5 DEF own_lock_wait, own_lock_give_up, DropHandle, Dropped, NextPass, histVars
  <1>6. ASSUME NEW p \in Proc, own_lock_verify(p) PROVE Contents'
    BY SMTT(60), <1>6 DEF own_lock_verify, own_lock_give_up, DropHandle, Dropped, NextPass, histVars
  <1>7. ASSUME NEW p \in Proc, classify_open(p) PROVE Contents'
    BY SMTT(60), <1>7 DEF classify_open, NextPass, fsVars, histVars
  <1>8. ASSUME NEW p \in Proc, classify_lock(p) PROVE Contents'
    BY SMTT(60), <1>8 DEF classify_lock, TryLock, histVars
  <1>9. ASSUME NEW p \in Proc, classify_read(p) PROVE Contents'
    BY SMTT(60), <1>9 DEF classify_read, DropOld, Dropped, histVars
  <1>10. ASSUME NEW p \in Proc, recover_s1(p) PROVE Contents'
    BY SMTT(60), <1>10 DEF recover_s1, DropOld, Dropped, NextPass, histVars
  <1>11. ASSUME NEW p \in Proc, recover_s2(p) PROVE Contents'
    BY SMTT(60), <1>11 DEF recover_s2, DropOld, Dropped, NextPass, histVars
  <1>12. ASSUME NEW p \in Proc, recover_s3(p) PROVE Contents'
    BY SMTT(60), <1>12 DEF recover_s3, fsVars, histVars
  <1>13. ASSUME NEW p \in Proc, recover_putback(p) PROVE Contents'
    BY SMTT(60), <1>13 DEF recover_putback, DropOld, Dropped, NextPass, histVars
  <1>14. ASSUME NEW p \in Proc, recover_s4(p) PROVE Contents'
    BY SMTT(60), <1>14 DEF recover_s4, CreateLock, Free, histVars
  <1>15. ASSUME NEW p \in Proc, recover_drop(p) PROVE Contents'
    BY SMTT(60), <1>15 DEF recover_drop, DropOld, Dropped, histVars
  <1>16. ASSUME NEW p \in Proc, recover_unlink(p) PROVE Contents'
    BY SMTT(60), <1>16 DEF recover_unlink, NextPass, histVars
  <1>17. ASSUME NEW p \in Proc, take_over_open(p) PROVE Contents'
    BY SMTT(60), <1>17 DEF take_over_open, NextPass, fsVars, histVars
  <1>18. ASSUME NEW p \in Proc, take_over_lock(p) PROVE Contents'
    BY SMTT(60), <1>18 DEF take_over_lock, TryLock, histVars
  <1>19. ASSUME NEW p \in Proc, take_over_path(p) PROVE Contents'
    BY SMTT(60), <1>19 DEF take_over_path, DropHandle, Dropped, NextPass, histVars
  <1>20. ASSUME NEW p \in Proc, take_over_read(p) PROVE Contents'
    BY SMTT(60), <1>20 DEF take_over_read, DropHandle, Dropped, NextPass, histVars
  <1>21. ASSUME NEW p \in Proc, write_begin(p) PROVE Contents'
    BY SMTT(60), <1>21 DEF write_begin, Store, histVars
  <1>22. ASSUME NEW p \in Proc, write_end(p) PROVE Contents'
    BY SMTT(60), <1>22 DEF write_end, Store, histVars
  <1>23. ASSUME NEW p \in Proc, write_fails(p) PROVE Contents'
    BY SMTT(60), <1>23 DEF write_fails, Store, histVars
  <1>24. ASSUME NEW p \in Proc, overwrite_check(p) PROVE Contents'
    BY SMTT(60), <1>24 DEF overwrite_check, DropHandle, Dropped, histVars
  <1>25. ASSUME NEW p \in Proc, give_back(p) PROVE Contents'
    BY SMTT(60), <1>25 DEF give_back, fsVars, histVars
  <1>26. ASSUME NEW p \in Proc, discard_check(p) PROVE Contents'
    BY SMTT(60), <1>26 DEF discard_check, fsVars, histVars
  <1>27. ASSUME NEW p \in Proc, guarded_check(p) PROVE Contents'
    BY SMTT(60), <1>27 DEF guarded_check, fsVars, histVars
  <1>28. ASSUME NEW p \in Proc, guarded_write(p) PROVE Contents'
    BY SMTT(60), <1>28 DEF guarded_write, fsVars
  <1>29. ASSUME NEW p \in Proc, release_check(p) PROVE Contents'
    BY SMTT(60), <1>29 DEF release_check, fsVars, histVars
  <1>30. ASSUME NEW p \in Proc, unlink(p) PROVE Contents'
    BY SMTT(60), <1>30 DEF unlink, histVars
  <1>31. ASSUME NEW p \in Proc, close(p) PROVE Contents'
    BY SMTT(60), <1>31 DEF close, DropHandle, Dropped, histVars
  <1>32. ASSUME NEW p \in Proc, Die(p) PROVE Contents'
    BY SMTT(60), <1>32 DEF Die, histVars
  <1>33. CASE ForeignAppears
    BY SMTT(60), <1>33 DEF ForeignAppears, runVars, histVars, Free
  <1>34. CASE UserRemovesLock
    BY Zenon, <1>34 DEF UserRemovesLock, runVars
  <1>35. CASE UNCHANGED vars
    BY Zenon, <1>35 DEF vars, fsVars, runVars, histVars
  <1> QED
    BY ZenonT(60), <1>1, <1>2, <1>3, <1>4, <1>5, <1>6, <1>7, <1>8, <1>9, <1>10, <1>11,
       <1>12, <1>13, <1>14, <1>15, <1>16, <1>17, <1>18, <1>19, <1>20, <1>21,
       <1>22, <1>23, <1>24, <1>25, <1>26, <1>27, <1>28, <1>29, <1>30, <1>31,
       <1>32, <1>33, <1>34, <1>35
       DEF Next, Step

-----------------------------------------------------------------------------
\* The inductive invariant holds in every reachable state.
THEOREM LockInvariant == Spec => []LockInv
  <1>1. Init => LockInv
    BY SMTT(60), TypeInit, ProcAssumption
       DEF Init, LockInv, Handles, Locks, Paths, Contents, NoHandlePC, OwnLockPC, OldPC,
           LockedPC, OldLockedPC, VerifiedPC, ClassifyPC, RecoverPC, TenurePC
  <1>2. LockInv /\ [Next]_vars => LockInv'
    BY Zenon, TypeStep, HandlesStep, LocksStep, PathsStep, ContentsStep DEF LockInv
  <1> QED
    BY <1>1, <1>2, PTL DEF Spec

\* TypeOK is an invariant of the lock code.
THEOREM TypeCorrect == Spec => []TypeOK
  BY LockInvariant, PTL DEF LockInv

\* LockInv gives a run that has the destination the path and its OS-native lock.
LEMMA TenureKeptInv == LockInv => TenureKept
  BY Zenon DEF LockInv, Paths, Locks, TenureKept, Tenure, VerifiedPC, LockedPC

\* No call of another run takes the lock path or the OS-native lock from a run
\* that has the destination.
THEOREM TenureIsKept == Spec => []TenureKept
  BY LockInvariant, TenureKeptInv, PTL

\* The path names one file and that file's OS-native lock has one holder.
LEMMA ExclusionInv == LockInv => MutualExclusion
  BY Zenon, TenureKeptInv DEF TenureKept, MutualExclusion

\* At most one run has the destination, whatever interleaving of acquisitions,
\* recoveries, takeovers, releases and deaths led here.
THEOREM Exclusion == Spec => []MutualExclusion
  BY LockInvariant, ExclusionInv, PTL

-----------------------------------------------------------------------------
(* What a step may never do to the files. *)

\* The calls that change the lock path or the content of a file.
FileChange(p) ==
    \/ acquire_create(p) \/ acquire_backoff(p) \/ recover_s2(p) \/ recover_putback(p)
    \/ recover_s4(p) \/ write_begin(p) \/ write_end(p) \/ write_fails(p) \/ unlink(p)

\* Every other step leaves the lock path and the content of all files alone.
LEMMA FileFrame ==
  ASSUME [Next]_vars
  PROVE  \/ UNCHANGED <<lockPath, content>>
         \/ \E p \in Proc : FileChange(p)
         \/ ForeignAppears \/ UserRemovesLock
  <1>1. ASSUME NEW p \in Proc,
               \/ acquire_dircheck(p) \/ own_lock_try(p) \/ own_lock_wait(p)
               \/ own_lock_verify(p) \/ classify_open(p) \/ classify_lock(p)
               \/ classify_read(p)
        PROVE  UNCHANGED <<lockPath, content>>
    BY Zenon, <1>1 DEF fsVars, acquire_dircheck, own_lock_try, own_lock_wait, own_lock_verify,
       own_lock_give_up, classify_open, classify_lock, classify_read
  <1>2. ASSUME NEW p \in Proc,
               \/ recover_s1(p) \/ recover_s3(p) \/ recover_drop(p) \/ recover_unlink(p)
               \/ take_over_open(p) \/ take_over_lock(p) \/ take_over_path(p)
               \/ take_over_read(p)
        PROVE  UNCHANGED <<lockPath, content>>
    BY Zenon, <1>2 DEF fsVars, recover_s1, recover_s3, recover_drop, recover_unlink,
       take_over_open, take_over_lock, take_over_path, take_over_read
  <1>3. ASSUME NEW p \in Proc,
               \/ overwrite_check(p) \/ give_back(p) \/ discard_check(p) \/ guarded_check(p)
               \/ guarded_write(p) \/ release_check(p) \/ close(p) \/ Die(p)
        PROVE  UNCHANGED <<lockPath, content>>
    BY Zenon, <1>3 DEF fsVars, overwrite_check, give_back, discard_check, guarded_check,
       guarded_write, release_check, close, Die
  <1>4. CASE UNCHANGED vars
    BY Zenon, <1>4 DEF vars, fsVars
  <1> QED
    BY Zenon, <1>1, <1>2, <1>3, <1>4 DEF Next, Step, FileChange

\* A write of a record meets its own run's content only.
LEMMA WriteKeeps ==
  ASSUME LockInv, NEW p \in Proc, write_begin(p) \/ write_end(p) \/ write_fails(p)
  PROVE  /\ lockPath' = lockPath /\ osLock[handle[p]] = p
         /\ content[handle[p]] \in {Empty, Unreadable, p}
         /\ \A f \in File : f # handle[p] => content'[f] = content[f]
  <1> USE DEF LockInv, TypeOK, Contents, Locks, LockedPC, TenurePC, Store
  <1>1. pc[p] \in TenurePC /\ lockPath' = lockPath
    BY Zenon DEF write_begin, write_end, write_fails
  <1>2. \A f \in File : f # handle[p] => content'[f] = content[f]
    BY SMTT(60) DEF write_begin, write_end, write_fails
  <1> QED
    BY Zenon, <1>1, <1>2

\* No single call moves, removes or writes another program's file.
LEMMA ForeignStep == LockInv /\ [Next]_vars => KeepsForeign
  <1> SUFFICES ASSUME LockInv, [Next]_vars, removals' = 0, lockPath # None,
                      content[lockPath] = Foreign
               PROVE  lockPath' = lockPath /\ content'[lockPath] = Foreign
    BY Zenon DEF KeepsForeign
  <1> USE ProcAssumption, DistinctAssumption DEF LockInv, TypeOK
  <1>1. CASE UNCHANGED <<lockPath, content>>
    BY Zenon, <1>1
  <1>2. ASSUME NEW p \in Proc, acquire_create(p) \/ recover_s4(p)
        PROVE  UNCHANGED <<lockPath, content>>
    BY Zenon, <1>2 DEF acquire_create, recover_s4, CreateLock
  <1>3. ASSUME NEW p \in Proc, acquire_backoff(p) PROVE UNCHANGED <<lockPath, content>>
    BY Zenon, <1>3 DEF acquire_backoff, Paths, Contents, VerifiedPC, histVars
  <1>4. ASSUME NEW p \in Proc, recover_s2(p) PROVE UNCHANGED <<lockPath, content>>
    BY SMTT(60), <1>4 DEF recover_s2, Paths, Contents, Records, histVars
  <1>5. ASSUME NEW p \in Proc, recover_putback(p) PROVE UNCHANGED <<lockPath, content>>
    BY Zenon, <1>5 DEF recover_putback
  <1>6. ASSUME NEW p \in Proc, write_begin(p) \/ write_end(p) \/ write_fails(p)
        PROVE  lockPath' = lockPath /\ content'[lockPath] = Foreign
    BY SMTT(60), <1>6, WriteKeeps
  <1>7. ASSUME NEW p \in Proc, unlink(p) PROVE UNCHANGED <<lockPath, content>>
    BY SMTT(60), <1>7 DEF unlink, Paths, Contents, VerifiedPC, TenurePC, histVars
  <1>8. CASE ForeignAppears
    BY Zenon, <1>8 DEF ForeignAppears
  <1>9. CASE UserRemovesLock
    BY SMTT(60), <1>9 DEF UserRemovesLock
  <1> QED
    BY Zenon, <1>1, <1>2, <1>3, <1>4, <1>5, <1>6, <1>7, <1>8, <1>9, FileFrame DEF FileChange

\* While nobody removes lock files by hand, no call of any run touches another
\* program's file at the lock path.
THEOREM ForeignIsSafe == Spec => ForeignUntouched
  BY LockInvariant, ForeignStep, PTL DEF Spec, ForeignUntouched

\* No single call replaces a record but one of the run that wrote it.
LEMMA RecordsStep == LockInv /\ [Next]_vars => KeepsRecords
  <1> SUFFICES ASSUME LockInv, [Next]_vars, NEW f \in File,
                      content[f] \in Records, content'[f] # content[f]
               PROVE  Free(f) \/ (handle[content[f]] = f /\ osLock[f] = content[f])
    BY Zenon DEF KeepsRecords
  <1> USE ProcAssumption, DistinctAssumption DEF LockInv, TypeOK
  <1>1. ASSUME NEW p \in Proc, acquire_create(p) \/ recover_s4(p) PROVE Free(f)
    BY Zenon, <1>1 DEF acquire_create, recover_s4, CreateLock
  <1>2. ASSUME NEW p \in Proc, write_begin(p) \/ write_end(p) \/ write_fails(p)
        PROVE  handle[content[f]] = f /\ osLock[f] = content[f]
    BY Zenon, <1>2, WriteKeeps DEF Records
  <1>3. CASE ForeignAppears
    BY Zenon, <1>3 DEF ForeignAppears
  <1>4. CASE UserRemovesLock
    BY Zenon, <1>4 DEF UserRemovesLock
  <1>5. ASSUME NEW p \in Proc,
               acquire_backoff(p) \/ recover_s2(p) \/ recover_putback(p) \/ unlink(p)
        PROVE  FALSE
    BY Zenon, <1>5 DEF acquire_backoff, recover_s2, recover_putback, unlink
  <1> QED
    BY Zenon, <1>1, <1>2, <1>3, <1>4, <1>5, FileFrame DEF FileChange

\* A record in a lock file is only ever replaced by the run that wrote it, by
\* hand-removed lock files or not.
THEOREM RecordsAreSafe == Spec => RecordsKept
  BY LockInvariant, RecordsStep, PTL DEF Spec, RecordsKept

\* The lock protocol destroys no record of another run, whoever removes lock files
\* by hand, and no other program's file while nobody does.
THEOREM FilesAreKept == Spec => FilesKept
  BY ForeignIsSafe, RecordsAreSafe DEF FilesKept

-----------------------------------------------------------------------------
(* The lock files implement the abstract lock service. *)

\* A step of run p moves no other run, and changes the destination only as a
\* guarded write.
LEMMA StepFrame ==
  ASSUME LockInv, NEW p \in Proc, Step(p) \/ Die(p)
  PROVE  /\ \A q \in Proc \ {p} : pc'[q] = pc[q]
         /\ removals' = removals
         /\ dest' = dest \/ (dest' = p /\ Tenure(p) /\ Tenure(p)')
  <1> USE DEF LockInv, TypeOK, Goto, NextPass, histVars, own_lock_give_up
  <1>1. CASE guarded_write(p)
    BY Zenon, <1>1 DEF guarded_write, Tenure, TenurePC
  <1>2. CASE ~guarded_write(p)
    BY ZenonT(60), <1>2 DEF Step, acquire_create, acquire_backoff, recover_s2, recover_putback,
           recover_s4, write_begin, write_end, write_fails, unlink,
           acquire_dircheck, own_lock_try, own_lock_wait, own_lock_verify,
           own_lock_give_up, classify_open, classify_lock, classify_read, recover_s1,
           recover_s3, recover_drop, recover_unlink, take_over_open, take_over_lock,
           take_over_path, take_over_read, overwrite_check, give_back, discard_check,
           guarded_check, release_check, close, Die
  <1> QED
    BY Zenon, <1>1, <1>2

\* Exclusion, before and after a step, makes the mapped holder well defined.
LEMMA ServiceStep ==
  ASSUME LockInv, LockInv', [Next]_vars, removals = 0, removals' = 0
  PROVE  [Service!Next]_(Service!vars)
  <1> USE DEF Service!Next, Service!Acquire, Service!Write, Service!GiveUp, Service!vars
  <1>1. ASSUME NEW p \in Proc, Step(p) \/ Die(p) PROVE [Service!Next]_(Service!vars)
    <2>1. /\ \A q \in Proc \ {p} : Tenure(q)' <=> Tenure(q)
          /\ dest' = dest \/ (dest' = p /\ Tenure(p) /\ Tenure(p)')
      BY Zenon, <1>1, StepFrame DEF Tenure
    <2>2. /\ \A q \in Proc : Tenure(q) => Holder = q
          /\ (\A q \in Proc : ~Tenure(q)) => Holder = None
      <3>1. MutualExclusion
        BY Zenon, ExclusionInv
      <3> QED
        BY Zenon, <3>1 DEF Holder, MutualExclusion
    <2>3. /\ \A q \in Proc : Tenure(q)' => Holder' = q
          /\ (\A q \in Proc : ~Tenure(q)') => Holder' = None
      <3>1. MutualExclusion'
        BY ExclusionInv, PTL
      <3> QED
        BY Zenon, <3>1 DEF Holder, MutualExclusion
    <2>4. CASE Tenure(p) /\ Tenure(p)'
      BY Zenon, <2>1, <2>2, <2>3, <2>4
    <2>5. CASE Tenure(p) /\ ~Tenure(p)'
      BY Zenon, <2>1, <2>2, <2>3, <2>5, ProcAssumption
    <2>6. CASE ~Tenure(p) /\ Tenure(p)'
      BY Zenon, <2>1, <2>2, <2>3, <2>6
    <2>7. CASE ~Tenure(p) /\ ~Tenure(p)'
      BY Zenon, <2>1, <2>2, <2>3, <2>7
    <2> QED
      BY Zenon, <2>4, <2>5, <2>6, <2>7
  <1>2. ASSUME pc' = pc, dest' = dest PROVE [Service!Next]_(Service!vars)
    BY Zenon, <1>2 DEF Holder, Tenure
  <1>3. CASE ForeignAppears
    BY Zenon, <1>2, <1>3 DEF ForeignAppears, runVars, histVars
  <1>4. CASE UserRemovesLock
    BY Zenon, <1>2, <1>4 DEF UserRemovesLock, runVars
  <1>5. CASE UNCHANGED vars
    BY Zenon, <1>2, <1>5 DEF vars, runVars, histVars
  <1> QED
    BY Zenon, <1>1, <1>3, <1>4, <1>5 DEF Next

\* As long as no lock file is removed by hand, every behaviour of the lock
\* files is a behaviour of the abstract lock.
THEOREM Implements == ASSUME MaxRemovals = 0 PROVE Spec => ImplementsLockService
  <1>1. Init => Service!Init
    BY ZenonT(60) DEF Init, Service!Init, Holder, Tenure, TenurePC
  <1>2. LockInv => removals = 0
    BY SMTT(60) DEF LockInv, TypeOK
  <1>3. LockInv' => removals' = 0
    BY SMTT(60) DEF LockInv, TypeOK
  <1>4. LockInv /\ LockInv' /\ [Next]_vars => [Service!Next]_(Service!vars)
    BY Zenon, <1>2, <1>3, ServiceStep
  <1> QED
    BY <1>1, <1>4, LockInvariant, PTL DEF Spec, ImplementsLockService, Service!Spec

-----------------------------------------------------------------------------
(* How many writes a removal by hand lets through. *)

\* A run acts by name with the OS-native lock of the file it checked, so no two
\* runs act on a check of the same file.
LEMMA OneActs ==
  ASSUME LockInv, NEW p \in Proc, NEW q \in Proc, Acting(p), Acting(q),
         Checked(p) = Checked(q)
  PROVE  p = q
  <1>1. ASSUME NEW r \in Proc, Acting(r)
        PROVE  osLock[Checked(r)] = r /\ Checked(r) # None
    <2>1. CASE pc[r] = "s2"
      BY Zenon, <2>1 DEF LockInv, Handles, Locks, Checked, OldPC, OldLockedPC
    <2>2. CASE pc[r] \in {"guarded", "unlink", "backoffunlink"}
      <3>1. pc[r] \in LockedPC /\ pc[r] \notin NoHandlePC /\ pc[r] # "s2"
        BY Zenon, <2>2 DEF LockedPC, TenurePC, NoHandlePC, ClassifyPC, RecoverPC
      <3> QED
        BY Zenon, <3>1 DEF LockInv, Handles, Locks, Checked
    <2> QED
      BY Zenon, <1>1, <2>1, <2>2 DEF Acting
  <1> QED
    BY Zenon, <1>1

\* A run acts on some file.
LEMMA ActsOnFile ==
  ASSUME LockInv, NEW p \in Proc, Acting(p)
  PROVE  Checked(p) # None
  <1>1. CASE pc[p] = "s2"
    BY Zenon, <1>1 DEF LockInv, Handles, Checked, OldPC
  <1>2. CASE pc[p] \in {"guarded", "unlink", "backoffunlink"}
    <2>1. pc[p] \notin NoHandlePC /\ pc[p] # "s2"
      BY Zenon, <1>2 DEF NoHandlePC, ClassifyPC, RecoverPC
    <2> QED
      BY Zenon, <2>1 DEF LockInv, Handles, Checked
  <1> QED
    BY Zenon, <1>1, <1>2 DEF Acting

\* What a step of run p does to the runs that act: it leaves the others alone;
\* p itself acts next only on a check this step made; the lock path is changed
\* by a run that acts, or from empty; and a late write is one of a stale run.
ActsFrame(p) ==
    /\ \A q \in Proc \ {p} : pc'[q] = pc[q] /\ handle'[q] = handle[q] /\ old'[q] = old[q]
    /\ Acting(p)' => lockPath' = Checked(p)'
    /\ removals' = removals
    /\ lockPath' = lockPath \/ lockPath = None \/ Acting(p)
    /\ late' = late \/ (p \in Stale /\ lockPath' = lockPath /\ late' = [late EXCEPT ![p] = @ + 1])

\* Every call has that shape.
LEMMA StepActs ==
  ASSUME LockInv, NEW p \in Proc, Step(p) \/ Die(p)
  PROVE  ActsFrame(p)
  <1> USE DEF ActsFrame, Acting, Checked, Goto, NextPass, fsVars, histVars
  <1>0. pc \in [Proc -> PC] /\ handle \in [Proc -> File \cup {None}]
        /\ old \in [Proc -> File \cup {None}]
    BY Zenon DEF LockInv, TypeOK
  <1> USE <1>0
  <1>1. CASE acquire_create(p) \/ acquire_dircheck(p)
    BY SMTT(60), <1>1 DEF acquire_create, CreateLock, acquire_dircheck
  <1>2. CASE acquire_backoff(p)
    BY SMTT(60), <1>2 DEF acquire_backoff, still_empty_at_path
  <1>3. CASE own_lock_try(p) \/ own_lock_wait(p) \/ own_lock_verify(p)
    BY SMTT(60), <1>3 DEF own_lock_try, own_lock_wait, own_lock_verify, own_lock_give_up, DropHandle
  <1>4. CASE classify_open(p) \/ classify_lock(p) \/ classify_read(p)
    BY SMTT(60), <1>4 DEF classify_open, classify_lock, classify_read, DropOld
  <1>5. CASE recover_s1(p)
    BY SMTT(60), <1>5 DEF recover_s1, DropOld
  <1>6. CASE recover_s2(p) \/ recover_s3(p)
    BY SMTT(60), <1>6 DEF recover_s2, recover_s3, DropOld
  <1>7. CASE recover_putback(p) \/ recover_s4(p)
    BY SMTT(60), <1>7 DEF recover_putback, recover_s4, CreateLock, DropOld
  <1>8. CASE recover_drop(p) \/ recover_unlink(p)
    BY SMTT(60), <1>8 DEF recover_drop, recover_unlink, DropOld
  <1>9. CASE take_over_open(p) \/ take_over_lock(p) \/ take_over_path(p) \/ take_over_read(p)
    BY SMTT(60), <1>9 DEF take_over_open, take_over_lock, take_over_path, take_over_read, DropHandle
  <1>10. CASE write_begin(p) \/ write_end(p) \/ write_fails(p) \/ overwrite_check(p)
    BY SMTT(60), <1>10 DEF write_begin, write_end, write_fails, overwrite_check, DropHandle
  <1>11. CASE give_back(p) \/ discard_check(p) \/ guarded_check(p) \/ release_check(p)
    BY SMTT(60), <1>11 DEF give_back, discard_check, guarded_check, release_check, still_owned
  <1>12. CASE guarded_write(p)
    BY SMTT(60), <1>12 DEF guarded_write, Stale
  <1>13. CASE unlink(p) \/ close(p) \/ Die(p)
    BY SMTT(60), <1>13 DEF unlink, close, Die, DropHandle
  <1> QED
    BY Zenon, <1>1, <1>2, <1>3, <1>4, <1>5, <1>6, <1>7, <1>8, <1>9, <1>10, <1>11, <1>12,
       <1>13 DEF Step

\* A set with at most one element more is at most one larger.
LEMMA OneMore ==
  ASSUME NEW S, IsFiniteSet(S), NEW T, NEW r, T \subseteq S \cup {r}
  PROVE  Cardinality(T) <= Cardinality(S) + 1
  <1>1. /\ IsFiniteSet(S \cup {r}) /\ Cardinality(S) \in Nat
        /\ Cardinality(S \cup {r}) = IF r \in S THEN Cardinality(S) ELSE Cardinality(S) + 1
    BY Zenon, FS_AddElement, FS_CardinalityType
  <1>2. IsFiniteSet(T) /\ Cardinality(T) <= Cardinality(S \cup {r})
    BY Zenon, <1>1, FS_Subset
  <1>3. Cardinality(T) \in Nat
    BY Zenon, <1>2, FS_CardinalityType
  <1> QED
    BY SMTT(60), <1>1, <1>2, <1>3

\* A set without an element of another is smaller.
LEMMA OneLess ==
  ASSUME NEW S, IsFiniteSet(S), NEW T, NEW p \in S, T \subseteq S \ {p}
  PROVE  Cardinality(T) + 1 <= Cardinality(S)
  <1>1. /\ IsFiniteSet(S \ {p}) /\ Cardinality(S) \in Nat
        /\ Cardinality(S \ {p}) = Cardinality(S) - 1
    BY Zenon, FS_RemoveElement, FS_CardinalityType
  <1>2. IsFiniteSet(T) /\ Cardinality(T) <= Cardinality(S \ {p})
    BY Zenon, <1>1, FS_Subset
  <1>3. Cardinality(T) \in Nat
    BY Zenon, <1>2, FS_CardinalityType
  <1> QED
    BY SMTT(60), <1>1, <1>2, <1>3

\* A step of a run: one that makes another run stale was stale itself, or acted
\* on the file the path named and so was the only one to.
LEMMA StaleStep ==
  ASSUME LockInv, IsFiniteSet(Proc), NEW p \in Proc, ActsFrame(p)
  PROVE  /\ Cardinality(Stale') <= Cardinality(Stale)
         /\ p \in Stale /\ lockPath' = lockPath => Cardinality(Stale') + 1 <= Cardinality(Stale)
  <1>1. p \notin Stale'
    BY Zenon DEF ActsFrame, Stale
  <1>2. \A q \in Stale' : q \in Proc /\ q # p /\ Acting(q) /\ lockPath' # Checked(q)
    <2> SUFFICES ASSUME NEW q \in Stale'
                 PROVE  q \in Proc /\ q # p /\ Acting(q) /\ lockPath' # Checked(q)
      OBVIOUS
    <2>1. q \in Proc /\ q # p /\ Acting(q)' /\ lockPath' # Checked(q)'
      BY Zenon, <1>1 DEF Stale
    <2>2. Acting(q)' = Acting(q) /\ Checked(q)' = Checked(q)
      BY Zenon, <2>1 DEF ActsFrame, Acting, Checked
    <2> QED
      BY Zenon, <2>1, <2>2
  <1>3. IsFiniteSet(Stale)
    BY Zenon, FS_Subset DEF Stale
  <1>4. CASE lockPath' = lockPath \/ lockPath = None
    <2>1. Stale' \subseteq Stale \ {p}
      BY Zenon, <1>2, <1>4, ActsOnFile DEF Stale
    <2>2. Stale' \in SUBSET Stale
      BY Zenon, <2>1
    <2> QED
      BY Zenon, <1>3, <2>1, <2>2, OneLess, FS_Subset
  <1>5. CASE Acting(p) /\ lockPath # None /\ lockPath' # lockPath
    <2>1. CASE p \notin Stale
      <3>1. Stale' \in SUBSET Stale
        BY Zenon, <1>2, <1>5, <2>1, OneActs DEF Stale
      <3> QED
        BY Zenon, <1>3, <1>5, <3>1, FS_Subset
    <2>2. CASE p \in Stale
      <3>1. PICK r : Stale' \subseteq (Stale \ {p}) \cup {r}
        BY Zenon, <1>2, OneActs DEF Stale
      <3>2. IsFiniteSet(Stale \ {p}) /\ Cardinality(Stale \ {p}) = Cardinality(Stale) - 1
            /\ Cardinality(Stale) \in Nat
        BY Zenon, <1>3, <2>2, FS_RemoveElement, FS_CardinalityType
      <3>3. Cardinality(Stale') <= Cardinality(Stale \ {p}) + 1
        BY Zenon, <3>1, <3>2, OneMore
      <3> QED
        BY SMTT(60), <1>5, <3>2, <3>3
    <2> QED
      BY Zenon, <2>1, <2>2
  <1> QED
    BY Zenon, <1>4, <1>5 DEF ActsFrame

\* A removal by hand makes at most one run stale.
LEMMA StaleRemoval ==
  ASSUME LockInv, IsFiniteSet(Proc), UserRemovesLock
  PROVE  Cardinality(Stale') <= Cardinality(Stale) + 1
  <1>1. \A q \in Stale' : q \in Proc /\ Acting(q)
    BY Zenon DEF UserRemovesLock, runVars, Stale, Acting
  <1>2. PICK r : Stale' \subseteq Stale \cup {r}
    BY Zenon, <1>1, OneActs DEF Stale
  <1> QED
    BY Zenon, <1>2, OneMore, FS_Subset DEF Stale

\* The count of stale runs and late writes stays within the removals.
LEMMA StaleBoundedStep ==
  ASSUME LockInv, IsFiniteSet(Proc), StaleBounded, [Next]_vars
  PROVE  StaleBounded'
  <1>1. /\ IsFiniteSet(Stale) /\ Cardinality(Stale) \in Nat
        /\ IsFiniteSet(Stale') /\ Cardinality(Stale') \in Nat
    BY Zenon, FS_Subset, FS_CardinalityType DEF Stale
  <1>2. late \in [Proc -> Nat] /\ removals \in Nat
    BY SMTT(60), BoundAssumption DEF LockInv, TypeOK
  <1>3. ASSUME NEW p \in Proc, Step(p) \/ Die(p) PROVE StaleBounded'
    <2>1. ActsFrame(p)
      BY Zenon, <1>3, StepActs
    <2>2. /\ Cardinality(Stale') <= Cardinality(Stale)
          /\ p \in Stale /\ lockPath' = lockPath => Cardinality(Stale') + 1 <= Cardinality(Stale)
      BY Zenon, <2>1, StaleStep
    <2>3. /\ removals' = removals
          /\ \/ late' = late
             \/ p \in Stale /\ lockPath' = lockPath /\ late' = [late EXCEPT ![p] = @ + 1]
      BY Zenon, <2>1 DEF ActsFrame
    <2> QED
      BY SMTT(60), <1>1, <1>2, <2>2, <2>3 DEF StaleBounded
  <1>4. ASSUME Stale' \in SUBSET Stale, late' = late, removals' = removals PROVE StaleBounded'
    <2>1. Cardinality(Stale') <= Cardinality(Stale)
      BY Zenon, <1>1, <1>4, FS_Subset
    <2> QED
      BY SMTT(60), <1>1, <1>2, <1>4, <2>1 DEF StaleBounded
  <1>5. CASE ForeignAppears
    <2>1. Stale' \in SUBSET Stale
      BY Zenon, <1>5, ActsOnFile DEF ForeignAppears, runVars, Stale, Acting, Checked
    <2> QED
      BY Zenon, <1>4, <1>5, <2>1 DEF ForeignAppears, histVars
  <1>6. CASE UserRemovesLock
    <2>1. Cardinality(Stale') <= Cardinality(Stale) + 1
      BY Zenon, <1>6, StaleRemoval
    <2>2. late' = late /\ removals' = removals + 1
      BY Zenon, <1>6 DEF UserRemovesLock
    <2> QED
      BY SMTT(60), <1>1, <1>2, <2>1, <2>2 DEF StaleBounded
  <1>7. CASE UNCHANGED vars
    <2>1. Stale' = Stale
      BY Zenon, <1>7 DEF vars, fsVars, runVars, Stale, Acting, Checked
    <2> QED
      BY Zenon, <1>4, <1>7, <2>1 DEF vars, histVars
  <1> QED
    BY Zenon, <1>3, <1>5, <1>6, <1>7 DEF Next

\* A lock file removed by hand under a live run lets at most one more change of
\* the destination through, whatever runs, deaths and recoveries go on.
THEOREM LateWrites == ASSUME IsFiniteSet(Proc) PROVE Spec => []LateWritesBounded
  <1>1. Init => StaleBounded
    <2> SUFFICES ASSUME Init PROVE StaleBounded
      OBVIOUS
    <2>1. Stale = {}
      BY Zenon DEF Init, Stale, Acting
    <2> QED
      BY SMTT(60), <2>1, FS_EmptySet DEF Init, StaleBounded
  <1>2. LockInv /\ StaleBounded /\ [Next]_vars => StaleBounded'
    BY Zenon, StaleBoundedStep
  <1>3. LockInv /\ StaleBounded => LateWritesBounded
    <2> SUFFICES ASSUME LockInv, StaleBounded PROVE LateWritesBounded
      OBVIOUS
    <2>1. Cardinality(Stale) \in Nat
      BY Zenon, FS_Subset, FS_CardinalityType DEF Stale
    <2>2. late \in [Proc -> Nat] /\ removals \in Nat
      BY SMTT(60), BoundAssumption DEF LockInv, TypeOK
    <2> QED
      BY SMTT(60), <2>1, <2>2 DEF StaleBounded, LateWritesBounded
  <1> QED
    BY <1>1, <1>2, <1>3, LockInvariant, PTL DEF Spec
=============================================================================
