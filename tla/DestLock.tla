------------------------------- MODULE DestLock -------------------------------
(***************************************************************************)
(* The destination lock of crates/flux-core/src/lock: a lock file created  *)
(* exclusively beside the destination, the OS-native lock on it, and the   *)
(* record in it.  Each run is a process; each action is one file-system    *)
(* call of the code (plus the private computation after it), so calls of   *)
(* different runs interleave freely and a run may die between any two.     *)
(*                                                                         *)
(* A File is a file object (an inode): the lock path and the move-aside    *)
(* names point to files, handles are open on files, and the OS-native lock *)
(* belongs to a file.  An unlinked file lives on while a handle is open on *)
(* it; a file with neither name nor handle is free and may be created      *)
(* again, as an inode number may be reused.                                *)
(*                                                                         *)
(* A record is abstracted to the run that wrote it (operation_id and       *)
(* owner_instance_id together), any unreadable content to Unreadable.      *)
(***************************************************************************)
EXTENDS Naturals, FiniteSets

CONSTANTS Proc,          \* runs, each with its own operation and instance id
          File,          \* file objects
          Mode,          \* Mode[p]: "plain", "break" (--break-lock), "cleanup"
          Verdicts,      \* what LockSite::workspace may say of a dead record
          DirLock,       \* what dir_lock_present may say of P/.flux-dir.lock
          OwnLockTries,  \* OWNLOCK_TRIES (5 in the code)
          MaxAttempts,   \* MAX_ATTEMPTS (8 in the code)
          MaxRemovals    \* bound on lock files removed by hand

None == "none"

\* What a lock file may hold: nothing, bytes decode calls Uncertain, bytes
\* that are not a Flux record, the record of an earlier operation that is
\* gone, or the record of a run p \in Proc.
Empty      == "empty"
Unreadable == "unreadable"
Foreign    == "foreign"
Prior      == "prior"

Records == Proc \cup {Prior}
Content == Records \cup {Empty, Unreadable, Foreign}

ASSUME ProcAssumption == Content \cap {None} = {} /\ None \notin File
ASSUME DistinctAssumption ==
    Proc \cap {Empty, Unreadable, Foreign, Prior} = {}
ASSUME ModeAssumption == Mode \in [Proc -> {"plain", "break", "cleanup"}]
ASSUME VerdictAssumption == Verdicts \subseteq {"Trusted", "Missing", "Untrusted"}
ASSUME DirLockAssumption == DirLock \subseteq BOOLEAN
ASSUME BoundAssumption ==
    OwnLockTries \in Nat \ {0} /\ MaxAttempts \in Nat \ {0} /\ MaxRemovals \in Nat

VARIABLES
    \* the file system
    lockPath,   \* the file at the lock path, or None
    broken,     \* broken[p]: the file at p's move-aside name, or None
    content,    \* content[f]: what file f holds
    osLock,     \* osLock[f]: the run holding f's OS-native lock, or None
    \* the runs
    pc,         \* the next call of each run
    handle,     \* the handle on the lock a run creates, claims or holds
    old,        \* the handle on the lock a run classifies or recovers
    seen,       \* the record classification read through old
    tries,      \* own_lock's count of tries
    attempts,   \* obtain's count of passes
    rounds,     \* open_operation's count of passes
    \* history
    dest,       \* the run that last changed the destination, or None
    late,       \* late[p]: writes p made after losing the lock path
    removals    \* lock files removed by hand so far

fsVars   == <<lockPath, broken, content, osLock>>
runVars  == <<pc, handle, old, seen, tries, attempts, rounds>>
histVars == <<dest, late, removals>>
vars     == <<fsVars, runVars, histVars>>

AcquirePC  == {"acquire", "dircheck", "backoff", "backoffcheck",
               "backoffunlink", "ownlock", "ownwait", "ownverify"}
ClassifyPC == {"classify", "classifylock", "classifyread"}
RecoverPC  == {"s1", "s2", "s3", "putback", "s4", "s4drop", "s4unlink"}
TakeOverPC == {"t2", "t3", "t4", "t5"}
\* own_lock or take_over has said yes: the run has the destination.
TenurePC   == {"s5drop", "s5unlink", "held", "recording", "claimed",
               "overwriting", "overcheck", "owned", "beating", "guarded",
               "discardcheck", "unlink"}
EndPC      == {"closing", "ended", "dead"}
PC == AcquirePC \cup ClassifyPC \cup RecoverPC \cup TakeOverPC \cup TenurePC
        \cup EndPC

TypeOK ==
    /\ lockPath \in File \cup {None}
    /\ broken \in [Proc -> File \cup {None}]
    /\ content \in [File -> Content]
    /\ osLock \in [File -> Proc \cup {None}]
    /\ pc \in [Proc -> PC]
    /\ handle \in [Proc -> File \cup {None}]
    /\ old \in [Proc -> File \cup {None}]
    /\ seen \in [Proc -> Content]
    /\ tries \in [Proc -> 0..OwnLockTries]
    /\ attempts \in [Proc -> 1..MaxAttempts]
    /\ rounds \in [Proc -> 1..MaxAttempts]
    /\ dest \in Proc \cup {None}
    /\ late \in [Proc -> Nat]
    /\ removals \in 0..MaxRemovals

-----------------------------------------------------------------------------
(* File-system calls and the private steps around them.  A definition named *)
(* X_without_... or X_with_... is a faulty variant of the X that follows it: *)
(* no action uses it, it documents which property notices the fault.         *)

Free(f) == /\ lockPath # f
           /\ \A p \in Proc : broken[p] # f /\ handle[p] # f /\ old[p] # f

Goto(p, l) == pc' = [pc EXCEPT ![p] = l]

\* create_lock: O_CREAT | O_EXCL at the lock path.
CreateLock(p, f) ==
    /\ lockPath = None /\ Free(f)
    /\ lockPath' = f
    /\ content' = [content EXCEPT ![f] = Empty]
    /\ handle' = [handle EXCEPT ![p] = f]

\* try_lock succeeds: nobody has the OS-native lock.
TryLock(p, f) == osLock[f] = None /\ osLock' = [osLock EXCEPT ![f] = p]

\* A handle drops: its OS-native lock goes with it.
Dropped(p, f) == IF f = None \/ osLock[f] # p THEN osLock
                 ELSE [osLock EXCEPT ![f] = None]

DropHandle(p) == /\ osLock' = Dropped(p, handle[p])
                 /\ handle' = [handle EXCEPT ![p] = None]

DropOld_without_unlock(p) ==
    /\ UNCHANGED osLock
    /\ old' = [old EXCEPT ![p] = None]
    /\ seen' = [seen EXCEPT ![p] = Empty]

DropOld(p) == /\ osLock' = Dropped(p, old[p])
              /\ old' = [old EXCEPT ![p] = None]
              /\ seen' = [seen EXCEPT ![p] = Empty]

\* obtain's loop: another pass, or give_up.
NextPass(p) ==
    IF attempts[p] < MaxAttempts
    THEN Goto(p, "acquire") /\ attempts' = [attempts EXCEPT ![p] = @ + 1]
    ELSE Goto(p, "ended") /\ UNCHANGED attempts

\* The path still names the run's file and nobody has written it.  The two
\* calls are one step: where the answer is acted on, the run has the
\* OS-native lock, so the content read cannot change between them.
still_empty_at_path(p) == lockPath = handle[p] /\ content[handle[p]] = Empty

-----------------------------------------------------------------------------
(* acquire.rs: create the lock file, check the directory lock, lock it. *)

acquire_create(p) ==
    /\ pc[p] = "acquire"
    /\ \/ /\ \E f \in File : CreateLock(p, f)
          /\ Goto(p, "dircheck")
       \/ /\ lockPath # None                      \* AlreadyExists: classify it
          /\ Goto(p, "classify")
          /\ UNCHANGED <<lockPath, content, handle>>
    /\ UNCHANGED <<broken, osLock, old, seen, tries, attempts, rounds, histVars>>

acquire_dircheck(p) ==
    /\ pc[p] = "dircheck"
    /\ \E present \in DirLock :
          IF present THEN Goto(p, "backoff") /\ UNCHANGED tries
          ELSE Goto(p, "ownlock") /\ tries' = [tries EXCEPT ![p] = 1]
    /\ UNCHANGED <<fsVars, handle, old, seen, attempts, rounds, histVars>>

\* The back-off removes the file only while it has its OS-native lock and the
\* file is still the empty one at the path.
acquire_backoff(p) ==
    /\ \/ /\ pc[p] = "backoff"
          /\ \/ TryLock(p, handle[p]) /\ Goto(p, "backoffcheck")
             \/ osLock[handle[p]] # None /\ Goto(p, "closing") /\ UNCHANGED osLock
          /\ UNCHANGED lockPath
       \/ /\ pc[p] = "backoffcheck"
          /\ Goto(p, IF still_empty_at_path(p) THEN "backoffunlink" ELSE "closing")
          /\ UNCHANGED <<lockPath, osLock>>
       \/ /\ pc[p] = "backoffunlink"
          /\ lockPath' = None
          /\ Goto(p, "closing")
          /\ UNCHANGED osLock
    /\ UNCHANGED <<broken, content, handle, old, seen, tries, attempts, rounds, histVars>>

\* own_lock gives up: close, never unlink.  A recovery then drops the lock it
\* moved aside (s4drop); an acquisition makes another pass.
own_lock_give_up(p) ==
    /\ DropHandle(p)
    /\ tries' = [tries EXCEPT ![p] = 0]
    /\ IF old[p] = None THEN NextPass(p) ELSE Goto(p, "s4drop") /\ UNCHANGED attempts

own_lock_try(p) ==
    /\ pc[p] = "ownlock"
    /\ \/ TryLock(p, handle[p]) /\ Goto(p, "ownverify")
       \/ osLock[handle[p]] # None /\ Goto(p, "ownwait") /\ UNCHANGED osLock
    /\ UNCHANGED <<lockPath, broken, content, handle, old, seen, tries,
                   attempts, rounds, histVars>>

own_lock_wait(p) ==
    /\ pc[p] = "ownwait"
    /\ IF tries[p] >= OwnLockTries \/ ~still_empty_at_path(p)
       THEN own_lock_give_up(p)
       ELSE /\ tries' = [tries EXCEPT ![p] = @ + 1]
            /\ Goto(p, "ownlock")
            /\ UNCHANGED <<osLock, handle, attempts>>
    /\ UNCHANGED <<lockPath, broken, content, old, seen, rounds, histVars>>

own_lock_verify(p) ==
    /\ pc[p] = "ownverify"
    /\ IF still_empty_at_path(p)
       THEN /\ Goto(p, IF old[p] = None THEN "held" ELSE "s5drop")
            /\ tries' = [tries EXCEPT ![p] = 0]
            /\ UNCHANGED <<osLock, handle, attempts>>
       ELSE own_lock_give_up(p)
    /\ UNCHANGED <<lockPath, broken, content, old, seen, rounds, histVars>>

-----------------------------------------------------------------------------
(* classify.rs and the decision of obtain and obtain_cleanup_lock. *)

classify_open(p) ==
    /\ pc[p] = "classify"
    /\ \/ lockPath = None /\ NextPass(p) /\ UNCHANGED old       \* Vanished
       \/ /\ lockPath # None
          /\ old' = [old EXCEPT ![p] = lockPath]
          /\ Goto(p, "classifylock") /\ UNCHANGED attempts
       \/ /\ lockPath # None /\ content[lockPath] = Foreign  \* not a regular file
          /\ Goto(p, "ended") /\ UNCHANGED <<old, attempts>>
    /\ UNCHANGED <<fsVars, handle, seen, tries, rounds, histVars>>

classify_lock(p) ==
    /\ pc[p] = "classifylock"
    /\ TryLock(p, old[p]) \/ (osLock[old[p]] # None /\ UNCHANGED osLock)
    /\ Goto(p, "classifyread")
    /\ UNCHANGED <<lockPath, broken, content, handle, old, seen, tries,
                   attempts, rounds, histVars>>

\* A dead owner's lock may be recovered: by a run when its workspace is
\* trusted; by cleanup when it is trusted or missing, and past the lease (the
\* age of the record's heartbeat is an input of this module).
Recoverable(p, w, pastLease) ==
    CASE Mode[p] = "cleanup" -> w \in {"Trusted", "Missing"} /\ pastLease
      [] OTHER -> w = "Trusted"

classify_read(p) ==
    /\ pc[p] = "classifyread"
    /\ LET c   == content[old[p]]
           got == osLock[old[p]] = p
       IN  \/ /\ c = Foreign \/ ~got                   \* Foreign, Busy: refused
              /\ DropOld(p) /\ Goto(p, "ended")
           \/ /\ got /\ c \in {Empty, Unreadable}      \* Uncertain
              /\ DropOld(p)
              /\ Goto(p, IF Mode[p] = "break" THEN "t2" ELSE "ended")
           \/ /\ got /\ c \in Records                   \* Dead, Orphan, Untrusted
              /\ \E w \in Verdicts, pastLease \in BOOLEAN :
                    IF Recoverable(p, w, pastLease)
                    THEN /\ seen' = [seen EXCEPT ![p] = c]
                         /\ Goto(p, "s1") /\ UNCHANGED <<osLock, old>>
                    ELSE DropOld(p) /\ Goto(p, "ended")
    /\ UNCHANGED <<lockPath, broken, content, handle, tries, attempts,
                   rounds, histVars>>

-----------------------------------------------------------------------------
(* recover.rs: replace a dead owner's lock by moving it aside. *)

\* holds: the record read through the kept handle is still the one seen.
holds(p) == content[old[p]] = seen[p]

recover_s1(p) ==
    /\ pc[p] = "s1"
    /\ IF lockPath = old[p] /\ holds(p)
       THEN Goto(p, "s2") /\ UNCHANGED <<osLock, old, seen, attempts>>
       ELSE DropOld(p) /\ NextPass(p)
    /\ UNCHANGED <<lockPath, broken, content, handle, tries, rounds, histVars>>

\* rename_no_replace(lock, broken): it moves whatever the lock path names now.
recover_s2(p) ==
    /\ pc[p] = "s2"
    /\ IF lockPath # None /\ broken[p] = None
       THEN /\ broken' = [broken EXCEPT ![p] = lockPath]
            /\ lockPath' = None
            /\ Goto(p, "s3") /\ UNCHANGED <<osLock, old, seen, attempts>>
       ELSE DropOld(p) /\ NextPass(p) /\ UNCHANGED <<lockPath, broken>>
    /\ UNCHANGED <<content, handle, tries, rounds, histVars>>

recover_s3(p) ==
    /\ pc[p] = "s3"
    /\ Goto(p, IF broken[p] = old[p] /\ holds(p) THEN "s4" ELSE "putback")
    /\ UNCHANGED <<fsVars, handle, old, seen, tries, attempts, rounds, histVars>>

\* rename_no_replace(broken, lock), its failure ignored, then another pass.
recover_putback(p) ==
    /\ pc[p] = "putback"
    /\ \/ /\ lockPath = None /\ broken[p] # None
          /\ lockPath' = broken[p] /\ broken' = [broken EXCEPT ![p] = None]
       \/ UNCHANGED <<lockPath, broken>>
    /\ DropOld(p) /\ NextPass(p)
    /\ UNCHANGED <<content, handle, tries, rounds, histVars>>

recover_s4(p) ==
    /\ pc[p] = "s4"
    /\ \/ /\ \E f \in File : CreateLock(p, f)
          /\ Goto(p, "ownlock") /\ tries' = [tries EXCEPT ![p] = 1]
       \/ /\ lockPath # None
          /\ Goto(p, "s4drop") /\ UNCHANGED <<lockPath, content, handle, tries>>
    /\ UNCHANGED <<broken, osLock, old, seen, attempts, rounds, histVars>>

\* drop(old), then remove_file(broken), which may fail and leave the file.
recover_drop(p) ==
    /\ \/ pc[p] = "s4drop" /\ Goto(p, "s4unlink")
       \/ pc[p] = "s5drop" /\ Goto(p, "s5unlink")
    /\ DropOld(p)
    /\ UNCHANGED <<lockPath, broken, content, handle, tries, attempts,
                   rounds, histVars>>

recover_unlink(p) ==
    /\ \/ pc[p] = "s4unlink" /\ NextPass(p)
       \/ pc[p] = "s5unlink" /\ Goto(p, "held") /\ UNCHANGED attempts
    /\ \E left \in {None, broken[p]} : broken' = [broken EXCEPT ![p] = left]
    /\ UNCHANGED <<lockPath, content, osLock, handle, old, seen, tries,
                   rounds, histVars>>

-----------------------------------------------------------------------------
(* takeover.rs: --break-lock claims an unreadable lock in place. *)

take_over_open(p) ==
    /\ pc[p] = "t2"
    /\ \/ /\ lockPath # None => content[lockPath] = Foreign   \* not a regular file
          /\ NextPass(p) /\ UNCHANGED handle
       \/ /\ lockPath # None
          /\ handle' = [handle EXCEPT ![p] = lockPath]
          /\ Goto(p, "t3") /\ UNCHANGED attempts
    /\ UNCHANGED <<fsVars, old, seen, tries, rounds, histVars>>

take_over_lock_without_lock(p) ==
    /\ pc[p] = "t3"
    /\ Goto(p, "t4")
    /\ UNCHANGED <<fsVars, handle, old, seen, tries, attempts, rounds, histVars>>

take_over_lock(p) ==
    /\ pc[p] = "t3"
    /\ \/ TryLock(p, handle[p]) /\ Goto(p, "t4")
       \/ osLock[handle[p]] # None /\ Goto(p, "closing") /\ UNCHANGED osLock
    /\ UNCHANGED <<lockPath, broken, content, handle, old, seen, tries,
                   attempts, rounds, histVars>>

take_over_path_without_check(p) ==
    /\ pc[p] = "t4"
    /\ Goto(p, "t5")
    /\ UNCHANGED <<fsVars, handle, old, seen, tries, attempts, rounds, histVars>>

take_over_path(p) ==
    /\ pc[p] = "t4"
    /\ IF lockPath = handle[p]
       THEN Goto(p, "t5") /\ UNCHANGED <<osLock, handle, attempts>>
       ELSE DropHandle(p) /\ NextPass(p)
    /\ UNCHANGED <<lockPath, broken, content, old, seen, tries, rounds, histVars>>

take_over_read_with_foreign(p) ==
    /\ pc[p] = "t5"
    /\ IF content[handle[p]] \in {Empty, Unreadable, Foreign}
       THEN Goto(p, "claimed") /\ UNCHANGED <<osLock, handle, attempts>>
       ELSE DropHandle(p) /\ NextPass(p)
    /\ UNCHANGED <<lockPath, broken, content, old, seen, tries, rounds, histVars>>

take_over_read_without_empty(p) ==
    /\ pc[p] = "t5"
    /\ IF content[handle[p]] \in {Unreadable}
       THEN Goto(p, "claimed") /\ UNCHANGED <<osLock, handle, attempts>>
       ELSE DropHandle(p) /\ NextPass(p)
    /\ UNCHANGED <<lockPath, broken, content, old, seen, tries, rounds, histVars>>

take_over_read(p) ==
    /\ pc[p] = "t5"
    /\ IF content[handle[p]] \in {Empty, Unreadable}
       THEN Goto(p, "claimed") /\ UNCHANGED <<osLock, handle, attempts>>
       ELSE DropHandle(p) /\ NextPass(p)
    /\ UNCHANGED <<lockPath, broken, content, old, seen, tries, rounds, histVars>>

-----------------------------------------------------------------------------
(* held.rs and takeover.rs, Claimed::overwrite: the record, the heartbeat, *)
(* the ownership check and the release.  A write is two steps; a run that  *)
(* dies or fails between them leaves unreadable content.                   *)

Store(p, c) == content' = [content EXCEPT ![handle[p]] = c]

\* write_record, overwrite and heartbeat each begin a write of the record.
write_begin(p) ==
    /\ \/ pc[p] = "held" /\ Goto(p, "recording")
       \/ pc[p] = "claimed" /\ Goto(p, "overwriting")
       \/ pc[p] = "owned" /\ Goto(p, "beating")
    /\ Store(p, Unreadable)
    /\ UNCHANGED <<lockPath, broken, osLock, handle, old, seen, tries,
                   attempts, rounds, histVars>>

write_end(p) ==
    /\ \/ pc[p] \in {"recording", "beating"} /\ Goto(p, "owned")
       \/ pc[p] = "overwriting" /\ Goto(p, "overcheck")
    /\ Store(p, p)
    /\ UNCHANGED <<lockPath, broken, osLock, handle, old, seen, tries,
                   attempts, rounds, histVars>>

\* The write or its flush fails, having written the record or only part of
\* it: give_back discards the lock, a claim is let go, a failed heartbeat
\* leaves the run to find out at its next check.
write_fails(p) ==
    /\ \/ pc[p] = "recording" /\ Goto(p, "discardcheck")
       \/ pc[p] = "overwriting" /\ Goto(p, "closing")
       \/ pc[p] = "beating" /\ Goto(p, "owned")
    /\ \E c \in {Unreadable, p} : Store(p, c)
    /\ UNCHANGED <<lockPath, broken, osLock, handle, old, seen, tries,
                   attempts, rounds, histVars>>

\* overwrite's last check; on a mismatch open_operation starts again.
overwrite_check(p) ==
    /\ pc[p] = "overcheck"
    /\ IF lockPath = handle[p]
       THEN Goto(p, "owned") /\ UNCHANGED <<osLock, handle, attempts, rounds>>
       ELSE /\ DropHandle(p)
            /\ attempts' = [attempts EXCEPT ![p] = 1]
            /\ IF rounds[p] < MaxAttempts
               THEN Goto(p, "acquire") /\ rounds' = [rounds EXCEPT ![p] = @ + 1]
               ELSE Goto(p, "ended") /\ UNCHANGED rounds
    /\ UNCHANGED <<lockPath, broken, content, old, seen, tries, histVars>>

\* A refusal before the record exists: a lock the run created is discarded, a
\* claimed one is let go.
give_back(p) ==
    /\ \/ pc[p] = "held" /\ Goto(p, "discardcheck")
       \/ pc[p] = "claimed" /\ Goto(p, "closing")
    /\ UNCHANGED <<fsVars, handle, old, seen, tries, attempts, rounds, histVars>>

discard_check(p) ==
    /\ pc[p] = "discardcheck"
    /\ Goto(p, IF lockPath = handle[p] THEN "unlink" ELSE "closing")
    /\ UNCHANGED <<fsVars, handle, old, seen, tries, attempts, rounds, histVars>>

still_owned(p) == lockPath = handle[p] /\ content[handle[p]] = p

guarded_check_without_owner(p) ==
    /\ pc[p] = "owned"
    /\ Goto(p, "guarded")
    /\ UNCHANGED <<fsVars, handle, old, seen, tries, attempts, rounds, histVars>>

\* The guard before a change of the destination, then the change itself.
guarded_check(p) ==
    /\ pc[p] = "owned"
    /\ Goto(p, IF still_owned(p) THEN "guarded" ELSE "closing")
    /\ UNCHANGED <<fsVars, handle, old, seen, tries, attempts, rounds, histVars>>

guarded_write(p) ==
    /\ pc[p] = "guarded"
    /\ Goto(p, "owned")
    /\ dest' = p
    /\ late' = IF lockPath = handle[p] THEN late ELSE [late EXCEPT ![p] = @ + 1]
    /\ UNCHANGED <<fsVars, handle, old, seen, tries, attempts, rounds, removals>>

release_check(p) ==
    /\ pc[p] = "owned"
    /\ Goto(p, IF still_owned(p) THEN "unlink" ELSE "closing")
    /\ UNCHANGED <<fsVars, handle, old, seen, tries, attempts, rounds, histVars>>

\* release and discard: remove_file by name, whatever the name means now; it
\* may fail, and the handle closes either way.
unlink(p) ==
    /\ pc[p] = "unlink"
    /\ lockPath' \in {None, lockPath}
    /\ Goto(p, "closing")
    /\ UNCHANGED <<broken, content, osLock, handle, old, seen, tries,
                   attempts, rounds, histVars>>

close(p) ==
    /\ pc[p] = "closing"
    /\ DropHandle(p) /\ Goto(p, "ended")
    /\ UNCHANGED <<lockPath, broken, content, old, seen, tries, attempts,
                   rounds, histVars>>

-----------------------------------------------------------------------------
(* Everything else that happens. *)

\* A run dies, or returns an I/O error that no step above handles: its
\* handles close, and with them its OS-native locks go.
Die(p) ==
    /\ pc[p] \notin EndPC
    /\ Goto(p, "dead")
    /\ osLock' = [f \in File |-> IF osLock[f] = p THEN None ELSE osLock[f]]
    /\ handle' = [handle EXCEPT ![p] = None]
    /\ old' = [old EXCEPT ![p] = None]
    /\ seen' = [seen EXCEPT ![p] = Empty]
    /\ UNCHANGED <<lockPath, broken, content, tries, attempts, rounds, histVars>>

\* Another program puts a file of its own at the lock path.
ForeignAppears ==
    /\ lockPath = None
    /\ \E f \in File : /\ Free(f)
                        /\ lockPath' = f
                        /\ content' = [content EXCEPT ![f] = Foreign]
    /\ UNCHANGED <<broken, osLock, runVars, histVars>>

\* Someone removes the lock file by hand, as the refusals suggest.
UserRemovesLock ==
    /\ removals < MaxRemovals /\ lockPath # None
    /\ lockPath' = None
    /\ removals' = removals + 1
    /\ UNCHANGED <<broken, content, osLock, runVars, dest, late>>

-----------------------------------------------------------------------------
\* The lock path is free, or holds what an earlier operation or another
\* program left there.
Init ==
    /\ lockPath \in File \cup {None}
    /\ \E c \in {Empty, Unreadable, Foreign, Prior} :
          content = [f \in File |-> IF f = lockPath THEN c ELSE Empty]
    /\ broken = [p \in Proc |-> None]
    /\ osLock = [f \in File |-> None]
    /\ pc = [p \in Proc |-> "acquire"]
    /\ handle = [p \in Proc |-> None]
    /\ old = [p \in Proc |-> None]
    /\ seen = [p \in Proc |-> Empty]
    /\ tries = [p \in Proc |-> 0]
    /\ attempts = [p \in Proc |-> 1]
    /\ rounds = [p \in Proc |-> 1]
    /\ dest = None
    /\ late = [p \in Proc |-> 0]
    /\ removals = 0

Step(p) ==
    \/ acquire_create(p) \/ acquire_dircheck(p) \/ acquire_backoff(p)
    \/ own_lock_try(p) \/ own_lock_wait(p) \/ own_lock_verify(p)
    \/ classify_open(p) \/ classify_lock(p) \/ classify_read(p)
    \/ recover_s1(p) \/ recover_s2(p) \/ recover_s3(p) \/ recover_putback(p)
    \/ recover_s4(p) \/ recover_drop(p) \/ recover_unlink(p)
    \/ take_over_open(p) \/ take_over_lock(p) \/ take_over_path(p) \/ take_over_read(p)
    \/ write_begin(p) \/ write_end(p) \/ write_fails(p) \/ overwrite_check(p)
    \/ give_back(p) \/ discard_check(p) \/ guarded_check(p) \/ guarded_write(p)
    \/ release_check(p) \/ unlink(p) \/ close(p)

Next ==
    \/ \E p \in Proc : Step(p) \/ Die(p)
    \/ ForeignAppears \/ UserRemovesLock

Spec == Init /\ [][Next]_vars

-----------------------------------------------------------------------------
(* Properties. *)

Tenure(p) == pc[p] \in TenurePC

\* A run that has been told it has the destination keeps the lock path and the
\* OS-native lock until it gives them up itself: no acquisition, recovery,
\* takeover, back-off, discard or release of another run takes them away.
\* (A lock file removed by hand voids the promise.)
TenureKept ==
    removals = 0 =>
        \A p \in Proc : Tenure(p) =>
            lockPath = handle[p] /\ osLock[handle[p]] = p

\* At most one run has the destination.
MutualExclusion ==
    removals = 0 => \A p, q \in Proc : Tenure(p) /\ Tenure(q) => p = q

\* Another program's file at the lock path is never changed or removed: not by
\* a recovery, a takeover, a back-off, nor a release that unlinks by name.
KeepsForeign ==
    removals' = 0 /\ lockPath # None /\ content[lockPath] = Foreign =>
        lockPath' = lockPath /\ content'[lockPath] = Foreign
ForeignUntouched == [][KeepsForeign]_vars

\* A record is only ever replaced by its own writer: a takeover overwrites
\* unreadable content only.  (A free file that is created again is new.)
KeepsRecords ==
    \A f \in File : content[f] \in Records /\ content'[f] # content[f] =>
        Free(f) \/ (handle[content[f]] = f /\ osLock[f] = content[f])
RecordsKept == [][KeepsRecords]_vars

\* When a lock file is removed by hand under a live run, that run's guard lets
\* at most the one write through that it had already allowed.
LateWritesBounded == \A p \in Proc : late[p] <= removals

\* The runs about to act on the lock path by a check that no longer holds: to
\* change the destination, to unlink the path, or to move aside what it names.
Acting(p)  == pc[p] \in {"guarded", "unlink", "backoffunlink", "s2"}
Checked(p) == IF pc[p] = "s2" THEN old[p] ELSE handle[p]
Stale      == {p \in Proc : Acting(p) /\ lockPath # Checked(p)}

\* Why one removal costs one write at most: it makes one run stale, and a stale
\* run that acts by name stops being so and makes at most one other run stale.
StaleBounded == \A p \in Proc : late[p] + Cardinality(Stale) <= removals

\* Which calls a run makes with which handle open: the fresh, claimed or held
\* lock (handle), the classified or recovered one (old).
NoHandlePC == ClassifyPC \cup RecoverPC \cup {"acquire", "t2", "ended", "dead"}
OwnLockPC  == {"ownlock", "ownwait", "ownverify"}
OldPC      == {"classifylock", "classifyread", "s1", "s2", "s3", "putback", "s4",
               "s4drop", "s5drop"}
\* Calls made with the OS-native lock of handle, and of old.
LockedPC    == TenurePC \cup {"backoffcheck", "backoffunlink", "ownverify", "t4", "t5"}
OldLockedPC == (OldPC \ {"classifylock", "classifyread"}) \cup OwnLockPC
\* Calls made knowing that the lock path names handle.
VerifiedPC == TenurePC \cup {"backoffunlink", "t5"}

Handles ==
    /\ \A p \in Proc : (pc[p] \in NoHandlePC) <=> (handle[p] = None)
    /\ \A p \in Proc : pc[p] \in OldPC => old[p] # None
    /\ \A p \in Proc : old[p] # None => pc[p] \in OldPC \cup OwnLockPC
    /\ \A p \in Proc : handle[p] # None => handle[p] # old[p]

Locks ==
    /\ \A p \in Proc : pc[p] \in LockedPC => osLock[handle[p]] = p
    /\ \A p \in Proc : pc[p] \in OldLockedPC /\ old[p] # None => osLock[old[p]] = p
    /\ \A f \in File : osLock[f] # None =>
                          handle[osLock[f]] = f \/ old[osLock[f]] = f

Paths ==
    removals = 0 =>
        /\ \A p \in Proc : pc[p] \in VerifiedPC => lockPath = handle[p]
        /\ \A p \in Proc : pc[p] = "s2" => lockPath = old[p]

Contents ==
    /\ \A p \in Proc : pc[p] \in TenurePC => content[handle[p]] \in {Empty, Unreadable, p}
    /\ \A p \in Proc : pc[p] = "backoffunlink" => content[handle[p]] = Empty
    /\ \A p \in Proc : pc[p] \in {"s1", "s2"} => seen[p] \in Records
    /\ \A p \in Proc : pc[p] = "s2" => content[old[p]] = seen[p]

\* The inductive invariant behind the promises: a run acts on the lock path by
\* name only while it has the OS-native lock of the file the path names, so no
\* two runs can, and only the run with that lock ever writes the file.
LockInv == TypeOK /\ Handles /\ Locks /\ Paths /\ Contents
\* No record is overwritten by another run, and, while nobody removes lock files by
\* hand, no other program's file is overwritten or unlinked.
FilesKept == ForeignUntouched /\ RecordsKept

\* The run that has the destination, while the lock keeps its promise.
Holder == IF \E p \in Proc : Tenure(p) THEN CHOOSE p \in Proc : Tenure(p) ELSE None

Service == INSTANCE LockService WITH holder <- Holder

\* The lock files implement the abstract lock: a run gets the destination only
\* when no run has it, changes it only while it has it, and loses it only by
\* its own step.  Holds as long as no lock file is removed by hand.
ImplementsLockService == Service!Spec

\* A run that starts alone, wherever the other runs died or stopped: over a free
\* path, over a dead owner's record, and with --break-lock over an unreadable
\* lock.
LoneStart(p) ==
    /\ pc[p] = "acquire" /\ attempts[p] = 1 /\ rounds[p] = 1
    /\ \A q \in Proc \ {p} : pc[q] \in {"ended", "dead"}
    /\ lockPath # None =>
          content[lockPath] \in IF Mode[p] = "break" THEN Content \ {Foreign} ELSE Records

\* It has the lock, or it died, or another program's file took the path.
Obtained(p) == Tenure(p) \/ pc[p] = "dead" \/ (lockPath # None /\ content[lockPath] = Foreign)
=============================================================================
