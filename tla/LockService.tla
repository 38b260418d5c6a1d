----------------------------- MODULE LockService -----------------------------
(***************************************************************************)
(* What the destination lock promises its users: at any moment at most one *)
(* run has the destination, and only that run changes it.  A run gives the *)
(* destination up by releasing it or by dying; nothing takes it away.      *)
(***************************************************************************)
CONSTANTS Proc, None

VARIABLES holder,   \* the run that has the destination, or None
          dest      \* the run that last changed the destination, or None

vars == <<holder, dest>>

Init == holder = None /\ dest = None

Acquire(p) == holder = None /\ holder' = p /\ UNCHANGED dest

Write(p) == holder = p /\ dest' = p /\ UNCHANGED holder

GiveUp(p) == holder = p /\ holder' = None /\ UNCHANGED dest

Next == \E p \in Proc : Acquire(p) \/ Write(p) \/ GiveUp(p)

Spec == Init /\ [][Next]_vars
=============================================================================
