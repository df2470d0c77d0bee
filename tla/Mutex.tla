------------------------------- MODULE Mutex -------------------------------
(***************************************************************************)
(* What a serial lock promises its users: at most one process holds it.    *)
(* PidLock implements this specification with a file on Windows; the       *)
(* broker modules use the promise instead of the file.                     *)
(***************************************************************************)
CONSTANTS Procs,        \* processes that may take the lock
          None          \* the value of holder while the lock is free

VARIABLE holder

Init == holder = None

\* Entering the with-block of _acquire_port_lock or _acquire_control_lock.
Take(p) == holder = None /\ holder' = p

\* Leaving it, or the death of the process that is inside it.
Drop(p) == holder = p /\ holder' = None

Next == \E p \in Procs : Take(p) \/ Drop(p)

Spec == Init /\ [][Next]_holder
=============================================================================
