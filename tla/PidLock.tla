------------------------------ MODULE PidLock ------------------------------
(***************************************************************************)
(* The lock of a serial port: a file that holds the pid of its owner       *)
(* (serial/runtime.py, _acquire_pid_lock and its helpers).  Every system   *)
(* call on the file is a step of its own, because the processes that use   *)
(* the lock share nothing but the file system.                             *)
(*                                                                         *)
(* The file is (creator, written): which process created what is at the    *)
(* path now (None: nothing is there) and whether its pid is in it yet.  A   *)
(* process that dies keeps its name; Restart stands for an unrelated       *)
(* process that gets the dead one's pid.                                   *)
(***************************************************************************)
EXTENDS Naturals

CONSTANTS Procs,          \* processes, one pid each
          None,           \* no process
          Windows,        \* TRUE: an open file cannot be unlinked
          MaxAttempts,    \* tries of one _acquire_pid_lock call
          MaxCrashes      \* bound: how many processes die in a behaviour

ASSUME NoneIsNoProcess == None \notin Procs
ASSUME WindowsIsFlag   == Windows \in BOOLEAN
ASSUME AttemptsBound   == MaxAttempts \in Nat \ {0}
ASSUME CrashesBound    == MaxCrashes \in Nat

VARIABLES
    creator,    \* who created the file at the lock path, None: no such file
    written,    \* os.write of the pid has happened
    pc,         \* where each process is in the code
    call,       \* "acquire": _acquire_pid_lock, "cleanup": _remove_stale_lock alone
    seen,       \* the pid a process last read from the file, None: no pid in it
    attempt,    \* the loop counter of _acquire_pid_lock
    alive,      \* the processes that exist
    crashes     \* deaths so far, for the bound

vars == <<creator, written, pc, call, seen, attempt, alive, crashes>>
file == <<creator, written>>

PCs == {"idle", "open", "created", "held", "check", "reading", "judge",
        "unlink", "describe", "describing", "busy",
        "closed", "relreading", "relunlink", "dead"}

TypeOK ==
    /\ creator \in Procs \cup {None}
    /\ written \in BOOLEAN
    /\ pc \in [Procs -> PCs]
    /\ call \in [Procs -> {"acquire", "cleanup"}]
    /\ seen \in [Procs -> Procs \cup {None}]
    /\ attempt \in [Procs -> 1..MaxAttempts]
    /\ alive \subseteq Procs
    /\ crashes \in 0..MaxCrashes

Init ==
    /\ creator = None /\ written = FALSE
    /\ pc = [p \in Procs |-> "idle"]
    /\ call = [p \in Procs |-> "acquire"]
    /\ seen = [p \in Procs |-> None]
    /\ attempt = [p \in Procs |-> 1]
    /\ alive = Procs
    /\ crashes = 0

----------------------------------------------------------------------------
\* The process has the lock: its descriptor from os.open is not closed.
HasFd(p) == pc[p] \in {"created", "held"}

\* The process has the lock file open for reading.
IsReading(p) == pc[p] \in {"reading", "describing", "relreading"}

\* The lock is in use from the creation of the file to the end of the release.
InUse(p) == HasFd(p) \/ pc[p] \in {"closed", "relreading", "relunlink"}

\* What _read_lock_pid gets from the file, None for a missing or empty one.
RecordedPid == IF creator # None /\ written THEN creator ELSE None

\* unlink succeeds.  Windows refuses it (PermissionError) while any process
\* has the file open: neither os.open nor open() shares it for deletion.
CanUnlink == Windows => \A q \in Procs : ~HasFd(q) /\ ~IsReading(q)

Goto(p, from, to) == pc[p] = from /\ pc' = [pc EXCEPT ![p] = to]

\* _remove_stale_lock returned False: an acquire call raises SerialPortBusyError
\* (it first reads the file again to name the holder), a cleanup is over.
Refused(p) == IF call[p] = "cleanup" THEN "idle" ELSE "describe"

----------------------------------------------------------------------------
\* A process enters _acquire_pid_lock.
Acquire(p) ==
    /\ Goto(p, "idle", "open")
    /\ call' = [call EXCEPT ![p] = "acquire"]
    /\ attempt' = [attempt EXCEPT ![p] = 1]
    /\ UNCHANGED <<file, seen, alive, crashes>>

\* stop_serial_broker calls _remove_stale_lock for a lock it does not want.
Cleanup(p) ==
    /\ Goto(p, "idle", "check")
    /\ call' = [call EXCEPT ![p] = "cleanup"]
    /\ UNCHANGED <<file, seen, attempt, alive, crashes>>

\* Mutant of Create: O_EXCL forgotten.
CreateOrTruncate(p) ==
    /\ Goto(p, "open", "created")
    /\ creator' = p /\ written' = FALSE
    /\ UNCHANGED <<call, seen, attempt, alive, crashes>>

\* os.open with O_CREAT and O_EXCL makes the file.
Create(p) ==
    /\ Goto(p, "open", "created")
    /\ creator = None
    /\ creator' = p /\ written' = FALSE
    /\ UNCHANGED <<call, seen, attempt, alive, crashes>>

\* os.open raises FileExistsError.
OpenExists(p) ==
    /\ creator # None
    /\ Goto(p, "open", "check")
    /\ UNCHANGED <<file, call, seen, attempt, alive, crashes>>

\* os.write of the pid, to the file the process created: after another
\* process unlinked that one (not on Windows) nobody sees what is written.
WritePid(p) ==
    /\ Goto(p, "created", "held")
    /\ written' = IF creator = p THEN TRUE ELSE written
    /\ UNCHANGED <<creator, call, seen, attempt, alive, crashes>>

\* _read_lock_pid, up to the read; a missing file has nothing to close.
OpenToRead(p, from, reading, missing) ==
    /\ Goto(p, from, IF creator = None THEN missing ELSE reading)
    /\ seen' = [seen EXCEPT ![p] = RecordedPid]
    /\ UNCHANGED <<file, call, attempt, alive, crashes>>

\* _read_lock_pid closes the file and returns.
CloseRead(p, reading, to) ==
    /\ Goto(p, reading, to)
    /\ UNCHANGED <<file, call, seen, attempt, alive, crashes>>

\* _remove_stale_lock reads the file ...
CheckRead(p)  == OpenToRead(p, "check", "reading", "judge")
CheckClose(p) == CloseRead(p, "reading", "judge")

\* ... leaves a running process's lock alone ...
Judge(p) ==
    /\ Goto(p, "judge", IF seen[p] \in alive THEN Refused(p) ELSE "unlink")
    /\ UNCHANGED <<file, call, seen, attempt, alive, crashes>>

\* Mutants: a call that never runs out of tries; a counter that passes its end.
AlwaysAgain(p) == IF call[p] = "cleanup" THEN "idle" ELSE "open"
\* ... and unlinks any other.  An acquire call then tries again, three times.
AfterRemoval(p) ==
    IF call[p] = "cleanup" THEN "idle"
    ELSE IF attempt[p] < MaxAttempts THEN "open" ELSE "describe"

NextAttempt(p) ==
    IF call[p] = "acquire" /\ attempt[p] < MaxAttempts
    THEN [attempt EXCEPT ![p] = @ + 1] ELSE attempt

UnlinkStale(p) ==
    /\ creator = None \/ CanUnlink
    /\ Goto(p, "unlink", AfterRemoval(p))
    /\ creator' = None /\ written' = FALSE
    /\ attempt' = NextAttempt(p)
    /\ UNCHANGED <<call, seen, alive, crashes>>

UnlinkRefused(p) ==
    /\ creator # None /\ ~CanUnlink
    /\ Goto(p, "unlink", Refused(p))
    /\ UNCHANGED <<file, call, seen, attempt, alive, crashes>>

\* _lock_holder_description reads the file for the message of the error.
DescribeRead(p)  == OpenToRead(p, "describe", "describing", "busy")
DescribeClose(p) == CloseRead(p, "describing", "busy")

\* SerialPortBusyError: _acquire_control_lock tries again until its deadline,
\* the port lock's caller, or the deadline, gives up.
Retry(p) ==
    /\ Goto(p, "busy", "open")
    /\ attempt' = [attempt EXCEPT ![p] = 1]
    /\ UNCHANGED <<file, call, seen, alive, crashes>>

GiveUp(p) ==
    /\ Goto(p, "busy", "idle")
    /\ UNCHANGED <<file, call, seen, attempt, alive, crashes>>

----------------------------------------------------------------------------
\* The with-block ends: os.close, then _release_pid_lock reads the file ...
CloseFd(p) ==
    /\ Goto(p, "held", "closed")
    /\ UNCHANGED <<file, call, seen, attempt, alive, crashes>>

ReleaseRead(p)  == OpenToRead(p, "closed", "relreading", "idle")

\* Mutant of ReleaseClose: the test for the own pid is inverted.
ReleaseOthers(p) == CloseRead(p, "relreading", IF seen[p] = p THEN "idle" ELSE "relunlink")

ReleaseClose(p) == CloseRead(p, "relreading", IF seen[p] = p THEN "relunlink" ELSE "idle")

\* ... and unlinks its own.  Only FileNotFoundError is caught: a refused unlink
\* leaves the file and raises PermissionError to the caller, here "idle".
ReleaseUnlink(p) ==
    /\ Goto(p, "relunlink", "idle")
    /\ IF creator # None /\ ~CanUnlink
       THEN UNCHANGED file
       ELSE creator' = None /\ written' = FALSE
    /\ UNCHANGED <<call, seen, attempt, alive, crashes>>

----------------------------------------------------------------------------
\* A process dies; the system closes what it had open, the file stays.
Crash(p) ==
    /\ p \in alive /\ crashes < MaxCrashes
    /\ pc' = [pc EXCEPT ![p] = "dead"]
    /\ alive' = alive \ {p}
    /\ crashes' = crashes + 1
    /\ UNCHANGED <<file, call, seen, attempt>>

\* Another process gets the pid of a dead one.
Restart(p) ==
    /\ Goto(p, "dead", "idle")
    /\ alive' = alive \cup {p}
    /\ UNCHANGED <<file, call, seen, attempt, crashes>>

\* Steps the code takes once a call has begun.
Continue(p) ==
    \/ Create(p) \/ OpenExists(p) \/ WritePid(p)
    \/ CheckRead(p) \/ CheckClose(p) \/ Judge(p)
    \/ UnlinkStale(p) \/ UnlinkRefused(p)
    \/ DescribeRead(p) \/ DescribeClose(p) \/ Retry(p) \/ GiveUp(p)
    \/ ReleaseRead(p) \/ ReleaseClose(p) \/ ReleaseUnlink(p)

Next == \E p \in Procs :
    \/ Acquire(p) \/ Cleanup(p) \/ Continue(p)
    \/ CloseFd(p) \/ Crash(p) \/ Restart(p)

Spec == Init /\ [][Next]_vars

\* A process that is in a call is scheduled; how long it keeps the lock, and
\* whether it ever asks for it, is its caller's affair.
FairSpec == Spec /\ \A p \in Procs : WF_vars(Continue(p))

----------------------------------------------------------------------------
\* No two processes are between os.open and os.close of the same lock, so a
\* port has one user at a time (_acquire_pid_lock).
MutualExclusion == \A p, q \in Procs : HasFd(p) /\ HasFd(q) => p = q

\* While a process has the lock, the file at the path is the one it created:
\* nobody who took it for stale removed it (_remove_stale_lock), and nobody
\* releasing an older lock did (_release_pid_lock).
HolderOwnsFile == \A p \in Procs : HasFd(p) => creator = p

\* Every call of _acquire_pid_lock returns or raises: contenders that remove
\* and create the file between a process's tries cannot keep it in the loop.
AcquireReturns == \A p \in Procs :
    pc[p] = "open" ~> pc[p] \in {"held", "busy", "dead"}

\* The holder of the lock as an abstract mutex has it.
Holder == IF \E p \in Procs : HasFd(p) THEN CHOOSE p \in Procs : HasFd(p) ELSE None

M == INSTANCE Mutex WITH holder <- Holder

\* The lock file implements a mutex that a crash releases.
ImplementsMutex == M!Spec
=============================================================================
