---------------------------- MODULE PidLockProof ----------------------------
(***************************************************************************)
(* The lock file is a mutex on Windows, for any number of processes, tries  *)
(* and deaths.  The argument is one invariant: while a process has its      *)
(* descriptor open the file at the path is its own.  Nobody can create a    *)
(* second file while one is there, and nobody can remove that one while the *)
(* descriptor is open.                                                      *)
(***************************************************************************)
EXTENDS PidLock, TLAPS

\* Every step keeps the variables in their types.
LEMMA TypeStep == TypeOK /\ [Next]_vars => TypeOK'
<1> SUFFICES ASSUME TypeOK, [Next]_vars PROVE TypeOK'
  OBVIOUS
<1> USE NoneIsNoProcess, AttemptsBound, CrashesBound DEF TypeOK, PCs, file, Goto
<1>1. CASE UNCHANGED vars
  BY <1>1 DEF vars
<1>2. ASSUME NEW p \in Procs, Acquire(p) \/ Cleanup(p) PROVE TypeOK'
  BY <1>2 DEF Acquire, Cleanup, InUse, HasFd
<1>3. ASSUME NEW p \in Procs, Create(p) \/ OpenExists(p) \/ WritePid(p) PROVE TypeOK'
  BY <1>3 DEF Create, OpenExists, WritePid
<1>4. ASSUME NEW p \in Procs, CheckRead(p) \/ DescribeRead(p) \/ ReleaseRead(p) PROVE TypeOK'
  BY <1>4 DEF CheckRead, DescribeRead, ReleaseRead, OpenToRead, RecordedPid
<1>5. ASSUME NEW p \in Procs, CheckClose(p) \/ DescribeClose(p) \/ ReleaseClose(p) PROVE TypeOK'
  BY <1>5 DEF CheckClose, DescribeClose, ReleaseClose, CloseRead
<1>6. ASSUME NEW p \in Procs, Judge(p) \/ UnlinkRefused(p) PROVE TypeOK'
  BY <1>6 DEF Judge, UnlinkRefused, Refused
<1>7. ASSUME NEW p \in Procs, UnlinkStale(p) PROVE TypeOK'
  <2>1. attempt' \in [Procs -> 1..MaxAttempts]
    <3>1. CASE call[p] = "acquire" /\ attempt[p] < MaxAttempts
      <4>1. attempt[p] + 1 \in 1..MaxAttempts
        BY <3>1
      <4> QED
        BY <1>7, <3>1, <4>1 DEF UnlinkStale, NextAttempt
    <3>2. CASE ~(call[p] = "acquire" /\ attempt[p] < MaxAttempts)
      BY <1>7, <3>2 DEF UnlinkStale, NextAttempt
    <3> QED
      BY <3>1, <3>2
  <2>2. pc' \in [Procs -> PCs]
    BY <1>7 DEF UnlinkStale, AfterRemoval
  <2> QED
    BY <1>7, <2>1, <2>2 DEF UnlinkStale
<1>8. ASSUME NEW p \in Procs, Retry(p) \/ GiveUp(p) \/ CloseFd(p) PROVE TypeOK'
  BY <1>8 DEF Retry, GiveUp, CloseFd, InUse, HasFd
<1>9. ASSUME NEW p \in Procs, ReleaseUnlink(p) PROVE TypeOK'
  BY <1>9 DEF ReleaseUnlink
<1>10. ASSUME NEW p \in Procs, Crash(p) \/ Restart(p) PROVE TypeOK'
  BY <1>10 DEF Crash, Restart
<1> QED
  BY <1>1, <1>2, <1>3, <1>4, <1>5, <1>6, <1>7, <1>8, <1>9, <1>10 DEF Next, Continue

\* The variables of the lock have their types in every reachable state, on
\* every system (all of _acquire_pid_lock, _remove_stale_lock and
\* _release_pid_lock).
THEOREM TypeCorrect == Spec => []TypeOK
<1>1. Init => TypeOK
  <2> SUFFICES ASSUME Init PROVE TypeOK
    OBVIOUS
  <2>1. 1 \in 1..MaxAttempts /\ 0 \in 0..MaxCrashes
    BY AttemptsBound, CrashesBound
  <2>2. written \in BOOLEAN
    BY DEF Init
  <2> QED
    BY <2>1, <2>2 DEF Init, TypeOK, PCs
<1> QED
  BY <1>1, TypeStep, PTL DEF Spec

----------------------------------------------------------------------------
\* The heart of the argument: one step cannot take the file from the process
\* that has it open.
LEMMA HolderStep ==
    ASSUME Windows, TypeOK, HolderOwnsFile, [Next]_vars
    PROVE  HolderOwnsFile'
<1> USE DEF HolderOwnsFile, HasFd, TypeOK, Goto, file
<1>1. CASE UNCHANGED vars
  BY <1>1 DEF vars
<1>2. ASSUME NEW p \in Procs, Acquire(p) \/ Cleanup(p) PROVE HolderOwnsFile'
  BY <1>2 DEF Acquire, Cleanup
<1>3. ASSUME NEW p \in Procs, Create(p) PROVE HolderOwnsFile'
  <2>1. \A q \in Procs : ~HasFd(q)
    BY <1>3, NoneIsNoProcess DEF Create
  <2> QED
    BY <1>3, <2>1 DEF Create
<1>4. ASSUME NEW p \in Procs, OpenExists(p) \/ WritePid(p) PROVE HolderOwnsFile'
  BY <1>4 DEF OpenExists, WritePid
<1>5. ASSUME NEW p \in Procs, CheckRead(p) \/ DescribeRead(p) \/ ReleaseRead(p)
      PROVE HolderOwnsFile'
  BY <1>5 DEF CheckRead, DescribeRead, ReleaseRead, OpenToRead
<1>6. ASSUME NEW p \in Procs, CheckClose(p) \/ DescribeClose(p) \/ ReleaseClose(p)
      PROVE HolderOwnsFile'
  BY <1>6 DEF CheckClose, DescribeClose, ReleaseClose, CloseRead
<1>7. ASSUME NEW p \in Procs, Judge(p) \/ UnlinkRefused(p) PROVE HolderOwnsFile'
  BY <1>7 DEF Judge, UnlinkRefused, Refused
<1>8. ASSUME NEW p \in Procs, UnlinkStale(p) PROVE HolderOwnsFile'
  <2>1. \A q \in Procs : ~HasFd(q)
    BY <1>8, NoneIsNoProcess DEF UnlinkStale, CanUnlink
  <2> QED
    BY <1>8, <2>1 DEF UnlinkStale, AfterRemoval
<1>9. ASSUME NEW p \in Procs, Retry(p) \/ GiveUp(p) \/ CloseFd(p) PROVE HolderOwnsFile'
  BY <1>9 DEF Retry, GiveUp, CloseFd
<1>10. ASSUME NEW p \in Procs, ReleaseUnlink(p) PROVE HolderOwnsFile'
  <2>1. CASE creator # None /\ ~CanUnlink
    BY <1>10, <2>1 DEF ReleaseUnlink
  <2>2. CASE ~(creator # None /\ ~CanUnlink)
    <3>1. \A q \in Procs : ~HasFd(q)
      BY <2>2, NoneIsNoProcess DEF CanUnlink
    <3> QED
      BY <1>10, <2>2, <3>1 DEF ReleaseUnlink
  <2> QED
    BY <2>1, <2>2
<1>11. ASSUME NEW p \in Procs, Crash(p) \/ Restart(p) PROVE HolderOwnsFile'
  BY <1>11 DEF Crash, Restart
<1> QED
  BY <1>1, <1>2, <1>3, <1>4, <1>5, <1>6, <1>7, <1>8, <1>9, <1>10, <1>11
     DEF Next, Continue

\* On Windows the file at the path is the holder's as long as it holds the
\* lock (_remove_stale_lock and _release_pid_lock never take it away).
THEOREM HolderKeepsFile == ASSUME Windows PROVE Spec => []HolderOwnsFile
<1>1. Init => HolderOwnsFile
  BY DEF Init, HolderOwnsFile, HasFd
<1>2. TypeOK /\ HolderOwnsFile /\ [Next]_vars => HolderOwnsFile'
  BY HolderStep
<1> QED
  BY <1>1, <1>2, TypeCorrect, PTL DEF Spec

\* Two holders would both own the one file.
LEMMA OwnersExclude == HolderOwnsFile => MutualExclusion
  BY DEF HolderOwnsFile, MutualExclusion

\* On Windows no two processes hold the lock of a port (_acquire_pid_lock).
THEOREM LockExcludes == ASSUME Windows PROVE Spec => []MutualExclusion
  BY HolderKeepsFile, OwnersExclude, PTL

----------------------------------------------------------------------------
\* What Holder is, without its CHOOSE.
HolderView == /\ \A p \in Procs : HasFd(p) => Holder = p
              /\ (\A p \in Procs : ~HasFd(p)) => Holder = None

\* The holder of the refinement mapping is the owner of the file.
LEMMA HolderIsOwner == HolderOwnsFile => HolderView
<1> SUFFICES ASSUME HolderOwnsFile PROVE HolderView
  OBVIOUS
<1> USE DEF HolderOwnsFile, Holder, HolderView
<1>1. ASSUME NEW p \in Procs, HasFd(p) PROVE Holder = p
  <2>1. \A q \in Procs : HasFd(q) => q = p
    BY <1>1
  <2> QED
    BY <1>1, <2>1
<1> QED
  BY <1>1

\* A step takes the mutex, drops it, or leaves its holder as it is.
LEMMA HolderChange ==
    ASSUME TypeOK, HolderOwnsFile, HolderView, HolderView', [Next]_vars
    PROVE  M!Next \/ Holder' = Holder
<1> USE DEF TypeOK, Goto, file, HasFd
<1>a. ASSUME \A q \in Procs : HasFd(q)' <=> HasFd(q) PROVE Holder' = Holder
  BY <1>a DEF HolderView
<1>b. ASSUME NEW p \in Procs, HasFd(p), \A q \in Procs : ~HasFd(q)' PROVE M!Next
  BY <1>b DEF HolderView, M!Next, M!Drop
<1>1. CASE UNCHANGED vars
  BY <1>1, <1>a DEF vars
<1>2. ASSUME NEW p \in Procs, Acquire(p) \/ Cleanup(p) PROVE Holder' = Holder
  BY <1>2, <1>a DEF Acquire, Cleanup
<1>3. ASSUME NEW p \in Procs, Create(p) PROVE M!Next
  <2>1. \A q \in Procs : ~HasFd(q)
    BY <1>3, NoneIsNoProcess DEF Create, HolderOwnsFile
  <2>2. HasFd(p)'
    BY <1>3 DEF Create
  <2> QED
    BY <2>1, <2>2 DEF HolderView, M!Next, M!Take
<1>4. ASSUME NEW p \in Procs, OpenExists(p) \/ WritePid(p) PROVE Holder' = Holder
  <2>1. ASSUME NEW q \in Procs PROVE HasFd(q)' <=> HasFd(q)
    BY <1>4 DEF OpenExists, WritePid, PCs
  <2> QED
    BY <2>1, <1>a
<1>5. ASSUME NEW p \in Procs, CheckRead(p) \/ DescribeRead(p) \/ ReleaseRead(p)
      PROVE Holder' = Holder
  BY <1>5, <1>a DEF CheckRead, DescribeRead, ReleaseRead, OpenToRead
<1>6. ASSUME NEW p \in Procs, CheckClose(p) \/ DescribeClose(p) \/ ReleaseClose(p)
      PROVE Holder' = Holder
  BY <1>6, <1>a DEF CheckClose, DescribeClose, ReleaseClose, CloseRead
<1>7. ASSUME NEW p \in Procs, Judge(p) \/ UnlinkRefused(p) PROVE Holder' = Holder
  BY <1>7, <1>a DEF Judge, UnlinkRefused, Refused
<1>8. ASSUME NEW p \in Procs, UnlinkStale(p) PROVE Holder' = Holder
  BY <1>8, <1>a DEF UnlinkStale, AfterRemoval
<1>9. ASSUME NEW p \in Procs, Retry(p) \/ GiveUp(p) PROVE Holder' = Holder
  BY <1>9, <1>a DEF Retry, GiveUp
<1>10. ASSUME NEW p \in Procs, CloseFd(p) PROVE M!Next
  <2>1. HasFd(p) /\ \A q \in Procs : ~HasFd(q)'
    BY <1>10 DEF CloseFd, HolderOwnsFile
  <2> QED
    BY <2>1, <1>b
<1>11. ASSUME NEW p \in Procs, ReleaseUnlink(p) PROVE Holder' = Holder
  BY <1>11, <1>a DEF ReleaseUnlink
<1>12. ASSUME NEW p \in Procs, Crash(p) PROVE M!Next \/ Holder' = Holder
  <2>1. CASE HasFd(p)
    <3>1. \A q \in Procs : ~HasFd(q)'
      BY <1>12, <2>1 DEF Crash, HolderOwnsFile
    <3> QED
      BY <2>1, <3>1, <1>b
  <2>2. CASE ~HasFd(p)
    BY <1>12, <2>2, <1>a DEF Crash
  <2> QED
    BY <2>1, <2>2
<1>13. ASSUME NEW p \in Procs, Restart(p) PROVE Holder' = Holder
  BY <1>13, <1>a DEF Restart
<1> QED
  BY <1>1, <1>2, <1>3, <1>4, <1>5, <1>6, <1>7, <1>8, <1>9, <1>10, <1>11, <1>12, <1>13
     DEF Next, Continue

\* On Windows the lock file implements the mutex: the first step of a holder
\* takes it, os.close or the holder's death drops it, and no other step of any
\* process is visible (_acquire_pid_lock).
THEOREM FileIsMutex == ASSUME Windows PROVE Spec => ImplementsMutex
<1>1. Init => M!Init
  BY DEF Init, M!Init, Holder, HasFd
<1>2. TypeOK /\ HolderOwnsFile /\ HolderOwnsFile' /\ HolderView /\ HolderView' /\ [Next]_vars
      => [M!Next]_Holder
  BY HolderChange
<1>3. HolderOwnsFile => HolderView
  BY HolderIsOwner
<1> QED
  BY <1>1, <1>2, <1>3, TypeCorrect, HolderKeepsFile, PTL DEF Spec, ImplementsMutex, M!Spec
=============================================================================
