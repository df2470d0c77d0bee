------------------------- MODULE BrokerFilesProof --------------------------
(***************************************************************************)
(* What holds of the two files a broker keeps for others to read: its      *)
(* registration and its trace. First the registration, for any number of   *)
(* brokers, clients and damages to the file: a live process it names has   *)
(* the port, and a broker that was started protected is killed by no stop  *)
(* without --force. Then the trace, for any number of threads, lines and   *)
(* rotations: what its followers print and what a case cuts out of it.     *)
(* BrokerRegistry and TraceLog share no variable; nor do the proofs.       *)
(***************************************************************************)
EXTENDS BrokerRegistry, TraceLog, FiniteSetTheorems, SequenceTheorems, TLAPS

\* A client that is past _serial_broker_is_gone has the entry of a broker.
HasBroker == \A c \in Clients :
    cpc[c] \in {"upgrade", "notify", "decide", "kill"} => cpid[c] \in Brokers

\* A client past the judging has loaded a broker, whichever process steps.
LEMMA HasBrokerStep == TypeOK /\ HasBroker /\ [Next]_vars => HasBroker'
<1> SUFFICES ASSUME TypeOK, HasBroker, [Next]_vars PROVE HasBroker'
  OBVIOUS
<1> USE DEF TypeOK, HasBroker, Steps, clients, ClientGoes, ClientEnds
<1>1. CASE UNCHANGED vars
  BY <1>1 DEF vars
<1>2. CASE UNCHANGED clients
  BY <1>2
<1>3. ASSUME NEW c \in Clients, NEW k \in Kinds, Begin(c, k) PROVE HasBroker'
  BY <1>3 DEF Begin
<1>4. ASSUME NEW c \in Clients, LoadNothing(c) \/ Load(c) PROVE HasBroker'
  BY <1>4 DEF LoadNothing, Load
<1>5. ASSUME NEW c \in Clients, JudgeGone(c) \/ JudgeLoaded(c) \/ JudgeGuarded(c)
      PROVE HasBroker'
  BY <1>5 DEF JudgeGone, JudgeLoaded, JudgeGuarded
<1>6. ASSUME NEW c \in Clients, JudgeLive(c) PROVE HasBroker'
  BY <1>6 DEF JudgeLive, IsGone
<1>7. ASSUME NEW c \in Clients, Recheck(c) \/ Unlink(c) PROVE HasBroker'
  BY <1>7 DEF Recheck, Unlink
<1>8. ASSUME NEW c \in Clients, Upgrade(c) \/ Notify(c) \/ Confirm(c) PROVE HasBroker'
  BY <1>8 DEF Upgrade, Notify, Confirm
<1>9. ASSUME NEW c \in Clients, DecideStale(c) \/ DecideRefuse(c) \/ DecideKill(c) \/ Kill(c)
      PROVE HasBroker'
  BY <1>9 DEF DecideStale, DecideRefuse, DecideKill, Kill
<1>10. ASSUME NEW b \in Brokers, BrokerThreads(b) PROVE UNCHANGED clients
  BY <1>10 DEF BrokerThreads, KeeperReads, KeeperAdopts, KeeperMisses, KeeperRestores,
     SetProtection, Register, StopReads, StopUnlinks, StopReleases
<1>11. ASSUME NEW b \in Brokers, NEW prot \in BOOLEAN, TakeLock(b, prot) PROVE UNCHANGED clients
  BY <1>11 DEF TakeLock
<1>12. ASSUME NEW b \in Brokers, LockBusy(b) \/ OpenFails(b) \/ StopBegins(b) \/ Crash(b)
       PROVE UNCHANGED clients
  BY <1>12 DEF LockBusy, OpenFails, StopBegins, Crash
<1>13. ForeignDamage => UNCHANGED clients
  BY DEF ForeignDamage
<1> QED
  BY <1>1, <1>2, <1>3, <1>4, <1>5, <1>6, <1>7, <1>8, <1>9, <1>10, <1>11, <1>12, <1>13
     DEF Next, Continue

\* The steps keep the types.
LEMMA TypeStep == TypeOK /\ HasBroker /\ [Next]_vars => TypeOK'
<1> SUFFICES ASSUME TypeOK, HasBroker, [Next]_vars PROVE TypeOK'
  OBVIOUS
<1> USE NamesDiffer, ForeignBound
    DEF TypeOK, States, Steps, Keepers, Kinds, entry, brokers, clients,
        BrokerGoes, ClientGoes, ClientEnds, Write, Remove, Forget,
        PortLock!Take, PortLock!Drop
<1>1. CASE UNCHANGED vars
  BY <1>1 DEF vars
<1>2. ASSUME NEW b \in Brokers, NEW prot \in BOOLEAN, TakeLock(b, prot) PROVE TypeOK'
  BY <1>2 DEF TakeLock
<1>3. ASSUME NEW b \in Brokers, LockBusy(b) \/ OpenFails(b) PROVE TypeOK'
  BY <1>3 DEF LockBusy, OpenFails
<1>4. ASSUME NEW b \in Brokers, Register(b) PROVE TypeOK'
  BY <1>4 DEF Register
<1>5. ASSUME NEW b \in Brokers,
             KeeperReads(b) \/ KeeperAdopts(b) \/ KeeperMisses(b) \/ SetProtection(b)
      PROVE TypeOK'
  BY <1>5 DEF KeeperReads, KeeperAdopts, KeeperMisses, SetProtection
<1>6. ASSUME NEW b \in Brokers, KeeperRestores(b) PROVE TypeOK'
  BY <1>6 DEF KeeperRestores
<1>7. ASSUME NEW b \in Brokers, StopBegins(b) \/ StopReads(b) \/ StopUnlinks(b) \/ StopReleases(b)
      PROVE TypeOK'
  <2>1. eprot' \in BOOLEAN
    BY <1>7 DEF StopBegins, StopReads, StopUnlinks, StopReleases
  <2>2. epid' \in Brokers \cup {None, Garbage}
    BY <1>7 DEF StopBegins, StopReads, StopUnlinks, StopReleases
  <2>3. CASE StopUnlinks(b)
    BY <2>1, <2>2, <2>3 DEF StopUnlinks
  <2>4. CASE StopBegins(b) \/ StopReads(b) \/ StopReleases(b)
    BY <2>4 DEF StopBegins, StopReads, StopReleases
  <2> QED
    BY <1>7, <2>3, <2>4
<1>8. ASSUME NEW b \in Brokers, Crash(b) PROVE TypeOK'
  BY <1>8 DEF Crash, Dies
<1>9. ASSUME NEW c \in Clients, NEW k \in Kinds, Begin(c, k) PROVE TypeOK'
  BY <1>9 DEF Begin, Settled
<1>10. ASSUME NEW c \in Clients, LoadNothing(c) \/ Load(c) PROVE TypeOK'
  BY <1>10 DEF LoadNothing, Load
<1>11. ASSUME NEW c \in Clients, JudgeGone(c) \/ JudgeLoaded(c) \/ JudgeLive(c) PROVE TypeOK'
  BY <1>11 DEF JudgeGone, JudgeLoaded, JudgeLive
<1>12. ASSUME NEW c \in Clients, JudgeGuarded(c) PROVE TypeOK'
  BY <1>12 DEF JudgeGuarded, IsGone
<1>13. ASSUME NEW c \in Clients, Recheck(c) \/ Unlink(c) PROVE TypeOK'
  BY <1>13, ZenonT(30) DEF Recheck, Unlink
<1>14. ASSUME NEW c \in Clients, Upgrade(c) \/ Confirm(c) PROVE TypeOK'
  BY <1>14, ZenonT(30) DEF Upgrade, Confirm
<1>15. ASSUME NEW c \in Clients, Notify(c) PROVE TypeOK'
  BY <1>15 DEF Notify, HasBroker
<1>16. ASSUME NEW c \in Clients, DecideStale(c) \/ DecideRefuse(c) \/ DecideKill(c) PROVE TypeOK'
  BY <1>16 DEF DecideStale, DecideRefuse, DecideKill
<1>17. ASSUME NEW c \in Clients, Kill(c) PROVE TypeOK'
  <2>1. CASE Alive(cpid[c])
    BY <1>17, <2>1 DEF Kill, Dies, HasBroker
  <2>2. CASE ~Alive(cpid[c])
    BY <1>17, <2>2 DEF Kill
  <2> QED
    BY <2>1, <2>2
<1>18. ASSUME ForeignDamage PROVE TypeOK'
  <2>1. foreign + 1 \in 0..MaxForeign
    BY <1>18 DEF ForeignDamage
  <2>2. eprot' \in BOOLEAN
    BY <1>18 DEF ForeignDamage
  <2> QED
    BY <1>18, <2>1, <2>2 DEF ForeignDamage
<1> QED
  BY <1>1, <1>2, <1>3, <1>4, <1>5, <1>6, <1>7, <1>8, <1>9, <1>10, <1>11, <1>12, <1>13,
     <1>14, <1>15, <1>16, <1>17, <1>18 DEF Next, BrokerThreads, Continue

\* They hold at first.
LEMMA TypeInit == Init => TypeOK /\ HasBroker
<1> SUFFICES ASSUME Init PROVE TypeOK /\ HasBroker
  OBVIOUS
<1>1. 0 \in 0..MaxForeign
  BY ForeignBound
<1>2. eprot \in BOOLEAN
  BY DEF Init
<1> QED
  BY <1>1, <1>2 DEF Init, TypeOK, HasBroker, States, Steps, Keepers, Kinds

\* The registry, the brokers and the clients have their types in every
\* reachable state.
THEOREM TypeCorrect == Spec => [](TypeOK /\ HasBroker)
  BY TypeInit, TypeStep, HasBrokerStep, PTL DEF Spec

----------------------------------------------------------------------------
\* The broker with the lock is the one between start and the end of stop.
LockMatches == \A b \in Brokers : lock = b <=>
    bst[b] \in {"locked", "serving", "stopping", "unlinking", "closing"}

\* What has been registered once has got past start.
Started(b) == bst[b] \notin {"off", "locked"}

\* Entries, in the file and in the clients that loaded one, are of brokers
\* that started; a keeper that has looked belongs to one that did not yet stop.
EntriesStarted ==
    /\ epid \in Brokers => Started(epid)
    /\ \A c \in Clients : cpid[c] \in Brokers => Started(cpid[c])
    /\ \A b \in Brokers : keeper[b] # "idle" => bst[b] \in {"serving", "stopping"}

OwnerInv == LockMatches /\ EntriesStarted

\* The lock and the entries: an entry comes from a broker that had the lock.
LEMMA OwnerStep == TypeOK /\ HasBroker /\ OwnerInv /\ [Next]_vars => OwnerInv'
<1> SUFFICES ASSUME TypeOK, HasBroker, OwnerInv, [Next]_vars PROVE OwnerInv'
  OBVIOUS
<1> USE NamesDiffer
    DEF TypeOK, States, Steps, Keepers, entry, brokers, clients, OwnerInv, LockMatches, EntriesStarted,
        Started, BrokerGoes, ClientGoes, ClientEnds, Write, Remove, Forget,
        PortLock!Take, PortLock!Drop
<1>1. CASE UNCHANGED vars
  BY <1>1 DEF vars
<1>2. ASSUME NEW b \in Brokers, NEW prot \in BOOLEAN, TakeLock(b, prot) PROVE OwnerInv'
  BY <1>2 DEF TakeLock
<1>3. ASSUME NEW b \in Brokers, LockBusy(b) PROVE OwnerInv'
  BY <1>3 DEF LockBusy
<1>4. ASSUME NEW b \in Brokers, OpenFails(b) PROVE OwnerInv'
  BY <1>4 DEF OpenFails
<1>5. ASSUME NEW b \in Brokers, Register(b) PROVE OwnerInv'
  BY <1>5 DEF Register
<1>6. ASSUME NEW b \in Brokers,
             KeeperReads(b) \/ KeeperAdopts(b) \/ KeeperMisses(b) \/ SetProtection(b)
      PROVE OwnerInv'
  BY <1>6 DEF KeeperReads, KeeperAdopts, KeeperMisses, SetProtection
<1>7. ASSUME NEW b \in Brokers, KeeperRestores(b) PROVE OwnerInv'
  BY <1>7 DEF KeeperRestores
<1>8. ASSUME NEW b \in Brokers, StopBegins(b) \/ StopReads(b) PROVE OwnerInv'
  BY <1>8 DEF StopBegins, StopReads
<1>9. ASSUME NEW b \in Brokers, StopUnlinks(b) \/ StopReleases(b) PROVE OwnerInv'
  BY <1>9 DEF StopUnlinks, StopReleases
<1>10. ASSUME NEW b \in Brokers, Alive(b), Dies(b), UNCHANGED epid,
              \A c \in Clients : cpid'[c] = cpid[c] PROVE OwnerInv'
  BY <1>10 DEF Dies, Alive
<1>11. ASSUME NEW b \in Brokers, Crash(b) PROVE OwnerInv'
  BY <1>11, <1>10 DEF Crash, Dies
<1>12. ASSUME NEW c \in Clients, NEW k \in Kinds, Begin(c, k) PROVE OwnerInv'
  BY <1>12 DEF Begin
<1>13. ASSUME NEW c \in Clients, LoadNothing(c) \/ Load(c) PROVE OwnerInv'
  BY <1>13 DEF LoadNothing, Load
<1>14. ASSUME NEW c \in Clients,
              JudgeGone(c) \/ JudgeLoaded(c) \/ JudgeGuarded(c) \/ JudgeLive(c) PROVE OwnerInv'
  BY <1>14 DEF JudgeGone, JudgeLoaded, JudgeGuarded, JudgeLive
<1>15. ASSUME NEW c \in Clients, Recheck(c) \/ Unlink(c) PROVE OwnerInv'
  BY <1>15 DEF Recheck, Unlink
<1>16. ASSUME NEW c \in Clients, Upgrade(c) PROVE OwnerInv'
  BY <1>16 DEF Upgrade, HasBroker
<1>17. ASSUME NEW c \in Clients, Notify(c) \/ Confirm(c) PROVE OwnerInv'
  BY <1>17 DEF Notify, Confirm
<1>18. ASSUME NEW c \in Clients, DecideStale(c) \/ DecideRefuse(c) \/ DecideKill(c) PROVE OwnerInv'
  BY <1>18 DEF DecideStale, DecideRefuse, DecideKill
<1>19. ASSUME NEW c \in Clients, Kill(c) PROVE OwnerInv'
  <2>1. CASE Alive(cpid[c])
    BY <1>19, <2>1, <1>10 DEF Kill, HasBroker
  <2>2. CASE ~Alive(cpid[c])
    BY <1>19, <2>2 DEF Kill
  <2> QED
    BY <2>1, <2>2
<1>20. ForeignDamage => OwnerInv'
  BY DEF ForeignDamage
<1> QED
  BY <1>1, <1>2, <1>3, <1>4, <1>5, <1>6, <1>7, <1>8, <1>9, <1>11, <1>12, <1>13,
     <1>14, <1>15, <1>16, <1>17, <1>18, <1>19, <1>20 DEF Next, BrokerThreads, Continue

\* A live process that the registry names has the port, or is about to exit.
THEOREM EntryIsOwner == Spec => []EntryNamesOwner
<1>1. Init => OwnerInv
  BY NamesDiffer DEF Init, OwnerInv, LockMatches, EntriesStarted, Started
<1>2. TypeOK /\ OwnerInv => EntryNamesOwner
  BY DEF TypeOK, States, OwnerInv, LockMatches, EntriesStarted, Started, EntryNamesOwner
<1> QED
  BY <1>1, <1>2, OwnerStep, TypeCorrect, PTL DEF Spec

----------------------------------------------------------------------------
\* A broker born protected stays so in its memory, in the file, in its keeper and in
\* every client that loaded its entry; only an unprotected entry gets to the kill.
ProtInv ==
    /\ \A b \in born : b \in memProt /\ keeper[b] # "unprotects"
    /\ epid \in born => eprot
    /\ \A c \in Clients : cpid[c] \in born => c \in cprot
    /\ \A c \in Clients : cpc[c] = "kill" /\ kind[c] = "stop" => c \notin cprot

\* The protection of a broker that was started protected is in every copy of its entry.
LEMMA ProtStep == TypeOK /\ HasBroker /\ OwnerInv /\ ProtInv /\ [Next]_vars => ProtInv'
<1> SUFFICES ASSUME TypeOK, HasBroker, OwnerInv, ProtInv, [Next]_vars PROVE ProtInv'
  OBVIOUS
<1> USE NamesDiffer
    DEF TypeOK, States, Steps, Kinds, entry, brokers, clients, ProtInv,
        BrokerGoes, ClientGoes, ClientEnds, Write, Remove, Forget
<1>1. CASE UNCHANGED vars
  BY <1>1 DEF vars
<1>2. ASSUME NEW b \in Brokers, NEW prot \in BOOLEAN, TakeLock(b, prot) PROVE ProtInv'
  <2>1. epid # b /\ keeper[b] = "idle" /\ \A c \in Clients : cpid[c] # b
    BY <1>2 DEF TakeLock, OwnerInv, EntriesStarted, Started
  <2> QED
    BY <1>2, <2>1 DEF TakeLock
<1>3. ASSUME NEW b \in Brokers, LockBusy(b) \/ OpenFails(b) PROVE ProtInv'
  BY <1>3 DEF LockBusy, OpenFails
<1>4. ASSUME NEW b \in Brokers, Register(b) PROVE ProtInv'
  BY <1>4 DEF Register
<1>5. ASSUME NEW b \in Brokers, KeeperReads(b) \/ KeeperAdopts(b) PROVE ProtInv'
  BY <1>5 DEF KeeperReads, KeeperAdopts
<1>6. ASSUME NEW b \in Brokers, KeeperMisses(b) \/ SetProtection(b) PROVE ProtInv'
  BY <1>6 DEF KeeperMisses, SetProtection
<1>7. ASSUME NEW b \in Brokers, KeeperRestores(b) PROVE ProtInv'
  BY <1>7 DEF KeeperRestores
<1>8. ASSUME NEW b \in Brokers, StopBegins(b) \/ StopReads(b) PROVE ProtInv'
  BY <1>8 DEF StopBegins, StopReads
<1>9. ASSUME NEW b \in Brokers, StopUnlinks(b) \/ StopReleases(b) PROVE ProtInv'
  BY <1>9 DEF StopUnlinks, StopReleases
<1>10. ASSUME NEW b \in Brokers, Crash(b) PROVE ProtInv'
  BY <1>10 DEF Crash, Dies
<1>11. ASSUME NEW c \in Clients, NEW k \in Kinds, Begin(c, k) PROVE ProtInv'
  BY <1>11 DEF Begin
<1>12. ASSUME NEW c \in Clients, LoadNothing(c) \/ Load(c) PROVE ProtInv'
  BY <1>12 DEF LoadNothing, Load
<1>13. ASSUME NEW c \in Clients,
              JudgeGone(c) \/ JudgeLoaded(c) \/ JudgeGuarded(c) \/ JudgeLive(c) PROVE ProtInv'
  BY <1>13 DEF JudgeGone, JudgeLoaded, JudgeGuarded, JudgeLive
<1>14. ASSUME NEW c \in Clients, Recheck(c) \/ Unlink(c) PROVE ProtInv'
  BY <1>14 DEF Recheck, Unlink
<1>15. ASSUME NEW c \in Clients, Upgrade(c) PROVE ProtInv'
  BY <1>15 DEF Upgrade
<1>16. ASSUME NEW c \in Clients, Notify(c) \/ Confirm(c) PROVE ProtInv'
  BY <1>16 DEF Notify, Confirm
<1>17. ASSUME NEW c \in Clients, DecideStale(c) \/ DecideRefuse(c) \/ DecideKill(c) PROVE ProtInv'
  BY <1>17 DEF DecideStale, DecideRefuse, DecideKill
<1>18. ASSUME NEW c \in Clients, Kill(c) PROVE ProtInv'
  <2>1. CASE Alive(cpid[c])
    BY <1>18, <2>1 DEF Kill, Dies, HasBroker
  <2>2. CASE ~Alive(cpid[c])
    BY <1>18, <2>2 DEF Kill
  <2> QED
    BY <2>1, <2>2
<1>19. ForeignDamage => ProtInv'
  BY DEF ForeignDamage
<1> QED
  BY <1>1, <1>2, <1>3, <1>4, <1>5, <1>6, <1>7, <1>8, <1>9, <1>10, <1>11, <1>12, <1>13,
     <1>14, <1>15, <1>16, <1>17, <1>18, <1>19 DEF Next, BrokerThreads, Continue

\* No stop without --force is about to kill a broker that was started for a
\* human, whatever other commands, brokers and programs do to the file
\* (stop_serial_broker, _ensure_registered, protect_serial_broker_registry).
THEOREM BornProtectedIsSafe == Spec => []BornProtectedSurvives
<1>1. Init => OwnerInv /\ ProtInv
  BY NamesDiffer DEF Init, OwnerInv, LockMatches, EntriesStarted, Started, ProtInv
<1>2. ProtInv => BornProtectedSurvives
  BY DEF ProtInv, BornProtectedSurvives
<1> QED
  BY <1>1, <1>2, OwnerStep, ProtStep, TypeCorrect, PTL DEF Spec

----------------------------------------------------------------------------
\* A guard that had settled when a stop began: the broker still knows of it as
\* long as it lives, the file does not deny it, and the stop loads it with it.
GuardInv ==
    /\ \A b \in memProt : bst[b] # "off"
    /\ \A c \in Clients : \A b \in before[c] :
          /\ bst[b] # "off"
          /\ Alive(b) => /\ b \in memProt /\ keeper[b] # "unprotects"
                         /\ epid = b => eprot
                         /\ cpc[c] \in {"judge", "decide"} /\ cpid[c] = b => c \in cprot
    /\ GuardHolds

\* Settled guards stay, whichever process steps.
LEMMA GuardStep == TypeOK /\ HasBroker /\ GuardInv /\ [Next]_vars => GuardInv'
<1> SUFFICES ASSUME TypeOK, HasBroker, GuardInv, [Next]_vars PROVE GuardInv'
  OBVIOUS
<1> USE NamesDiffer
    DEF TypeOK, States, Steps, Kinds, entry, brokers, clients, GuardInv, GuardHolds, Alive,
        BrokerGoes, ClientGoes, ClientEnds, Write, Remove, Forget
<1>1. CASE UNCHANGED vars
  BY <1>1 DEF vars
<1>2. ASSUME NEW b \in Brokers, NEW prot \in BOOLEAN, TakeLock(b, prot) PROVE GuardInv'
  BY <1>2 DEF TakeLock
<1>3. ASSUME NEW b \in Brokers, LockBusy(b) \/ OpenFails(b) PROVE GuardInv'
  BY <1>3 DEF LockBusy, OpenFails
<1>4. ASSUME NEW b \in Brokers, Register(b) PROVE GuardInv'
  BY <1>4 DEF Register
<1>5. ASSUME NEW b \in Brokers, KeeperReads(b) \/ KeeperAdopts(b) PROVE GuardInv'
  BY <1>5 DEF KeeperReads, KeeperAdopts
<1>6. ASSUME NEW b \in Brokers, KeeperMisses(b) \/ SetProtection(b) PROVE GuardInv'
  BY <1>6 DEF KeeperMisses, SetProtection
<1>7. ASSUME NEW b \in Brokers, KeeperRestores(b) PROVE GuardInv'
  BY <1>7 DEF KeeperRestores
<1>8. ASSUME NEW b \in Brokers, StopBegins(b) \/ StopReads(b) PROVE GuardInv'
  BY <1>8 DEF StopBegins, StopReads
<1>9. ASSUME NEW b \in Brokers, StopUnlinks(b) \/ StopReleases(b) PROVE GuardInv'
  BY <1>9 DEF StopUnlinks, StopReleases
<1>10. ASSUME NEW b \in Brokers, Crash(b) PROVE GuardInv'
  BY <1>10 DEF Crash, Dies
<1>11. ASSUME NEW c \in Clients, NEW k \in Kinds, Begin(c, k) PROVE GuardInv'
  BY <1>11 DEF Begin, Settled
<1>12. ASSUME NEW c \in Clients, LoadNothing(c) \/ Load(c) PROVE GuardInv'
  BY <1>12 DEF LoadNothing, Load
<1>13. ASSUME NEW c \in Clients,
              JudgeGone(c) \/ JudgeLoaded(c) \/ JudgeGuarded(c) \/ JudgeLive(c) PROVE GuardInv'
  BY <1>13 DEF JudgeGone, JudgeLoaded, JudgeGuarded, JudgeLive
<1>14. ASSUME NEW c \in Clients, Recheck(c) \/ Unlink(c) PROVE GuardInv'
  BY <1>14 DEF Recheck, Unlink
<1>15. ASSUME NEW c \in Clients, Upgrade(c) PROVE GuardInv'
  BY <1>15 DEF Upgrade
<1>16. ASSUME NEW c \in Clients, Notify(c) \/ Confirm(c) PROVE GuardInv'
  BY <1>16 DEF Notify, Confirm
<1>17. ASSUME NEW c \in Clients, DecideStale(c) \/ DecideRefuse(c) PROVE GuardInv'
  BY <1>17 DEF DecideStale, DecideRefuse
<1>18. ASSUME NEW c \in Clients, DecideKill(c) PROVE GuardInv'
  BY <1>18 DEF DecideKill
<1>19. ASSUME NEW c \in Clients, Kill(c) PROVE GuardInv'
  <2>1. CASE Alive(cpid[c])
    BY <1>19, <2>1 DEF Kill, Dies, HasBroker
  <2>2. CASE ~Alive(cpid[c])
    BY <1>19, <2>2 DEF Kill
  <2> QED
    BY <2>1, <2>2
<1>20. ForeignDamage => GuardInv'
  BY DEF ForeignDamage
<1> QED
  BY <1>1, <1>2, <1>3, <1>4, <1>5, <1>6, <1>7, <1>8, <1>9, <1>10, <1>11, <1>12, <1>13,
     <1>14, <1>15, <1>16, <1>17, <1>18, <1>19, <1>20 DEF Next, BrokerThreads, Continue

\* A guard of which the broker was told, by its start or later, holds against each
\* stop without --force that begins then, for any number of brokers, clients and
\* damages to the file (set_protection, _ensure_registered, stop_serial_broker).
THEOREM SettledGuardHolds == Spec => []GuardHolds
<1>1. Init => GuardInv
  BY DEF Init, GuardInv, GuardHolds
<1>2. GuardInv => GuardHolds
  BY DEF GuardInv
<1> QED
  BY <1>1, <1>2, GuardStep, TypeCorrect, PTL DEF Spec

-----------------------------------------------------------------------------
(* What holds of the files *)

\* The files of the trace, oldest first by their stamps, and their lines.
Chain   == rotated \cup (IF current = NoFile THEN {} ELSE {TracePath})
Text(c) == lines[FileAt(c)]

\* A process that is to write, or to read what it has opened, has it open.
Opened ==
    /\ \A p \in Procs : pc[p] \in {"write", "endwrite", "old", "new"} => handle[p] # NoFile
    /\ pc[Follower] \in {"idle", "old", "new"}
    /\ pc[Case] \in PCs \ {"prune", "old", "new"}
    /\ pc[Follower] \in {"old", "new"} => size <= Len(lines[handle[Follower]])

\* No file has more lines than were written, and each rotation leaves a line behind.
Sizes ==
    /\ \A f \in Files : Len(lines[f]) <= count
    /\ \A r \in rotated : r.stamp <= stamp
    /\ stamp <= count
    /\ current # NoFile => (lines[current] # <<>> => stamp < count)

\* On Windows a file that is open stays where it is.
HeldIsCurrent == \A p \in Procs : handle[p] # NoFile => handle[p] = current

\* No two files of the trace have a stamp or an identity in common.
Distinct == \A c, d \in Chain : c.stamp = d.stamp \/ FileAt(c) = FileAt(d) => c = d

\* The lines of a file are consecutive, ...
Consecutive == \A c \in Chain : \A i, j \in DOMAIN Text(c) : Text(c)[i] + j = Text(c)[j] + i

\* ... they come after those of the files before it, ...
Sorted ==
    \A c, d \in Chain : c.stamp < d.stamp =>
        \A i \in DOMAIN Text(c), j \in DOMAIN Text(d) : Text(c)[i] < Text(d)[j]

\* ... and the last line written is the last one of trace.jsonl.
LastLine ==
    /\ \A c \in Chain : \A i \in DOMAIN Text(c) : Text(c)[i] <= count
    /\ current # NoFile =>
          (lines[current] # <<>> => lines[current][Len(lines[current])] = count)

InOrder ==
    /\ Distinct /\ Consecutive /\ Sorted /\ LastLine
    /\ \A r \in rotated : lines[r.file] # <<>>

-----------------------------------------------------------------------------
(* What holds of the follower *)

\* What it has printed goes on in its file at its offset, ...
GoesOn ==
    /\ RunAfter(got, 0)
    /\ cursor.file \in Files /\ cursor.offset <= Len(lines[cursor.file])
    /\ \A i \in DOMAIN lines[cursor.file] :
          i > cursor.offset => lines[cursor.file][i] + cursor.offset = Len(got) + i

\* ... which is the last, ...
AtLast ==
    cursor.file = current =>
        ~hist.unseen /\ count + cursor.offset = Len(got) + Len(lines[current])

\* ... or the last but one.
AtLastButOne ==
    cursor.file # current =>
        /\ \E r \in rotated : r.file = cursor.file /\ \A q \in rotated : q.stamp <= r.stamp
        /\ current = NoFile =>
              hist.unseen /\ count + cursor.offset = Len(got) + Len(lines[cursor.file])
        /\ current # NoFile =>
              /\ \A i \in DOMAIN lines[current] :
                    lines[current][i] + cursor.offset = Len(got) + Len(lines[cursor.file]) + i
              /\ count + cursor.offset
                   = Len(got) + Len(lines[cursor.file]) + Len(lines[current])

\* A poll prints what had been written when it began.
Polls ==
    /\ pc[Follower] = "idle" =>
          hist.polled <= Len(got) /\ (cursor.file # current => hist.unseen)
    /\ pc[Follower] = "old" =>
          IF cursor.file = current
          THEN cursor.offset <= size /\ hist.polled + cursor.offset = Len(got) + size
          ELSE hist.polled + cursor.offset = Len(got) + Len(lines[cursor.file]) + size
    /\ pc[Follower] = "new" =>
          /\ cursor.file = current
          /\ cursor.offset <= size /\ hist.polled + cursor.offset = Len(got) + size
    /\ pc[Follower] \in {"old", "new"} => ~hist.unseen

FollowInv == ~hist.late => GoesOn /\ AtLast /\ AtLastButOne /\ Polls

-----------------------------------------------------------------------------
(* What holds of the case *)

Calm == ~hist.disturbed /\ ~hist.pruned

Starting  == {"open", "write"}
Recording == Starting \cup {"active", "endopen", "endwrite", "endstat", "find", "list"}
Reading   == {"cut", "read"}

\* The case began in the file c, and what is before that is in the files before c.
BeganAt(c) ==
    /\ FileAt(c) = meta.start.file /\ meta.start.offset <= Len(Text(c))
    /\ \A i \in DOMAIN Text(c) : Text(c)[i] > hist.began <=> i > meta.start.offset
    /\ \A d \in Chain : d.stamp < c.stamp => \A i \in DOMAIN Text(d) : Text(d)[i] <= hist.began
    /\ IF pc[Case] \in Starting THEN c = TracePath ELSE meta.start.offset < Len(Text(c))

\* Every line after n is in one of these files.
Covered(n, files) ==
    \A m \in 1..count : n < m => \E c \in files : \E i \in DOMAIN Text(c) : Text(c)[i] = m

Recorded ==
    pc[Case] \in Recording =>
        /\ \E c \in Chain : BeganAt(c)
        /\ Covered(hist.began, Chain)
        /\ slice = <<>>
        /\ pc[Case] = "list" => meta.start.file # current

\* The end marker is in the last file, before the offset that was taken after it.
Marked ==
    pc[Case] \in {"endstat", "find", "list"} \cup Reading =>
        /\ current # NoFile
        /\ \E i \in DOMAIN lines[current] :
              /\ lines[current][i] = hist.marked
              /\ pc[Case] # "endstat" =>
                    /\ meta.end.file = current /\ meta.end.offset <= Len(lines[current])
                    /\ i <= meta.end.offset

\* Where a file is read from.
From(s) == IF FileAt(s) = meta.start.file THEN meta.start.offset ELSE 0

\* The lines that are still to be read are those of the files that are.
Remaining ==
    pc[Case] \in Reading =>
        /\ TracePath \in segments /\ segments \subseteq Chain
        /\ hist.began + Len(slice) <= count
        /\ \A s \in segments : s # TracePath =>
              \E i \in DOMAIN Text(s) : Text(s)[i] > hist.began
        /\ Covered(hist.began + Len(slice), segments)
        /\ \A s \in segments : \A i \in DOMAIN Text(s) :
              Text(s)[i] > hist.began + Len(slice) <=> i > From(s)
        /\ \/ meta.start.offset = 0
           \/ \E s \in segments :
                 /\ FileAt(s) = meta.start.file /\ meta.start.offset <= Len(Text(s))
                 /\ \A q \in segments : s.stamp <= q.stamp
        /\ pc[Case] = "cut" => slice = <<>>

Sliced ==
    /\ hist.began <= count
    /\ Recorded /\ Marked /\ Remaining
    /\ RunAfter(slice, hist.began)
    /\ pc[Case] = "ended" => hist.marked <= hist.began + Len(slice)

CaseInv ==
    /\ pc[Case] = "idle" => Calm /\ slice = <<>>
    /\ Calm => Sliced

TypeInv == TraceTypeOK /\ Opened /\ Sizes

-----------------------------------------------------------------------------
(* Types *)

\* What an appended line changes in a sequence of lines.
LEMMA OneLineMore ==
    ASSUME NEW S, NEW s \in Seq(S), NEW x \in S
    PROVE  /\ Append(s, x) \in Seq(S) /\ Append(s, x) # <<>>
           /\ Len(Append(s, x)) = Len(s) + 1 /\ Len(s) \in Nat
           /\ DOMAIN s = 1..Len(s) /\ DOMAIN Append(s, x) = 1..(Len(s) + 1)
           /\ \A i \in 1..Len(s) : Append(s, x)[i] = s[i]
           /\ Append(s, x)[Len(s) + 1] = x
BY AppendProperties, LenProperties

\* A part of a sequence that is appended to another.
LEMMA PartAppended ==
    ASSUME NEW S, NEW s \in Seq(S), NEW t \in Seq(S), NEW o \in Nat, NEW n \in Nat, n <= Len(t)
    PROVE  /\ s \o SubSeq(t, o + 1, n) \in Seq(S)
           /\ Len(s) \in Nat /\ DOMAIN s = 1..Len(s)
           /\ \A i \in 1..Len(s) : (s \o SubSeq(t, o + 1, n))[i] = s[i]
           /\ n <= o => s \o SubSeq(t, o + 1, n) = s
           /\ o <= n =>
                /\ Len(s \o SubSeq(t, o + 1, n)) + o = Len(s) + n
                /\ \A i \in (o + 1)..n : (s \o SubSeq(t, o + 1, n))[Len(s) + i - o] = t[i]
<1> DEFINE u == SubSeq(t, o + 1, n)
<1>1. \A i \in (o + 1)..n : t[i] \in S
  BY ElementOfSeq, LenProperties
<1>2. /\ u \in Seq(S) /\ Len(u) = IF o + 1 <= n THEN n - (o + 1) + 1 ELSE 0
      /\ \A i \in 1..(n - (o + 1) + 1) : u[i] = t[o + 1 + i - 1]
  BY <1>1, SubSeqProperties
<1>3. Len(s) \in Nat /\ DOMAIN s = 1..Len(s)
  BY LenProperties
<1>4. CASE n <= o
  <2>1. u = <<>>
    BY <1>4, SubSeqEmpty
  <2>2. s \o u = s
    BY <2>1, ConcatEmptySeq
  <2> QED
    BY <1>3, <1>4, <2>2
<1>5. CASE o < n
  <2>1. Len(u) = n - o
    BY <1>2, <1>5
  <2> HIDE DEF u
  <2>2. /\ s \o u \in Seq(S) /\ Len(s \o u) = Len(s) + Len(u)
        /\ \A i \in 1..(Len(s) + Len(u)) :
              (s \o u)[i] = IF i <= Len(s) THEN s[i] ELSE u[i - Len(s)]
    BY <1>2, ConcatProperties
  <2>3. \A i \in 1..Len(s) : (s \o u)[i] = s[i]
    BY <1>3, <2>1, <2>2, <1>5
  <2>4. ASSUME NEW i \in (o + 1)..n PROVE (s \o u)[Len(s) + i - o] = t[i]
    <3>1. Len(s) + i - o \in 1..(Len(s) + Len(u)) /\ ~(Len(s) + i - o <= Len(s))
      BY <1>3, <2>1
    <3>2. i - o \in 1..(n - (o + 1) + 1) /\ o + 1 + (i - o) - 1 = i
      OBVIOUS
    <3>3. u[i - o] = t[i]
      BY <1>2, <3>2
    <3>4. Len(s) + i - o - Len(s) = i - o
      BY <1>3
    <3> QED
      BY <2>2, <3>1, <3>3, <3>4
  <2>5. Len(s \o u) + o = Len(s) + n
    BY <1>3, <2>1, <2>2
  <2> QED
    BY <1>3, <1>5, <2>2, <2>3, <2>4, <2>5 DEF u
<1> QED
  BY <1>4, <1>5


\* The processes are distinct, and a file is not NoFile.
LEMMA Names ==
    /\ Case \in Procs /\ Follower \in Procs /\ Case # Follower /\ Threads \subseteq Procs
    /\ \A t \in Threads : t # Case /\ t # Follower
    /\ NoFile \notin Files
BY ProcsDiffer, NoFileIsNone DEF Procs

\* What serial_trace_stat returns is a position.
LEMMA StatIsPosition ==
    ASSUME TypeInv
    PROVE  /\ StatCurrent \in Positions
           /\ StatCurrent.file = current
           /\ current # NoFile => StatCurrent.offset = Len(lines[current])
<1>1. CASE current = NoFile
  BY <1>1, Limits DEF TypeInv, TraceTypeOK, StatCurrent, Positions, FilesOrNoFile
<1>2. CASE current # NoFile
  <2>1. current \in Files /\ Len(lines[current]) <= count /\ count \in 0..MaxLines
    BY <1>2 DEF TypeInv, TraceTypeOK, Sizes, FilesOrNoFile
  <2>2. Len(lines[current]) \in Nat
    BY <2>1, LenProperties DEF TypeInv, TraceTypeOK, Lines
  <2>3. Len(lines[current]) \in 0..MaxLines
    BY <2>1, <2>2, Limits
  <2> QED
    BY <1>2, <2>1, <2>3 DEF StatCurrent, Positions, FilesOrNoFile
<1> QED
  BY <1>1, <1>2

\* An open keeps what is in the files, or makes an empty one the current file.
LEMMA OpenLogDoes ==
    ASSUME TypeInv, NEW p \in Procs, NEW from, NEW to, OpenLog(p, from, to)
    PROVE  /\ current' \in Files /\ lines' \in [Files -> Lines]
           /\ handle' = [handle EXCEPT ![p] = current']
           /\ pc[p] = from /\ pc' = [pc EXCEPT ![p] = to]
           /\ \/ current # NoFile /\ current' = current /\ lines' = lines
              \/ /\ current = NoFile /\ current' \notin Rotated /\ ~IsOpen(current')
                 /\ lines' = [lines EXCEPT ![current'] = <<>>]
           /\ \A f \in Files : f # current' => lines'[f] = lines[f]
           /\ current = NoFile => lines'[current'] = <<>>
<1>1. CASE current # NoFile
  BY <1>1 DEF OpenLog, Goto, TypeInv, TraceTypeOK, FilesOrNoFile
<1>2. CASE current = NoFile
  <2>1. PICK f \in FreeFiles : current' = f /\ lines' = [lines EXCEPT ![f] = <<>>]
    BY <1>2 DEF OpenLog
  <2>2. f \in Files /\ f \notin Rotated /\ ~IsOpen(f)
    BY <2>1 DEF FreeFiles
  <2>3. <<>> \in Lines
    BY EmptySeq DEF Lines
  <2> QED
    BY <1>2, <2>1, <2>2, <2>3 DEF OpenLog, Goto, TypeInv, TraceTypeOK
<1> QED
  BY <1>1, <1>2

\* A write adds the next line to the file that is open, and closes it.
LEMMA WriteLineDoes ==
    ASSUME TypeInv, NEW p \in Procs, NEW from \in {"write", "endwrite"}, NEW to,
           WriteLine(p, from, to)
    PROVE  /\ handle[p] \in Files /\ lines' \in [Files -> Lines]
           /\ handle' = [handle EXCEPT ![p] = NoFile]
           /\ pc[p] = from /\ pc' = [pc EXCEPT ![p] = to]
           /\ count < MaxLines /\ count' = count + 1 /\ count \in Nat /\ count' \in 0..MaxLines
           /\ \A f \in Files : f # handle[p] => lines'[f] = lines[f]
           /\ lines'[handle[p]] = Append(lines[handle[p]], count + 1)
           /\ lines[handle[p]] \in Seq(1..MaxLines) /\ count + 1 \in 1..MaxLines
<1>1. handle[p] \in Files /\ lines[handle[p]] \in Seq(1..MaxLines)
  BY DEF WriteLine, Goto, TypeInv, TraceTypeOK, Opened, FilesOrNoFile, Lines
<1>2. count < MaxLines /\ count \in Nat /\ count + 1 \in 1..MaxLines /\ count + 1 \in 0..MaxLines
  BY Limits DEF WriteLine, TypeInv, TraceTypeOK
<1>3. Append(lines[handle[p]], count + 1) \in Lines
  BY <1>1, <1>2, AppendProperties DEF Lines
<1>4. lines' = [lines EXCEPT ![handle[p]] = Append(lines[handle[p]], count + 1)]
  BY DEF WriteLine
<1> QED
  BY <1>1, <1>2, <1>3, <1>4 DEF WriteLine, Goto, TypeInv, TraceTypeOK

\* The files that hold no line are as good as none, whatever reads them.
LEMMA Lengths ==
    ASSUME TypeInv
    PROVE  /\ \A f \in Files : /\ lines[f] \in Seq(1..MaxLines) /\ Len(lines[f]) \in Nat
                               /\ DOMAIN lines[f] = 1..Len(lines[f])
                               /\ \A i \in DOMAIN lines[f] : lines[f][i] \in 1..MaxLines
           /\ Len(got) \in Nat /\ got \in Seq(1..MaxLines) /\ DOMAIN got = 1..Len(got)
           /\ Len(slice) \in Nat /\ slice \in Seq(1..MaxLines) /\ DOMAIN slice = 1..Len(slice)
<1>1. \A f \in Files : lines[f] \in Seq(1..MaxLines)
  BY DEF TypeInv, TraceTypeOK, Lines
<1>2. got \in Seq(1..MaxLines) /\ slice \in Seq(1..MaxLines)
  BY DEF TypeInv, TraceTypeOK, Lines
<1> QED
  BY <1>1, <1>2, LenProperties, ElementOfSeq

\* The text of a segment and the place up to which it is read.
LEMMA SegmentText ==
    ASSUME TypeInv, NEW s \in segments
    PROVE  LET there == s = TracePath \/ s \in rotated
               text  == IF there /\ FileAt(s) # NoFile THEN lines[FileAt(s)] ELSE <<>>
               upTo  == IF segments = {s} /\ meta.end.offset < Len(text) THEN meta.end.offset
                        ELSE Len(text)
           IN  /\ text \in Seq(1..MaxLines) /\ upTo \in Nat /\ upTo <= Len(text)
               /\ meta.start.offset \in Nat
<1>1. s \in Segments /\ meta.end.offset \in Nat /\ meta.start.offset \in Nat
  BY Limits DEF TypeInv, TraceTypeOK, Positions
<1>2. FileAt(s) \in FilesOrNoFile
  BY <1>1 DEF FileAt, Segments, TypeInv, TraceTypeOK
<1> DEFINE there == s = TracePath \/ s \in rotated
           text  == IF there /\ FileAt(s) # NoFile THEN lines[FileAt(s)] ELSE <<>>
<1>3. text \in Seq(1..MaxLines)
  BY <1>2, Lengths, EmptySeq DEF FilesOrNoFile
<1>4. Len(text) \in Nat
  BY <1>3, LenProperties
<1> QED
  BY <1>1, <1>3, <1>4

\* The types hold at first.
LEMMA TraceTypeInit == TraceInit => TypeInv
<1> SUFFICES ASSUME TraceInit PROVE TypeInv
  OBVIOUS
<1>1. <<>> \in Lines /\ Len(<<>>) = 0 /\ 0 \in 0..MaxLines /\ 0 \in 0..MaxLines+1
  BY EmptySeq, Limits DEF Lines
<1>2. TraceTypeOK
  BY <1>1 DEF TraceInit, TraceTypeOK, Positions, Nowhere, FilesOrNoFile, PCs
<1>3. Opened
  BY Names DEF TraceInit, Opened, PCs
<1>4. Sizes
  BY <1>1, Limits DEF TraceInit, Sizes
<1> QED
  BY <1>2, <1>3, <1>4 DEF TypeInv

\* What only moves one process to another of its places.
LEMMA Moves ==
    ASSUME TypeInv, NEW p \in Procs, NEW from, NEW to \in PCs, Goto(p, from, to),
           to \notin {"write", "endwrite", "old", "new"},
           p = Case => to # "prune", p = Follower => to = "idle"
    PROVE  /\ pc' \in [Procs -> PCs]
           /\ handle' = handle /\ UNCHANGED <<lines, follower>> => Opened'
<1>1. pc' \in [Procs -> PCs] /\ pc[p] = from /\ pc' = [pc EXCEPT ![p] = to]
  BY DEF Goto, TypeInv, TraceTypeOK
<1>2. \A q \in Procs : q # p => pc'[q] = pc[q]
  BY <1>1 DEF TypeInv, TraceTypeOK
<1>3. pc'[p] = to
  BY <1>1 DEF TypeInv, TraceTypeOK
<1> QED
  BY <1>1, <1>2, <1>3, Names DEF TypeInv, Opened, follower

\* A rotation keeps the types.
LEMMA RotationTypes ==
    ASSUME TypeInv, NEW t \in Threads,
           Rename(t) \/ RenameRefused(t) \/ NoRotation(t) \/ Prune(t)
    PROVE  TypeInv'
<1> USE DEF TypeInv
<1>1. CASE Rename(t)
  <2>1. /\ current \in Files /\ Len(lines[current]) >= MaxSize
        /\ pc[t] = "idle" /\ Goto(t, "idle", "prune")
    BY <1>1 DEF Rename, Renamed, TooLong, Goto, TraceTypeOK, FilesOrNoFile
  <2>2. Len(<<>>) = 0
    BY EmptySeq
  <2>3. lines[current] # <<>>
    BY <2>1, <2>2, Limits
  <2>4. stamp < count
    BY <2>1, <2>3, Names DEF Sizes
  <2>5. stamp' = stamp + 1 /\ stamp' \in 0..MaxLines /\ stamp' <= count /\ stamp \in Nat
    BY <1>1, <2>4, Limits DEF Rename, Renamed, TraceTypeOK
  <2>6. rotated' = rotated \cup {[file |-> current, stamp |-> stamp']}
    BY <1>1, <2>5 DEF Rename
  <2>7. hist' \in [began : 0..MaxLines, marked : 0..MaxLines, disturbed : BOOLEAN,
                   pruned : BOOLEAN, unseen : BOOLEAN, late : BOOLEAN, polled : 0..MaxLines]
    BY <1>1, Names DEF Rename, Renamed, TraceTypeOK, CaseRuns
  <2>8. pc' \in [Procs -> PCs] /\ Opened'
    BY <1>1, <2>1, Names, Moves DEF Rename, Renamed, PCs, follower
  <2>9. current' = NoFile /\ UNCHANGED <<lines, count, refused, handle, case, follower>>
    BY <1>1 DEF Rename, Renamed
  <2>10. TraceTypeOK'
    <3>1. rotated' \subseteq [file : Files, stamp : 0..MaxLines]
      BY <2>1, <2>5, <2>6 DEF TraceTypeOK
    <3> QED
      BY <3>1, <2>5, <2>7, <2>8, <2>9 DEF TraceTypeOK, FilesOrNoFile, case, follower
  <2>11. Sizes'
    <3>1. \A r \in rotated : r.stamp \in Nat /\ r.stamp <= stamp
      BY Limits DEF Sizes, TraceTypeOK
    <3>2. \A r \in rotated' : r.stamp <= stamp'
      BY <3>1, <2>5, <2>6
    <3> QED
      BY <3>2, <2>5, <2>9 DEF Sizes
  <2> QED
    BY <2>8, <2>10, <2>11
<1>2. CASE RenameRefused(t) \/ NoRotation(t)
  <2>1. /\ Goto(t, "idle", "open") /\ refused' \in BOOLEAN
        /\ UNCHANGED <<lines, current, rotated, count, stamp, handle, case, follower, hist>>
    BY <1>2 DEF RenameRefused, NoRotation, log, TraceTypeOK
  <2>2. pc' \in [Procs -> PCs] /\ Opened'
    BY <2>1, Names, Moves DEF PCs, follower
  <2>3. TraceTypeOK'
    BY <2>1, <2>2 DEF TraceTypeOK, case, follower
  <2>4. Sizes'
    BY <2>1 DEF Sizes
  <2> QED
    BY <2>2, <2>3, <2>4
<1>3. CASE Prune(t)
  <2>1. /\ Goto(t, "prune", "open") /\ rotated' \subseteq rotated
        /\ UNCHANGED <<lines, current, count, stamp, refused, handle, case, follower>>
    BY <1>3 DEF Prune
  <2>2. hist' \in [began : 0..MaxLines, marked : 0..MaxLines, disturbed : BOOLEAN,
                   pruned : BOOLEAN, unseen : BOOLEAN, late : BOOLEAN, polled : 0..MaxLines]
    BY <1>3 DEF Prune, TraceTypeOK
  <2>3. pc' \in [Procs -> PCs] /\ Opened'
    BY <2>1, Names, Moves DEF PCs, follower
  <2>4. TraceTypeOK'
    BY <2>1, <2>2, <2>3 DEF TraceTypeOK, case, follower
  <2>5. Sizes'
    BY <2>1 DEF Sizes
  <2> QED
    BY <2>3, <2>4, <2>5
<1> QED
  BY <1>1, <1>2, <1>3

\* Opening the trace keeps the types.
LEMMA OpenTypes ==
    ASSUME TypeInv, NEW p \in Procs, p # Follower, NEW from, NEW to \in {"write", "endwrite"},
           OpenLog(p, from, to), UNCHANGED hist
    PROVE  TypeInv'
<1>1. /\ current' \in Files /\ lines' \in [Files -> Lines]
      /\ handle' = [handle EXCEPT ![p] = current']
      /\ pc[p] = from /\ pc' = [pc EXCEPT ![p] = to]
      /\ current # NoFile => current' = current /\ lines' = lines
      /\ current = NoFile => ~IsOpen(current') /\ lines'[current'] = <<>>
      /\ \A f \in Files : f # current' => lines'[f] = lines[f]
  BY OpenLogDoes
<1>2. UNCHANGED <<rotated, count, stamp, refused, case, follower, hist>>
  BY DEF OpenLog
<1>3. TraceTypeOK'
  <2>1. pc' \in [Procs -> PCs] /\ handle' \in [Procs -> FilesOrNoFile] /\ current' \in FilesOrNoFile
    BY <1>1 DEF TypeInv, TraceTypeOK, PCs, FilesOrNoFile
  <2> QED
    BY <1>1, <1>2, <2>1 DEF TypeInv, TraceTypeOK, case, follower
<1>4. Len(<<>>) = 0
  BY EmptySeq
<1>5. Opened'
  <2>1. \A q \in Procs : q # p => pc'[q] = pc[q] /\ handle'[q] = handle[q]
    BY <1>1 DEF TypeInv, TraceTypeOK
  <2>2. pc'[p] = to /\ handle'[p] \in Files
    BY <1>1 DEF TypeInv, TraceTypeOK
  <2>3. \A q \in Procs : pc'[q] \in {"write", "endwrite", "old", "new"} => handle'[q] # NoFile
    BY <2>1, <2>2, Names DEF TypeInv, Opened
  <2>4. pc'[Case] \in PCs \ {"prune", "old", "new"} /\ pc'[Follower] = pc[Follower]
    BY <2>1, <2>2, Names DEF TypeInv, Opened, PCs
  <2>5. ASSUME pc'[Follower] \in {"old", "new"} PROVE size' <= Len(lines'[handle'[Follower]])
    <3>1. handle'[Follower] = handle[Follower] /\ size' = size /\ size <= Len(lines[handle[Follower]])
      BY <1>2, <2>1, <2>4, <2>5, Names DEF TypeInv, Opened, follower
    <3>2. handle[Follower] \in Files
      BY <2>4, <2>5, Names DEF TypeInv, Opened, TraceTypeOK, FilesOrNoFile
    <3>3. lines'[handle[Follower]] = lines[handle[Follower]]
      BY <1>1, <3>2, Names DEF IsOpen
    <3> QED
      BY <3>1, <3>3
  <2> QED
    BY <2>3, <2>4, <2>5 DEF TypeInv, Opened
<1>6. Sizes'
  <2>1. \A f \in Files : Len(lines'[f]) <= count'
    <3> TAKE f \in Files
    <3>1. Len(lines[f]) <= count /\ count \in Nat
      BY Limits DEF TypeInv, Sizes, TraceTypeOK
    <3> QED
      BY <3>1, <1>1, <1>2, <1>4
  <2>2. current' # NoFile => (lines'[current'] # <<>> => stamp' < count')
    BY <1>1, <1>2 DEF TypeInv, Sizes
  <2> QED
    BY <1>2, <2>1, <2>2 DEF TypeInv, Sizes
<1> QED
  BY <1>3, <1>5, <1>6 DEF TypeInv

\* Writing keeps the types.
LEMMA WriteTypes ==
    ASSUME TypeInv, NEW p \in Procs, p # Follower,
           NEW from \in {"write", "endwrite"}, NEW to \in {"idle", "active", "endstat"},
           WriteLine(p, from, to),
           hist' \in [began : 0..MaxLines, marked : 0..MaxLines, disturbed : BOOLEAN,
                      pruned : BOOLEAN, unseen : BOOLEAN, late : BOOLEAN, polled : 0..MaxLines]
    PROVE  TypeInv'
<1>1. /\ handle[p] \in Files /\ lines' \in [Files -> Lines]
      /\ handle' = [handle EXCEPT ![p] = NoFile]
      /\ pc[p] = from /\ pc' = [pc EXCEPT ![p] = to]
      /\ count' = count + 1 /\ count \in Nat /\ count' \in 0..MaxLines
      /\ \A f \in Files : f # handle[p] => lines'[f] = lines[f]
      /\ lines'[handle[p]] = Append(lines[handle[p]], count + 1)
      /\ lines[handle[p]] \in Seq(1..MaxLines) /\ count + 1 \in 1..MaxLines
  BY WriteLineDoes
<1>2. UNCHANGED <<current, rotated, stamp, refused, case, follower>>
  BY DEF WriteLine
<1>3. TraceTypeOK'
  <2>1. pc' \in [Procs -> PCs] /\ handle' \in [Procs -> FilesOrNoFile]
    BY <1>1 DEF TypeInv, TraceTypeOK, PCs, FilesOrNoFile
  <2> QED
    BY <1>1, <1>2, <2>1 DEF TypeInv, TraceTypeOK, case, follower
<1>4. \A f \in Files : Len(lines[f]) \in Nat /\ Len(lines'[f]) \in {Len(lines[f]), Len(lines[f]) + 1}
  BY <1>1, OneLineMore, Lengths, SMTT(30)
<1>5. Opened'
  <2>1. \A q \in Procs : q # p => pc'[q] = pc[q] /\ handle'[q] = handle[q]
    BY <1>1 DEF TypeInv, TraceTypeOK
  <2>2. pc'[p] = to
    BY <1>1 DEF TypeInv, TraceTypeOK
  <2>3. \A q \in Procs : pc'[q] \in {"write", "endwrite", "old", "new"} => handle'[q] # NoFile
    BY <2>1, <2>2, Names DEF TypeInv, Opened
  <2>4. pc'[Case] \in PCs \ {"prune", "old", "new"} /\ pc'[Follower] = pc[Follower]
    BY <2>1, <2>2, Names DEF TypeInv, Opened, PCs
  <2>5. ASSUME pc'[Follower] \in {"old", "new"} PROVE size' <= Len(lines'[handle'[Follower]])
    <3>1. handle'[Follower] = handle[Follower] /\ size' = size /\ size <= Len(lines[handle[Follower]])
      BY <1>2, <2>1, <2>4, <2>5, Names DEF TypeInv, Opened, follower
    <3>2. handle[Follower] \in Files /\ size \in Nat
      BY <2>4, <2>5, Names, Limits DEF TypeInv, Opened, TraceTypeOK, FilesOrNoFile
    <3> QED
      BY <3>1, <3>2, <1>4
  <2> QED
    BY <2>3, <2>4, <2>5 DEF TypeInv, Opened
<1>6. Sizes'
  <2>1. stamp \in Nat /\ stamp <= count
    BY Limits DEF TypeInv, Sizes, TraceTypeOK
  <2>2. \A f \in Files : Len(lines[f]) <= count
    BY DEF TypeInv, Sizes
  <2>3. \A f \in Files : Len(lines'[f]) <= count'
    BY <1>1, <1>4, <2>2
  <2> QED
    BY <1>1, <1>2, <2>1, <2>3 DEF TypeInv, Sizes
<1> QED
  BY <1>3, <1>5, <1>6 DEF TypeInv

\* The steps of the case other than the open and the write of a marker.
CaseMoves == \/ BeginCase \/ EndCase \/ EndStat \/ FindCurrent \/ FindOther \/ List \/ Cut

\* The steps of a case keep the types.
LEMMA CaseTypes == ASSUME TypeInv, CaseMoves \/ Read PROVE TypeInv'
<1> USE DEF TypeInv
<1>1. TracePath \in Segments /\ rotated \subseteq Segments /\ Case \in Procs /\ Case # Follower
  BY Names, Limits DEF TraceTypeOK, TracePath, Segments, FilesOrNoFile
<1>2. CASE BeginCase
  <2>1. /\ Goto(Case, "idle", "open")
        /\ UNCHANGED <<log, handle, segments, slice, follower>>
        /\ hist' = [hist EXCEPT !.began = count, !.disturbed = (current = NoFile)]
    BY <1>2 DEF BeginCase
  <2>2. PICK since \in {stamp, stamp + 1} :
            meta' = [start |-> StatCurrent, end |-> Nowhere, since |-> since]
    BY <1>2 DEF BeginCase
  <2>3. since \in 0..MaxLines+1 /\ Nowhere \in Positions
    BY Limits DEF TraceTypeOK, Nowhere, Positions, FilesOrNoFile
  <2>4. meta' \in [start : Positions, end : Positions, since : 0..MaxLines+1]
    BY <2>2, <2>3, StatIsPosition
  <2>5. hist' \in [began : 0..MaxLines, marked : 0..MaxLines, disturbed : BOOLEAN,
                   pruned : BOOLEAN, unseen : BOOLEAN, late : BOOLEAN, polled : 0..MaxLines]
    BY <2>1 DEF TraceTypeOK
  <2>6. pc' \in [Procs -> PCs] /\ Opened'
    BY <2>1, <1>1, Moves DEF PCs, log, follower
  <2>7. TraceTypeOK'
    BY <2>1, <2>4, <2>5, <2>6 DEF TraceTypeOK, log, follower
  <2> QED
    BY <2>1, <2>6, <2>7 DEF Sizes, log
<1>3. CASE EndStat
  <2>1. /\ Goto(Case, "endstat", "find") /\ meta' = [meta EXCEPT !.end = StatCurrent]
        /\ UNCHANGED <<log, handle, segments, slice, follower, hist>>
    BY <1>3 DEF EndStat
  <2>2. meta' \in [start : Positions, end : Positions, since : 0..MaxLines+1]
    BY <2>1, StatIsPosition DEF TraceTypeOK
  <2>3. pc' \in [Procs -> PCs] /\ Opened'
    BY <2>1, <1>1, Moves DEF PCs, log, follower
  <2>4. TraceTypeOK'
    BY <2>1, <2>2, <2>3 DEF TraceTypeOK, log, follower
  <2> QED
    BY <2>1, <2>3, <2>4 DEF Sizes, log
<1>4. CASE EndCase \/ FindCurrent \/ FindOther \/ List \/ Cut
  <2>1. /\ \/ Goto(Case, "active", "endopen") \/ Goto(Case, "find", "cut")
           \/ Goto(Case, "find", "list") \/ Goto(Case, "list", "cut") \/ Goto(Case, "cut", "read")
        /\ UNCHANGED <<log, handle, meta, slice, follower, hist>>
    BY <1>4 DEF EndCase, FindCurrent, FindOther, List, Cut, case
  <2>2. segments' \subseteq Segments
    <3>1. CASE EndCase \/ FindOther
      BY <3>1 DEF EndCase, FindOther, case, TraceTypeOK
    <3>2. CASE FindCurrent
      BY <3>2, <1>1 DEF FindCurrent
    <3>3. CASE List
      BY <3>3, <1>1 DEF List
    <3>4. CASE Cut
      BY <3>4 DEF Cut, TraceTypeOK
    <3> QED
      BY <1>4, <3>1, <3>2, <3>3, <3>4
  <2>3. pc' \in [Procs -> PCs] /\ Opened'
    BY <2>1, <1>1, Moves DEF PCs, log, follower
  <2>4. TraceTypeOK'
    BY <2>1, <2>2, <2>3 DEF TraceTypeOK, log, follower
  <2> QED
    BY <2>1, <2>3, <2>4 DEF Sizes, log
<1>5. ASSUME NEW s \in segments, ReadSegment(s) PROVE TypeInv'
  <2> DEFINE there == s = TracePath \/ s \in rotated
             text  == IF there /\ FileAt(s) # NoFile THEN lines[FileAt(s)] ELSE <<>>
             upTo  == IF segments = {s} /\ meta.end.offset < Len(text) THEN meta.end.offset
                      ELSE Len(text)
             to    == IF segments = {s} THEN "ended" ELSE "read"
  <2>1. /\ pc[Case] = "read" /\ pc' = [pc EXCEPT ![Case] = to]
        /\ slice' = slice \o SubSeq(text, meta.start.offset + 1, upTo)
        /\ meta' = [meta EXCEPT !.start.offset = 0] /\ segments' = segments \ {s}
        /\ UNCHANGED <<log, handle, follower, hist>>
    BY <1>5 DEF ReadSegment
  <2>2. text \in Seq(1..MaxLines) /\ upTo \in Nat /\ upTo <= Len(text) /\ meta.start.offset \in Nat
    BY SegmentText
  <2>3. to \in PCs /\ to \notin {"write", "endwrite", "old", "new", "prune"}
    BY DEF PCs
  <2> HIDE DEF text, upTo, to
  <2>4. slice' \in Lines
    <3>1. slice \in Seq(1..MaxLines)
      BY Lengths
    <3>2. slice \o SubSeq(text, meta.start.offset + 1, upTo) \in Seq(1..MaxLines)
      BY <2>2, <3>1, PartAppended
    <3> QED
      BY <2>1, <3>2 DEF Lines
  <2>5. meta' \in [start : Positions, end : Positions, since : 0..MaxLines+1]
    <3>1. 0 \in 0..MaxLines
      BY Limits
    <3>2. [meta.start EXCEPT !.offset = 0] \in Positions
      BY <3>1 DEF TraceTypeOK, Positions
    <3>3. meta' = [meta EXCEPT !.start = [meta.start EXCEPT !.offset = 0]]
      BY <2>1
    <3> QED
      BY <3>2, <3>3 DEF TraceTypeOK
  <2>6. pc' \in [Procs -> PCs] /\ Opened'
    BY <2>1, <2>3, <1>1, Moves DEF Goto, log, follower
  <2>7. TraceTypeOK'
    BY <2>1, <2>4, <2>5, <2>6 DEF TraceTypeOK, log, follower
  <2> QED
    BY <2>1, <2>6, <2>7 DEF Sizes, log
<1> QED
  BY <1>2, <1>3, <1>4, <1>5 DEF CaseMoves, Read

\* A poll of a follower keeps the types.
LEMMA PollTypes == ASSUME TypeInv, Poll PROVE TypeInv'
<1> USE DEF TypeInv
<1>1. Follower \in Procs /\ Follower # Case
  BY Names
<1>2. CASE PollOpen
  <2>1. /\ pc[Follower] = "idle" /\ pc' = [pc EXCEPT ![Follower] = "old"] /\ current \in Files
        /\ handle' = [handle EXCEPT ![Follower] = current] /\ size' = Len(lines[current])
        /\ hist' = [hist EXCEPT !.unseen = FALSE, !.polled = count]
        /\ UNCHANGED <<log, case, cursor, got>>
    BY <1>2 DEF PollOpen, Goto, TraceTypeOK, FilesOrNoFile
  <2>2. size' \in 0..MaxLines
    BY <2>1, Lengths, Limits DEF TraceTypeOK, Sizes
  <2>3. hist' \in [began : 0..MaxLines, marked : 0..MaxLines, disturbed : BOOLEAN,
                   pruned : BOOLEAN, unseen : BOOLEAN, late : BOOLEAN, polled : 0..MaxLines]
    BY <2>1 DEF TraceTypeOK
  <2>4. pc' \in [Procs -> PCs] /\ handle' \in [Procs -> FilesOrNoFile]
    BY <2>1 DEF TraceTypeOK, PCs, FilesOrNoFile
  <2>5. TraceTypeOK'
    BY <2>1, <2>2, <2>3, <2>4 DEF TraceTypeOK, log, case
  <2>6. /\ pc'[Follower] = "old" /\ handle'[Follower] = current
        /\ \A q \in Procs : q # Follower => pc'[q] = pc[q] /\ handle'[q] = handle[q]
    BY <2>1, <1>1 DEF TraceTypeOK
  <2>7. size' <= Len(lines'[handle'[Follower]])
    BY <2>1, <2>2, <2>6, Limits DEF log
  <2>8. Opened'
    BY <2>1, <2>6, <2>7, Names DEF Opened
  <2> QED
    BY <2>1, <2>5, <2>8 DEF Sizes, log
<1>3. CASE PollOld
  <2>1. /\ pc[Follower] = "old" /\ pc' = [pc EXCEPT ![Follower] = "new"]
        /\ UNCHANGED <<log, handle, case, size, hist>>
    BY <1>3 DEF PollOld, Goto
  <2>2. handle[Follower] \in Files /\ 0 \in 0..MaxLines
    BY <2>1, <1>1, Limits DEF Opened, TraceTypeOK, FilesOrNoFile
  <2>3. cursor' \in Positions
    BY <1>3, <2>2, SMTT(60) DEF PollOld, TraceTypeOK, Positions, FilesOrNoFile
  <2>4. got' \in Lines
    <3>1. ASSUME cursor.file \in Rotated
          PROVE  got \o SubSeq(lines[cursor.file], cursor.offset + 1, Len(lines[cursor.file])) \in Lines
      <4>1. cursor.file \in Files /\ cursor.offset \in Nat
        BY <3>1, Limits DEF Rotated, TraceTypeOK, Positions
      <4>2. Len(lines[cursor.file]) \in Nat /\ lines[cursor.file] \in Seq(1..MaxLines)
        BY <4>1, Lengths
      <4> QED
        BY <4>1, <4>2, Lengths, PartAppended DEF Lines
    <3>2. got \in Lines
      BY DEF TraceTypeOK
    <3> QED
      BY <1>3, <3>1, <3>2 DEF PollOld
  <2>5. pc' \in [Procs -> PCs]
    BY <2>1 DEF TraceTypeOK, PCs
  <2>6. TraceTypeOK'
    BY <2>1, <2>3, <2>4, <2>5 DEF TraceTypeOK, log, case
  <2>7. pc'[Follower] = "new" /\ \A q \in Procs : q # Follower => pc'[q] = pc[q]
    BY <2>1, <1>1 DEF TraceTypeOK
  <2>8. Opened'
    BY <2>1, <2>2, <2>7, Names DEF Opened, log
  <2> QED
    BY <2>1, <2>6, <2>8 DEF Sizes, log
<1>4. CASE PollNew
  <2>1. /\ pc[Follower] = "new" /\ pc' = [pc EXCEPT ![Follower] = "idle"]
        /\ got' = got \o SubSeq(lines[handle[Follower]], cursor.offset + 1, size)
        /\ cursor' = [cursor EXCEPT !.offset = size]
        /\ handle' = [handle EXCEPT ![Follower] = NoFile] /\ size' = 0
        /\ UNCHANGED <<log, case, hist>>
    BY <1>4 DEF PollNew, Goto
  <2>2. handle[Follower] \in Files /\ size <= Len(lines[handle[Follower]]) /\ size \in Nat
        /\ cursor.offset \in Nat /\ 0 \in 0..MaxLines
    BY <2>1, <1>1, Limits DEF Opened, TraceTypeOK, FilesOrNoFile, Positions
  <2>3. got' \in Lines
    BY <2>1, <2>2, Lengths, PartAppended, SMTT(60) DEF Lines
  <2>4. cursor' \in Positions
    BY <2>1 DEF TraceTypeOK, Positions
  <2>5. pc' \in [Procs -> PCs] /\ handle' \in [Procs -> FilesOrNoFile]
    BY <2>1 DEF TraceTypeOK, PCs, FilesOrNoFile
  <2>6. TraceTypeOK'
    BY <2>1, <2>2, <2>3, <2>4, <2>5 DEF TraceTypeOK, log, case
  <2>7. pc'[Follower] = "idle"
        /\ \A q \in Procs : q # Follower => pc'[q] = pc[q] /\ handle'[q] = handle[q]
    BY <2>1, <1>1 DEF TraceTypeOK
  <2>8. Opened'
    BY <2>7, Names DEF Opened
  <2> QED
    BY <2>1, <2>6, <2>8 DEF Sizes, log
<1> QED
  BY <1>2, <1>3, <1>4 DEF Poll

\* Each step keeps the types.
LEMMA TraceTypeStep == TypeInv /\ [TraceNext]_traceVars => TypeInv'
<1> SUFFICES ASSUME TypeInv, [TraceNext]_traceVars PROVE TypeInv'
  OBVIOUS
<1>1. hist \in [began : 0..MaxLines, marked : 0..MaxLines, disturbed : BOOLEAN,
                pruned : BOOLEAN, unseen : BOOLEAN, late : BOOLEAN, polled : 0..MaxLines]
  BY DEF TypeInv, TraceTypeOK
<1>2. ASSUME NEW t \in Threads,
             \/ Rename(t) \/ RenameRefused(t) \/ NoRotation(t)
             \/ Prune(t) \/ OpenEntry(t) \/ WriteEntry(t)
      PROVE  TypeInv'
  <2>1. t \in Procs /\ t # Follower /\ t # Case
    BY Names
  <2>2. CASE OpenEntry(t)
    BY <2>1, <2>2, OpenTypes DEF OpenEntry
  <2>3. CASE WriteEntry(t)
    BY <2>1, <2>3, <1>1, WriteTypes DEF WriteEntry
  <2> QED
    BY <1>2, <2>2, <2>3, RotationTypes
<1>3. CASE RetryTime
  <2>1. /\ refused' \in BOOLEAN
        /\ UNCHANGED <<lines, current, rotated, count, stamp, pc, handle, case, follower, hist>>
    BY <1>3 DEF RetryTime
  <2> QED
    BY <2>1 DEF TypeInv, TraceTypeOK, Opened, Sizes, case, follower
<1>4. CASE BeginOpens \/ EndOpens
  BY <1>4, OpenTypes, Names DEF BeginOpens, EndOpens
<1>5. CASE BeginMarks
  BY <1>5, <1>1, WriteTypes, Names DEF BeginMarks
<1>6. CASE EndMarks
  <2>1. count + 1 \in 0..MaxLines
    BY <1>6, Limits DEF EndMarks, WriteLine, TypeInv, TraceTypeOK
  <2>2. hist' \in [began : 0..MaxLines, marked : 0..MaxLines, disturbed : BOOLEAN,
                   pruned : BOOLEAN, unseen : BOOLEAN, late : BOOLEAN, polled : 0..MaxLines]
    BY <1>6, <1>1, <2>1 DEF EndMarks
  <2> QED
    BY <1>6, <2>2, WriteTypes, Names DEF EndMarks
<1>7. CASE CaseMoves \/ Read
  BY <1>7, CaseTypes
<1>8. CASE Poll
  BY <1>8, PollTypes
<1>9. CASE UNCHANGED traceVars
  BY <1>9 DEF traceVars, TypeInv, TraceTypeOK, Opened, Sizes
<1> QED
  BY <1>2, <1>3, <1>4, <1>5, <1>6, <1>7, <1>8, <1>9 DEF TraceNext, CaseMoves

\* The types hold always.
LEMMA TraceTypeInvariant == TraceSpec => []TypeInv
BY TraceTypeInit, TraceTypeStep, PTL DEF TraceSpec

\* Type correctness of the trace, its followers and its cases, on any system.
THEOREM TraceTypes == TraceSpec => []TraceTypeOK
<1>1. TypeInv => TraceTypeOK
  BY DEF TypeInv
<1> QED
  BY <1>1, TraceTypeInvariant, PTL

-----------------------------------------------------------------------------
(* The files, on Windows *)

\* What a member of the chain is.
LEMMA ChainMembers ==
    ASSUME TypeInv
    PROVE  /\ \A c \in Chain : /\ FileAt(c) \in Files /\ c.stamp \in 0..(MaxLines + 1)
                               /\ Text(c) \in Seq(1..MaxLines) /\ Len(Text(c)) \in Nat
                               /\ DOMAIN Text(c) = 1..Len(Text(c))
                               /\ \A i \in DOMAIN Text(c) : Text(c)[i] \in 1..MaxLines
           /\ \A r \in rotated : /\ r \in Chain /\ r # TracePath /\ FileAt(r) = r.file
                                 /\ r.stamp \in 0..MaxLines /\ r.stamp < TracePath.stamp
                                 /\ r.stamp <= stamp
           /\ \A c \in Chain : c \in rotated \/ (c = TracePath /\ current # NoFile)
           /\ current # NoFile => TracePath \in Chain /\ current \in Files
           /\ FileAt(TracePath) = current /\ Text(TracePath) = lines[current]
           /\ TracePath.stamp = MaxLines + 1 /\ MaxLines \in Nat /\ count \in Nat /\ stamp \in Nat
<1>1. \A r \in rotated : r.file \in Files /\ r.stamp \in 0..MaxLines /\ r.stamp <= stamp
  BY DEF TypeInv, TraceTypeOK, Sizes
<1>2. MaxLines \in Nat /\ count \in Nat /\ stamp \in Nat /\ current \in FilesOrNoFile
  BY Limits DEF TypeInv, TraceTypeOK
<1>3. \A r \in rotated : r # TracePath /\ FileAt(r) = r.file /\ r.stamp < TracePath.stamp
  BY <1>1, <1>2, Names DEF TracePath, FileAt
<1>4. \A c \in Chain : FileAt(c) \in Files /\ c.stamp \in 0..(MaxLines + 1)
  BY <1>1, <1>2, <1>3 DEF Chain, TracePath, FileAt, FilesOrNoFile
<1>5. \A c \in Chain : /\ Text(c) \in Seq(1..MaxLines) /\ Len(Text(c)) \in Nat
                       /\ DOMAIN Text(c) = 1..Len(Text(c))
                       /\ \A i \in DOMAIN Text(c) : Text(c)[i] \in 1..MaxLines
  BY <1>4, Lengths DEF Text
<1> QED
  BY <1>1, <1>2, <1>3, <1>4, <1>5 DEF Chain, Text, FileAt, TracePath, FilesOrNoFile

\* The steps that change no file.
Still == UNCHANGED <<lines, current, rotated, count>>

\* The steps that leave the files alone.
LEMMA StillSteps == RetryTime \/ CaseMoves \/ Read \/ Poll \/ UNCHANGED traceVars => Still
BY DEF Still, RetryTime, CaseMoves, Read, ReadSegment, Poll, BeginCase, EndCase, EndStat,
       FindCurrent, FindOther, List, Cut, PollOpen, PollOld, PollNew, log, traceVars

\* A rename keeps the order of the segments.
LEMMA RenameOrder ==
    ASSUME TypeInv, TypeInv', InOrder, NEW t \in Threads, Rename(t)
    PROVE  /\ InOrder'
           /\ current \in Files /\ lines[current] # <<>> /\ current' = NoFile
           /\ rotated' = rotated \cup {[file |-> current, stamp |-> stamp + 1]}
<1> DEFINE r0 == [file |-> current, stamp |-> stamp + 1]
<1>1. /\ current \in Files /\ Len(lines[current]) >= MaxSize
      /\ rotated' = rotated \cup {r0} /\ current' = NoFile /\ stamp' = stamp + 1
      /\ UNCHANGED <<lines, count>>
  BY DEF Rename, Renamed, TooLong, TypeInv, TraceTypeOK, FilesOrNoFile
<1>2. lines[current] # <<>>
  <2>1. Len(<<>>) = 0
    BY EmptySeq
  <2> QED
    BY <1>1, <2>1, Limits
<1>3. Chain' = rotated \cup {r0} /\ Chain = rotated \cup {TracePath}
  BY <1>1, Names DEF Chain
<1>4. r0.file = current /\ r0.stamp = stamp + 1 /\ r0 # TracePath
  BY <1>1, Names DEF TracePath
<1> DEFINE m(c) == IF c = r0 THEN TracePath ELSE c
<1>5. \A c \in Chain' : m(c) \in Chain /\ FileAt(c)' = FileAt(m(c)) /\ Text(c)' = Text(m(c))
  BY <1>1, <1>3, <1>4, ChainMembers DEF FileAt, Text
<1>6. \A c \in rotated : c.stamp \in Nat /\ c.stamp <= stamp /\ c.stamp < TracePath.stamp /\ c # TracePath
  BY ChainMembers
<1>7. stamp \in Nat /\ TracePath.stamp \in Nat
  BY ChainMembers
<1>8. \A c, d \in Chain' : /\ c.stamp < d.stamp => m(c).stamp < m(d).stamp
                           /\ c.stamp = d.stamp => m(c).stamp = m(d).stamp
                           /\ m(c) = m(d) => c = d
  BY <1>3, <1>4, <1>6, <1>7
<1> HIDE DEF m, r0
<1>9. Distinct' /\ Consecutive' /\ Sorted'
  BY <1>5, <1>8 DEF InOrder, Distinct, Consecutive, Sorted
<1>10. LastLine'
  BY <1>1, <1>5 DEF InOrder, LastLine
<1>11. \A r \in rotated' : lines'[r.file] # <<>>
  BY <1>1, <1>2, <1>4 DEF InOrder
<1> QED
  BY <1>1, <1>2, <1>9, <1>10, <1>11 DEF InOrder, r0

\* Removing a segment keeps their order.
LEMMA PruneOrder ==
    ASSUME TypeInv, InOrder, NEW t \in Threads, Prune(t)
    PROVE  InOrder' /\ Chain' \subseteq Chain /\ rotated' \subseteq rotated
           /\ \A c : Text(c)' = Text(c) /\ FileAt(c)' = FileAt(c)
<1>1. rotated' \subseteq rotated /\ UNCHANGED <<lines, current, count>>
  BY DEF Prune
<1>2. Chain' \subseteq Chain /\ \A c : FileAt(c)' = FileAt(c) /\ Text(c)' = Text(c)
  BY <1>1 DEF Chain, FileAt, Text
<1>3. Distinct' /\ Consecutive' /\ Sorted'
  BY <1>2 DEF InOrder, Distinct, Consecutive, Sorted
<1>4. LastLine'
  BY <1>1, <1>2 DEF InOrder, LastLine
<1> QED
  BY <1>1, <1>2, <1>3, <1>4 DEF InOrder

\* An open that makes the file trace.jsonl: it is new and has no line.
LEMMA CreateOrder ==
    ASSUME TypeInv, TypeInv', InOrder, NEW p \in Procs, NEW from, NEW to,
           OpenLog(p, from, to), current = NoFile
    PROVE  /\ InOrder'
           /\ Chain = rotated /\ rotated' = rotated /\ Chain' = rotated \cup {TracePath}
           /\ current' \in Files /\ lines'[current'] = <<>> /\ count' = count
           /\ \A c \in rotated : /\ FileAt(c)' = FileAt(c) /\ Text(c)' = Text(c)
                                 /\ FileAt(c) # current'
           /\ Text(TracePath)' = <<>> /\ DOMAIN Text(TracePath)' = {}
<1>1. /\ current' \in Files /\ current' \notin Rotated /\ lines'[current'] = <<>>
      /\ \A f \in Files : f # current' => lines'[f] = lines[f]
      /\ rotated' = rotated /\ count' = count
  BY OpenLogDoes DEF OpenLog
<1>2. Chain = rotated /\ Chain' = rotated \cup {TracePath}
  BY <1>1, Names DEF Chain
<1>3. \A c \in rotated : /\ c # TracePath /\ FileAt(c)' = FileAt(c) /\ FileAt(c) = c.file
                         /\ c.file \in Files /\ c.file # current' /\ Text(c)' = Text(c)
  <2> TAKE c \in rotated
  <2>1. c # TracePath /\ c.file \in Files /\ c.file # current'
    BY <1>1, ChainMembers DEF Rotated
  <2> QED
    BY <2>1, <1>1 DEF FileAt, Text
<1>4. Text(TracePath)' = <<>> /\ FileAt(TracePath)' = current' /\ DOMAIN Text(TracePath)' = {}
  <2>1. DOMAIN <<>> = {}
    OBVIOUS
  <2> QED
    BY <1>1, <2>1 DEF Text, FileAt
<1>5. \A c \in rotated : c.stamp # TracePath.stamp
  BY ChainMembers
<1>6. Distinct'
  BY <1>2, <1>3, <1>4, <1>5 DEF InOrder, Distinct
<1>7. Consecutive'
  BY <1>2, <1>3, <1>4 DEF InOrder, Consecutive
<1>8. Sorted'
  BY <1>2, <1>3, <1>4 DEF InOrder, Sorted
<1>9. LastLine'
  BY <1>1, <1>2, <1>3, <1>4 DEF InOrder, LastLine
<1>10. \A r \in rotated' : lines'[r.file] # <<>>
  BY <1>1, <1>3 DEF InOrder
<1> QED
  BY <1>1, <1>2, <1>3, <1>4, <1>6, <1>7, <1>8, <1>9, <1>10 DEF InOrder

\* The line that is written goes to the end of trace.jsonl.
LEMMA WriteOrder ==
    ASSUME TypeInv, TypeInv', InOrder, HeldIsCurrent, NEW p \in Procs,
           NEW from \in {"write", "endwrite"}, NEW to, WriteLine(p, from, to)
    PROVE  /\ InOrder'
           /\ current' = current /\ current \in Files /\ rotated' = rotated
           /\ Chain' = Chain /\ TracePath \in Chain /\ count' = count + 1
           /\ \A c : FileAt(c)' = FileAt(c)
           /\ \A c \in Chain : c # TracePath => Text(c)' = Text(c) /\ FileAt(c) # current
           /\ \A f \in Files : f # current => lines'[f] = lines[f]
           /\ Len(lines'[current]) = Len(lines[current]) + 1
           /\ DOMAIN lines'[current] = 1..(Len(lines[current]) + 1)
           /\ \A i \in 1..Len(lines[current]) : lines'[current][i] = lines[current][i]
           /\ lines'[current][Len(lines[current]) + 1] = count + 1
<1> DEFINE n == Len(lines[current])
<1>1. /\ handle[p] \in Files /\ count' = count + 1
      /\ \A f \in Files : f # handle[p] => lines'[f] = lines[f]
      /\ lines'[handle[p]] = Append(lines[handle[p]], count + 1)
      /\ lines[handle[p]] \in Seq(1..MaxLines) /\ count + 1 \in 1..MaxLines
      /\ UNCHANGED <<current, rotated>>
  BY WriteLineDoes, ZenonT(30) DEF WriteLine
<1>2. handle[p] = current /\ current # NoFile
  BY <1>1, Names DEF HeldIsCurrent
<1>3. /\ Len(lines'[current]) = n + 1 /\ lines'[current] # <<>> /\ n \in Nat
      /\ DOMAIN lines[current] = 1..n /\ DOMAIN lines'[current] = 1..(n + 1)
      /\ \A i \in 1..n : lines'[current][i] = lines[current][i]
      /\ lines'[current][n + 1] = count + 1
  BY <1>1, <1>2, OneLineMore
<1>4. Chain' = Chain /\ TracePath \in Chain /\ \A c : FileAt(c)' = FileAt(c)
  BY <1>1, <1>2 DEF Chain, FileAt
<1>5. \A c \in Chain : c # TracePath => Text(c)' = Text(c) /\ FileAt(c) # current
  <2> TAKE c \in Chain
  <2> HAVE c # TracePath
  <2>1. FileAt(c) # FileAt(TracePath) /\ FileAt(TracePath) = current /\ FileAt(c) \in Files
    BY <1>4, ChainMembers DEF InOrder, Distinct
  <2> QED
    BY <2>1, <1>1, <1>2, <1>4 DEF Text
<1>6. Text(TracePath) = lines[current] /\ Text(TracePath)' = lines'[current]
  BY <1>1 DEF Text, FileAt
<1>7. lines[current] # <<>> => lines[current][n] = count
  BY <1>2 DEF InOrder, LastLine
<1>8. n \in 1..n => lines[current] # <<>>
  BY EmptySeq
<1>9. \A i \in 1..n : lines[current][i] \in Nat
  BY <1>1, <1>2, <1>3, Lengths
<1>10. \A i \in 1..n : lines[current][i] + n = count + i
  <2>1. \A i, j \in 1..n : lines[current][i] + j = lines[current][j] + i
    BY <1>3, <1>4, <1>6 DEF InOrder, Consecutive
  <2> TAKE i \in 1..n
  <2>2. n \in 1..n
    BY <1>3
  <2> QED
    BY <1>7, <1>8, <2>1, <2>2
<1>11. \A c \in Chain : \A i \in DOMAIN Text(c) : Text(c)[i] <= count /\ Text(c)[i] \in Nat
  BY ChainMembers DEF InOrder, LastLine
<1>12. count \in Nat
  BY ChainMembers
<1> HIDE DEF n
<1>13. Distinct'
  BY <1>4 DEF InOrder, Distinct
<1>14. Consecutive'
  <2>1. \A i, j \in 1..n : lines[current][i] + j = lines[current][j] + i
    BY <1>3, <1>4, <1>6 DEF InOrder, Consecutive
  <2>2. \A i, j \in 1..(n + 1) : lines'[current][i] + j = lines'[current][j] + i
    <3> TAKE i, j \in 1..(n + 1)
    <3>1. CASE i \in 1..n /\ j \in 1..n
      BY <2>1, <3>1, <1>3
    <3>2. CASE i = n + 1 /\ j \in 1..n
      <4>1. lines'[current][i] = count + 1 /\ lines'[current][j] = lines[current][j]
        BY <3>2, <1>3
      <4>2. lines[current][j] + n = count + j /\ lines[current][j] \in Nat
        BY <3>2, <1>9, <1>10
      <4>3. n \in Nat /\ j \in Nat
        BY <3>2, <1>3
      <4> QED
        BY <3>2, <4>1, <4>2, <4>3, <1>12
    <3>3. CASE i \in 1..n /\ j = n + 1
      <4>1. lines'[current][j] = count + 1 /\ lines'[current][i] = lines[current][i]
        BY <3>3, <1>3
      <4>2. lines[current][i] + n = count + i /\ lines[current][i] \in Nat
        BY <3>3, <1>9, <1>10
      <4>3. n \in Nat /\ i \in Nat
        BY <3>3, <1>3
      <4> QED
        BY <3>3, <4>1, <4>2, <4>3, <1>12
    <3>4. CASE i = n + 1 /\ j = n + 1
      BY <3>4
    <3> QED
      BY <3>1, <3>2, <3>3, <3>4, <1>3
  <2>3. ASSUME NEW c \in Chain
        PROVE  \A i, j \in DOMAIN Text(c)' : Text(c)'[i] + j = Text(c)'[j] + i
    <3>1. CASE c = TracePath
      BY <3>1, <2>2, <1>3, <1>6
    <3>2. CASE c # TracePath
      BY <3>2, <1>5 DEF InOrder, Consecutive
    <3> QED
      BY <3>1, <3>2
  <2> QED
    BY <2>3, <1>4 DEF Consecutive
<1>15. \A c \in Chain : c.stamp \in Nat /\ (c # TracePath => c.stamp < TracePath.stamp)
  BY ChainMembers
<1>16. Sorted'
  <2> SUFFICES ASSUME NEW c \in Chain, NEW d \in Chain, c.stamp < d.stamp,
                      NEW i \in DOMAIN Text(c)', NEW j \in DOMAIN Text(d)'
               PROVE  Text(c)'[i] < Text(d)'[j]
    BY <1>4 DEF Sorted
  <2>1. c # TracePath /\ Text(c)' = Text(c)
    BY <1>4, <1>5, <1>15
  <2>2. CASE d # TracePath
    BY <2>1, <2>2, <1>5 DEF InOrder, Sorted
  <2>3. CASE d = TracePath /\ j \in 1..n
    BY <2>1, <2>3, <1>3, <1>6 DEF InOrder, Sorted
  <2>4. CASE d = TracePath /\ j = n + 1
    BY <2>1, <2>4, <1>3, <1>6, <1>11, <1>12
  <2> QED
    BY <2>2, <2>3, <2>4, <1>3, <1>6
<1>17. LastLine'
  <2>1. \A c \in Chain : \A i \in DOMAIN Text(c)' : Text(c)'[i] <= count'
    <3> TAKE c \in Chain
    <3> TAKE i \in DOMAIN Text(c)'
    <3>1. CASE c # TracePath
      BY <3>1, <1>1, <1>5, <1>11, <1>12
    <3>2. CASE c = TracePath
      BY <3>2, <1>1, <1>3, <1>6, <1>11, <1>12, <1>4
    <3> QED
      BY <3>1, <3>2
  <2> QED
    BY <2>1, <1>1, <1>3, <1>4 DEF LastLine
<1>18. \A r \in rotated' : lines'[r.file] # <<>>
  <2> TAKE r \in rotated'
  <2>1. r \in Chain /\ r # TracePath /\ FileAt(r) = r.file /\ r \in rotated
    BY <1>1, ChainMembers
  <2>2. Text(r)' = lines'[r.file] /\ Text(r) = lines[r.file]
    BY <2>1, <1>4 DEF Text
  <2> QED
    BY <2>1, <2>2, <1>5 DEF InOrder
<1> QED
  BY <1>1, <1>2, <1>3, <1>4, <1>5, <1>13, <1>14, <1>16, <1>17, <1>18 DEF InOrder, n

FileInv == TypeInv /\ HeldIsCurrent /\ InOrder

\* What is known of the files holds at first.
LEMMA FileInit == TraceInit => FileInv
<1> SUFFICES ASSUME TraceInit PROVE FileInv
  OBVIOUS
<1>1. TypeInv
  BY TraceTypeInit
<1>2. HeldIsCurrent
  BY DEF TraceInit, HeldIsCurrent
<1>3. Chain \subseteq {TracePath} /\ rotated = {} /\ current \in Files
  BY DEF TraceInit, Chain
<1>4. lines[current] = <<>> /\ Text(TracePath) = <<>> /\ DOMAIN Text(TracePath) = {}
  BY <1>3 DEF TraceInit, Text, FileAt
<1> QED
  BY <1>1, <1>2, <1>3, <1>4
     DEF FileInv, InOrder, Distinct, Consecutive, Sorted, LastLine

\* Each step keeps that the file held open is the current one.
LEMMA HeldStep ==
    ASSUME Windows, TypeInv, TypeInv', HeldIsCurrent, [TraceNext]_traceVars
    PROVE  HeldIsCurrent'
<1>1. handle \in [Procs -> FilesOrNoFile] /\ Follower \in Procs
  BY Names DEF TypeInv, TraceTypeOK
<1>2. ASSUME NEW t \in Threads, Rename(t) PROVE HeldIsCurrent'
  <2>1. ~IsOpen(current) /\ handle' = handle
    BY <1>2 DEF Rename, Renamed
  <2> QED
    BY <2>1 DEF HeldIsCurrent, IsOpen
<1>3. ASSUME NEW p \in Procs, NEW from, NEW to, OpenLog(p, from, to) PROVE HeldIsCurrent'
  <2>1. /\ handle' = [handle EXCEPT ![p] = current']
        /\ current # NoFile => current' = current
    BY <1>3, OpenLogDoes
  <2> QED
    BY <2>1, <1>1 DEF HeldIsCurrent
<1>4. ASSUME NEW p \in Procs, handle' \in {handle, [handle EXCEPT ![p] = NoFile]}, current' = current
      PROVE  HeldIsCurrent'
  BY <1>4, <1>1 DEF HeldIsCurrent
<1>5. CASE PollOpen
  BY <1>5, <1>1 DEF PollOpen, log, HeldIsCurrent
<1>6. CASE PollOld \/ PollNew
  BY <1>6, <1>4, <1>1 DEF PollOld, PollNew, log
<1>7. ASSUME NEW t \in Threads, RenameRefused(t) \/ NoRotation(t) \/ Prune(t)
      PROVE  HeldIsCurrent'
  BY <1>7, <1>4, <1>1 DEF RenameRefused, NoRotation, Prune, log
<1>8. CASE CaseMoves \/ Read
  BY <1>8, <1>4, <1>1 DEF CaseMoves, Read, ReadSegment, BeginCase, EndCase, EndStat,
       FindCurrent, FindOther, List, Cut, log
<1>9. ASSUME NEW p \in Procs, NEW from, NEW to, WriteLine(p, from, to) PROVE HeldIsCurrent'
  BY <1>9, <1>4 DEF WriteLine
<1>10. CASE UNCHANGED traceVars
  BY <1>10, <1>4, <1>1 DEF traceVars
<1>11. CASE RetryTime
  BY <1>11, <1>4, <1>1 DEF RetryTime
<1> QED
  BY <1>2, <1>3, <1>5, <1>6, <1>7, <1>8, <1>9, <1>10, <1>11, Names
     DEF TraceNext, CaseMoves, Poll, OpenEntry, WriteEntry, BeginOpens, BeginMarks, EndOpens, EndMarks

\* Each step keeps the order of the segments.
LEMMA OrderStep ==
    ASSUME Windows, FileInv, [TraceNext]_traceVars
    PROVE  FileInv'
<1> USE DEF FileInv
<1>1. TypeInv' /\ HeldIsCurrent'
  BY TraceTypeStep, HeldStep
<1>2. ASSUME Still PROVE InOrder'
  <2>1. UNCHANGED <<lines, current, rotated, count>>
    BY <1>2 DEF Still
  <2>2. Chain' = Chain /\ \A c : FileAt(c)' = FileAt(c) /\ Text(c)' = Text(c)
    BY <2>1 DEF Chain, FileAt, Text
  <2> QED
    BY <2>1, <2>2 DEF InOrder, Distinct, Consecutive, Sorted, LastLine
<1>3. ASSUME NEW p \in Procs, NEW from, NEW to, OpenLog(p, from, to) PROVE InOrder'
  <2>1. CASE current = NoFile
    BY <1>1, <1>3, <2>1, CreateOrder
  <2>2. CASE current # NoFile
    <3>1. Still
      BY <1>3, <2>2 DEF OpenLog, Still
    <3> QED
      BY <3>1, <1>2
  <2> QED
    BY <2>1, <2>2
<1>4. ASSUME NEW p \in Procs, NEW from \in {"write", "endwrite"}, NEW to, WriteLine(p, from, to)
      PROVE  InOrder'
  BY <1>1, <1>4, WriteOrder
<1>5. ASSUME NEW t \in Threads,
             \/ Rename(t) \/ RenameRefused(t) \/ NoRotation(t)
             \/ Prune(t) \/ OpenEntry(t) \/ WriteEntry(t)
      PROVE  InOrder'
  <2>1. t \in Procs
    BY Names
  <2>2. CASE RenameRefused(t) \/ NoRotation(t)
    BY <2>2, <1>2 DEF Still, RenameRefused, NoRotation, log
  <2>3. CASE OpenEntry(t)
    BY <2>1, <2>3, <1>3 DEF OpenEntry
  <2>4. CASE WriteEntry(t)
    BY <2>1, <2>4, <1>4 DEF WriteEntry
  <2> QED
    BY <1>1, <1>5, <2>2, <2>3, <2>4, RenameOrder, PruneOrder
<1>6. ASSUME RetryTime \/ CaseMoves \/ Read \/ Poll \/ UNCHANGED traceVars PROVE InOrder'
  <2>1. Still
    BY <1>6, StillSteps
  <2> QED
    BY <2>1, <1>2
<1>7. ASSUME BeginOpens \/ EndOpens PROVE InOrder'
  BY <1>7, <1>3, Names DEF BeginOpens, EndOpens
<1>8. ASSUME BeginMarks \/ EndMarks PROVE InOrder'
  BY <1>8, <1>4, Names DEF BeginMarks, EndMarks
<1>9. InOrder'
  BY <1>5, <1>6, <1>7, <1>8 DEF TraceNext, CaseMoves
<1> QED
  BY <1>1, <1>9

-----------------------------------------------------------------------------
(* The follower, on Windows *)

\* A run of lines goes on with the part of a file that continues it.
LEMMA RunGoesOn ==
    ASSUME NEW s \in Seq(1..MaxLines), NEW t \in Seq(1..MaxLines), NEW b \in Nat,
           NEW o \in Nat, NEW n \in Nat, n <= Len(t), o <= n,
           RunAfter(s, b),
           \A i \in DOMAIN t : o < i /\ i <= n => t[i] + o = b + Len(s) + i
    PROVE  /\ RunAfter(s \o SubSeq(t, o + 1, n), b)
           /\ Len(s \o SubSeq(t, o + 1, n)) + o = Len(s) + n
           /\ Len(s \o SubSeq(t, o + 1, n)) \in Nat
<1> DEFINE u == s \o SubSeq(t, o + 1, n)
<1>1. u \in Seq(1..MaxLines) /\ Len(s) \in Nat /\ DOMAIN s = 1..Len(s)
  BY PartAppended
<1>2. /\ \A i \in 1..Len(s) : u[i] = s[i]
      /\ \A i \in (o + 1)..n : u[Len(s) + i - o] = t[i]
  BY PartAppended, SMTT(60)
<1>3. Len(u) + o = Len(s) + n
  BY PartAppended
<1>4. Len(u) \in Nat /\ DOMAIN u = 1..Len(u) /\ Len(t) \in Nat /\ DOMAIN t = 1..Len(t)
  BY <1>1, LenProperties
<1>5. Len(u) \in Nat /\ Len(s) \in Nat /\ Len(t) \in Nat
  BY <1>1, <1>4
<1> HIDE DEF u
<1>6. ASSUME NEW i \in 1..Len(u) PROVE u[i] = b + i
  <2>1. CASE i <= Len(s)
    <3>1. i \in 1..Len(s)
      BY <1>5, <2>1
    <3> QED
      BY <3>1, <1>1, <1>2 DEF RunAfter
  <2>2. CASE ~(i <= Len(s))
    <3> DEFINE k == i - Len(s) + o
    <3>1. k \in Nat /\ Len(s) + k = i + o
      BY <1>5, <2>2
    <3> HIDE DEF k
    <3>2. k \in (o + 1)..n /\ k \in 1..Len(t) /\ Len(s) + k - o = i /\ o < k /\ k <= n
      BY <1>3, <1>5, <2>2, <3>1
    <3>3. u[i] = t[k]
      BY <1>2, <3>2
    <3>4. t[k] + o = b + Len(s) + k
      BY <1>4, <3>2
    <3>5. t[k] \in Nat
      BY <3>2, ElementOfSeq, Limits
    <3>6. \A v, l, j \in Nat : v + o = b + l + j /\ l + j = i + o => v = b + i
      OBVIOUS
    <3> QED
      BY <1>5, <3>1, <3>3, <3>4, <3>5, <3>6, ZenonT(30)
  <2> QED
    BY <2>1, <2>2
<1> QED
  BY <1>1, <1>3, <1>4, <1>6 DEF RunAfter, u

\* What the follower and the history hold.
LEMMA FollowerFacts ==
    ASSUME TypeInv
    PROVE  /\ cursor.offset \in Nat /\ size \in Nat /\ Len(got) \in Nat /\ got \in Seq(1..MaxLines)
           /\ cursor.file \in FilesOrNoFile /\ count \in Nat
           /\ hist.late \in BOOLEAN /\ hist.unseen \in BOOLEAN /\ hist.polled \in Nat
           /\ pc[Follower] \in {"idle", "old", "new"}
BY Limits, Lengths DEF TypeInv, TraceTypeOK, Opened, Positions

\* FollowInv looks at nothing but this.
LEMMA FollowFrame ==
    ASSUME TypeInv, FollowInv, UNCHANGED <<lines, current, rotated, count, follower>>,
           pc'[Follower] = pc[Follower],
           hist'.late = hist.late, hist'.unseen = hist.unseen, hist'.polled = hist.polled
    PROVE  FollowInv'
BY DEF FollowInv, GoesOn, AtLast, AtLastButOne, Polls, RunAfter, follower

\* A rename keeps what is known of the followers.
LEMMA FollowRename ==
    ASSUME FileInv, TypeInv', FollowInv, Windows, NEW t \in Threads, Rename(t)
    PROVE  FollowInv'
<1> USE DEF FileInv
<1>1. /\ current \in Files /\ current' = NoFile
      /\ rotated' = rotated \cup {[file |-> current, stamp |-> stamp + 1]}
  BY RenameOrder
<1>2. /\ ~IsOpen(current) /\ pc' = [pc EXCEPT ![t] = "prune"]
      /\ hist' = [hist EXCEPT !.disturbed = @ \/ CaseRuns,
                              !.late = @ \/ hist.unseen, !.unseen = TRUE]
      /\ UNCHANGED <<lines, count, follower>>
  BY DEF Rename, Renamed, Goto
<1>3. /\ hist'.late = (hist.late \/ hist.unseen) /\ hist'.unseen = TRUE
      /\ hist'.polled = hist.polled
  BY <1>2 DEF TypeInv, TraceTypeOK
<1>4. pc[Follower] = "idle" /\ pc'[Follower] = "idle"
  BY <1>2, Names, FollowerFacts DEF TypeInv, TraceTypeOK, Opened, HeldIsCurrent, IsOpen
<1> SUFFICES ASSUME ~hist'.late PROVE GoesOn' /\ AtLast' /\ AtLastButOne' /\ Polls'
  BY DEF FollowInv
<1>5. ~hist.late /\ ~hist.unseen /\ GoesOn /\ AtLast /\ Polls /\ cursor.file = current
  BY <1>3, <1>4 DEF FollowInv, Polls
<1>6. GoesOn' /\ cursor' = cursor /\ got' = got
  BY <1>2, <1>5 DEF GoesOn, RunAfter, follower
<1>7. AtLast'
  BY <1>1, <1>5, <1>6, Names DEF AtLast
<1>8. AtLastButOne'
  <2>1. \A q \in rotated' : q.stamp <= stamp + 1
    <3>1. \A q \in rotated : q.stamp \in Nat /\ q.stamp <= stamp /\ stamp \in Nat
      BY ChainMembers
    <3>2. stamp \in Nat
      BY ChainMembers
    <3> QED
      BY <1>1, <3>1, <3>2
  <2>2. \E r \in rotated' : r.file = cursor'.file /\ \A q \in rotated' : q.stamp <= r.stamp
    <3>1. [file |-> current, stamp |-> stamp + 1] \in rotated'
      BY <1>1
    <3> WITNESS [file |-> current, stamp |-> stamp + 1] \in rotated'
    <3> QED
      BY <2>1, <1>5, <1>6
  <2> QED
    BY <1>1, <1>2, <1>3, <1>5, <1>6, <2>2 DEF AtLastButOne, AtLast
<1>9. Polls'
  BY <1>3, <1>4, <1>5, <1>6 DEF Polls
<1> QED
  BY <1>6, <1>7, <1>8, <1>9

\* Removing a segment keeps it.
LEMMA FollowPrune ==
    ASSUME FileInv, FollowInv, NEW t \in Threads, Prune(t)
    PROVE  FollowInv'
<1> USE DEF FileInv
<1> DEFINE above(r) == {q \in rotated : q.stamp > r.stamp}
           gone     == {r \in rotated : /\ Cardinality(above(r)) >= Keep
                                        /\ Windows => ~IsOpen(r.file)}
<1>1. /\ rotated' = rotated \ gone
      /\ hist' = [hist EXCEPT !.pruned = @ \/ \E r \in gone : r.file \in Needed]
      /\ pc' = [pc EXCEPT ![t] = "open"]
      /\ UNCHANGED <<lines, current, count, follower>>
  BY DEF Prune, Goto
<1>2. hist'.late = hist.late /\ hist'.unseen = hist.unseen /\ hist'.polled = hist.polled
  BY <1>1 DEF TypeInv, TraceTypeOK
<1>3. pc'[Follower] = pc[Follower]
  BY <1>1, Names DEF TypeInv, TraceTypeOK
<1>4. ASSUME NEW r \in rotated, \A q \in rotated : q.stamp <= r.stamp PROVE r \in rotated'
  <2>1. \A q \in rotated : q.stamp \in Nat
    BY ChainMembers
  <2>2. above(r) = {}
    BY <1>4, <2>1
  <2>3. Cardinality(above(r)) = 0
    BY <2>2, FS_EmptySet
  <2>4. r \notin gone
    BY <2>3, Limits
  <2> QED
    BY <2>4, <1>1
<1> HIDE DEF gone
<1> SUFFICES ASSUME ~hist'.late PROVE GoesOn' /\ AtLast' /\ AtLastButOne' /\ Polls'
  BY DEF FollowInv
<1>5. GoesOn /\ AtLast /\ AtLastButOne /\ Polls
  BY <1>2 DEF FollowInv
<1>6. cursor' = cursor /\ got' = got /\ size' = size /\ rotated' \subseteq rotated
  BY <1>1 DEF follower
<1>7. AtLastButOne'
  BY <1>1, <1>2, <1>4, <1>5, <1>6 DEF AtLastButOne
<1>8. GoesOn' /\ AtLast' /\ Polls'
  BY <1>1, <1>2, <1>3, <1>5, <1>6 DEF GoesOn, AtLast, Polls, RunAfter
<1> QED
  BY <1>7, <1>8

\* A new segment keeps it.
LEMMA FollowCreate ==
    ASSUME FileInv, TypeInv', FollowInv, NEW p \in Procs, p # Follower, NEW from, NEW to,
           OpenLog(p, from, to), current = NoFile,
           hist'.late = hist.late, hist'.unseen = hist.unseen, hist'.polled = hist.polled
    PROVE  FollowInv'
<1> USE DEF FileInv
<1>1. /\ Chain = rotated /\ rotated' = rotated /\ current' \in Files
      /\ lines'[current'] = <<>> /\ count' = count
      /\ \A c \in rotated : Text(c)' = Text(c) /\ FileAt(c) # current'
  BY CreateOrder
<1>2. /\ \A f \in Files : f # current' => lines'[f] = lines[f]
      /\ pc' = [pc EXCEPT ![p] = to] /\ UNCHANGED follower
  BY OpenLogDoes DEF OpenLog
<1>3. pc[Follower] = "idle" /\ pc'[Follower] = "idle"
  BY <1>2, Names, FollowerFacts DEF TypeInv, TraceTypeOK, Opened, HeldIsCurrent
<1> SUFFICES ASSUME ~hist'.late PROVE GoesOn' /\ AtLast' /\ AtLastButOne' /\ Polls'
  BY DEF FollowInv
<1>4. GoesOn /\ AtLastButOne /\ Polls /\ cursor.file \in Files /\ cursor.file # current
  BY Names DEF FollowInv, GoesOn
<1>5. PICK r \in rotated : r.file = cursor.file /\ \A q \in rotated : q.stamp <= r.stamp
  BY <1>4 DEF AtLastButOne
<1>6. cursor.file # current'
  BY <1>1, <1>5, ChainMembers
<1>7. lines'[cursor.file] = lines[cursor.file] /\ cursor' = cursor /\ got' = got
  BY <1>2, <1>4, <1>6 DEF follower
<1>8. Len(lines'[current']) = 0 /\ DOMAIN lines'[current'] = {}
  BY <1>1, EmptySeq
<1>9. GoesOn'
  BY <1>4, <1>7 DEF GoesOn, RunAfter
<1>10. AtLast'
  BY <1>6, <1>7 DEF AtLast
<1>11. AtLastButOne'
  <2>1. count + cursor.offset = Len(got) + Len(lines[cursor.file])
    BY <1>4 DEF AtLastButOne
  <2>2. Len(got) + Len(lines[cursor.file]) \in Nat
    BY <1>4, Lengths
  <2>3. count' + cursor'.offset = Len(got') + Len(lines'[cursor'.file]) + Len(lines'[current'])
    BY <1>1, <1>7, <1>8, <2>1, <2>2
  <2>4. \E q \in rotated' : q.file = cursor'.file /\ \A d \in rotated' : d.stamp <= q.stamp
    BY <1>1, <1>5, <1>7
  <2> QED
    BY <2>3, <2>4, <1>1, <1>8, Names DEF AtLastButOne
<1>12. Polls'
  BY <1>3, <1>4, <1>7 DEF Polls
<1> QED
  BY <1>9, <1>10, <1>11, <1>12

\* A new line keeps it.
LEMMA FollowWrite ==
    ASSUME FileInv, TypeInv', FollowInv, NEW p \in Procs, p # Follower,
           NEW from \in {"write", "endwrite"}, NEW to, WriteLine(p, from, to),
           hist'.late = hist.late, hist'.unseen = hist.unseen, hist'.polled = hist.polled
    PROVE  FollowInv'
<1> USE DEF FileInv
<1> DEFINE n == Len(lines[current])
           k == Len(got)
           o == cursor.offset
<1>1. /\ current' = current /\ current \in Files /\ rotated' = rotated /\ count' = count + 1
      /\ \A f \in Files : f # current => lines'[f] = lines[f]
      /\ Len(lines'[current]) = n + 1 /\ DOMAIN lines'[current] = 1..(n + 1)
      /\ \A i \in 1..n : lines'[current][i] = lines[current][i]
      /\ lines'[current][n + 1] = count + 1
  BY WriteOrder
<1>2. pc' = [pc EXCEPT ![p] = to] /\ cursor' = cursor /\ got' = got /\ size' = size
  BY DEF WriteLine, Goto, follower
<1>3. pc'[Follower] = pc[Follower]
  BY <1>2, Names DEF TypeInv, TraceTypeOK
<1>4. /\ n \in Nat /\ k \in Nat /\ o \in Nat /\ count \in Nat
      /\ DOMAIN lines[current] = 1..n
  BY <1>1, Lengths, FollowerFacts
<1> SUFFICES ASSUME ~hist'.late PROVE GoesOn' /\ AtLast' /\ AtLastButOne' /\ Polls'
  BY DEF FollowInv
<1>5. GoesOn /\ AtLast /\ AtLastButOne /\ Polls /\ cursor.file \in Files
  BY DEF FollowInv, GoesOn
<1>6. Polls'
  BY <1>1, <1>2, <1>3, <1>5 DEF Polls
<1>7. CASE cursor.file = current
  <2>1. /\ ~hist.unseen /\ count + o = k + n /\ o <= n
        /\ \A i \in 1..n : i > o => lines[current][i] + o = k + i
    BY <1>4, <1>5, <1>7 DEF AtLast, GoesOn
  <2>2. count + 1 + o = k + (n + 1) /\ o <= n + 1
    <3>1. \A a, b, d, e \in Nat : a + b = d + e /\ b <= e => a + 1 + b = d + (e + 1) /\ b <= e + 1
      OBVIOUS
    <3>2. count \in Nat /\ o \in Nat /\ k \in Nat /\ n \in Nat /\ count + o = k + n /\ o <= n
      BY <1>4, <2>1
    <3> HIDE DEF n, k, o
    <3> QED
      BY <3>1, <3>2
  <2> HIDE DEF n, k, o
  <2>3. \A i \in 1..(n + 1) : i > o => lines'[current][i] + o = k + i
    <3> TAKE i \in 1..(n + 1)
    <3>1. i \in 1..n \/ i = n + 1
      BY <1>4
    <3> QED
      BY <3>1, <1>1, <2>1, <2>2
  <2>4. GoesOn'
    BY <1>1, <1>2, <1>5, <1>7, <2>2, <2>3 DEF GoesOn, RunAfter, n, k, o
  <2>5. AtLast'
    BY <1>1, <1>2, <2>1, <2>2 DEF AtLast, n, k, o
  <2>6. AtLastButOne'
    BY <1>1, <1>2, <1>7 DEF AtLastButOne
  <2> QED
    BY <1>6, <2>4, <2>5, <2>6
<1>8. CASE cursor.file # current
  <2> DEFINE m == Len(lines[cursor.file])
  <2>1. lines'[cursor.file] = lines[cursor.file] /\ m \in Nat
    BY <1>1, <1>5, <1>8, Lengths
  <2>2. \A i \in 1..n : lines[current][i] + o = k + m + i
    BY <1>1, <1>4, <1>5, <1>8, Names DEF AtLastButOne
  <2>a. count + o = k + m + n
    BY <1>1, <1>4, <1>5, <1>8, Names DEF AtLastButOne
  <2>b. n \in Nat /\ k \in Nat /\ o \in Nat /\ m \in Nat /\ count \in Nat
    BY <1>4, <2>1
  <2> HIDE DEF n, k, o, m
  <2>3. count + 1 + o = k + m + (n + 1)
    BY <2>a, <2>b
  <2>4. \A i \in 1..(n + 1) : lines'[current][i] + o = k + m + i
    <3> TAKE i \in 1..(n + 1)
    <3>1. i \in 1..n \/ i = n + 1
      BY <1>4
    <3> QED
      BY <3>1, <1>1, <2>2, <2>3
  <2>5. GoesOn'
    BY <1>2, <1>5, <2>1 DEF GoesOn, RunAfter
  <2>6. AtLast'
    BY <1>1, <1>2, <1>8 DEF AtLast
  <2>7. AtLastButOne'
    <3>1. \E r \in rotated' : r.file = cursor'.file /\ \A q \in rotated' : q.stamp <= r.stamp
      BY <1>1, <1>2, <1>5, <1>8 DEF AtLastButOne
    <3> QED
      BY <3>1, <1>1, <1>2, <2>1, <2>3, <2>4, Names DEF AtLastButOne, n, k, o, m
  <2> QED
    BY <1>6, <2>5, <2>6, <2>7
<1> QED
  BY <1>7, <1>8

\* A poll keeps it.
LEMMA FollowPolls ==
    ASSUME FileInv, TypeInv', FollowInv, Poll
    PROVE  FollowInv'
<1> USE DEF FileInv
<1>1. UNCHANGED log /\ hist'.late = hist.late
  BY DEF Poll, PollOpen, PollOld, PollNew, TypeInv, TraceTypeOK
<1> SUFFICES ASSUME ~hist'.late PROVE GoesOn' /\ AtLast' /\ AtLastButOne' /\ Polls'
  BY DEF FollowInv
<1>2. GoesOn /\ AtLast /\ AtLastButOne /\ Polls /\ cursor.file \in Files
  BY <1>1 DEF FollowInv, GoesOn
<1>3. UNCHANGED <<lines, current, rotated, count>>
  BY <1>1 DEF log
<1> DEFINE k == Len(got)
           o == cursor.offset
<1>4. k \in Nat /\ o \in Nat /\ count \in Nat /\ size \in Nat /\ got \in Seq(1..MaxLines)
      /\ Len(lines[cursor.file]) \in Nat /\ lines[cursor.file] \in Seq(1..MaxLines)
      /\ DOMAIN lines[cursor.file] = 1..Len(lines[cursor.file])
  BY <1>2, Lengths, FollowerFacts
<1>5. CASE PollOpen
  <2>1. /\ pc[Follower] = "idle" /\ pc'[Follower] = "old" /\ current # NoFile
        /\ size' = Len(lines[current]) /\ hist'.unseen = FALSE /\ hist'.polled = count
        /\ cursor' = cursor /\ got' = got
    BY <1>5, Names DEF PollOpen, Goto, TypeInv, TraceTypeOK
  <2>2. GoesOn' /\ AtLast'
    BY <1>2, <1>3, <2>1 DEF GoesOn, AtLast, RunAfter
  <2>3. AtLastButOne'
    BY <1>2, <1>3, <2>1 DEF AtLastButOne
  <2>4. Polls'
    BY <1>2, <1>3, <2>1 DEF Polls, GoesOn, AtLast, AtLastButOne
  <2> QED
    BY <2>2, <2>3, <2>4
<1>6. CASE PollOld
  <2>1. /\ pc[Follower] = "old" /\ pc'[Follower] = "new" /\ hist' = hist /\ size' = size
        /\ handle[Follower] = current /\ current \in Files /\ ~hist.unseen
    BY <1>2, <1>6, Names DEF PollOld, Goto, TypeInv, TraceTypeOK, Opened, HeldIsCurrent, Polls, FilesOrNoFile
  <2>2. CASE cursor.file = current
    <3>1. cursor.offset <= size /\ hist.polled + cursor.offset = Len(got) + size
      BY <1>2, <2>1, <2>2 DEF Polls
    <3>2. cursor' = cursor /\ got' = got
      BY <1>4, <1>6, <2>1, <2>2, <3>1 DEF PollOld
    <3> QED
      BY <1>2, <1>3, <2>1, <2>2, <3>1, <3>2 DEF GoesOn, AtLast, AtLastButOne, Polls, RunAfter
  <2>3. CASE cursor.file # current
    <3> DEFINE m  == Len(lines[cursor.file])
               n  == Len(lines[current])
               k2 == Len(got')
               q  == hist.polled
    <3>1. /\ cursor.file \in Rotated
          /\ \A i \in DOMAIN lines[current] : lines[current][i] + o = k + m + i
      BY <1>2, <2>1, <2>3, Names DEF AtLastButOne, Rotated
    <3>2. count + o = k + m + n /\ q + o = k + m + size
      BY <1>2, <2>1, <2>3, Names DEF AtLastButOne, Polls
    <3>3. got' = got \o SubSeq(lines[cursor.file], o + 1, m)
      BY <1>6, <2>1, <2>3, <3>1 DEF PollOld
    <3>a. cursor' = [file |-> current, offset |-> 0]
      BY <1>6, <2>1, <2>3 DEF PollOld
    <3>b. cursor'.file = current /\ cursor'.offset = 0
      BY <3>a
    <3>4. RunAfter(got', 0) /\ k2 + o = k + m /\ k2 \in Nat
      <4>1. /\ RunAfter(got, 0) /\ o <= m
            /\ \A i \in DOMAIN lines[cursor.file] : i > o => lines[cursor.file][i] + o = k + i
        BY <1>2 DEF GoesOn
      <4> HIDE DEF k, o, m
      <4>2. 0 \in Nat /\ o \in Nat /\ m \in Nat /\ k \in Nat /\ 0 + k = k
        BY <1>4 DEF k, o, m
      <4>3. m <= Len(lines[cursor.file])
        BY <1>4 DEF m
      <4>4. \A i \in DOMAIN lines[cursor.file] :
               o < i /\ i <= m => lines[cursor.file][i] + o = 0 + Len(got) + i
        BY <4>1, <4>2, <1>4 DEF k
      <4>5. got \in Seq(1..MaxLines) /\ lines[cursor.file] \in Seq(1..MaxLines)
        BY <1>4
      <4>6. /\ RunAfter(got \o SubSeq(lines[cursor.file], o + 1, m), 0)
            /\ Len(got \o SubSeq(lines[cursor.file], o + 1, m)) + o = Len(got) + m
            /\ Len(got \o SubSeq(lines[cursor.file], o + 1, m)) \in Nat
        BY <4>1, <4>2, <4>3, <4>4, <4>5, RunGoesOn
      <4> QED
        BY <3>3, <4>6 DEF k
    <3>5. /\ n \in Nat /\ k \in Nat /\ o \in Nat /\ m \in Nat /\ k2 \in Nat /\ q \in Nat
          /\ count \in Nat /\ size \in Nat
      BY <2>1, <1>4, <3>4, Lengths, FollowerFacts
    <3>6. DOMAIN lines[current] = 1..n /\ \A i \in 1..n : lines[current][i] \in Nat
      BY <2>1, Lengths, Limits
    <3> HIDE DEF k, o, m, n, k2, q
    <3>7. k2 + o = k + m
      BY <3>4
    <3>8. \A i \in 1..n : lines[current][i] + 0 = k2 + i
      <4>1. \A v, i \in Nat : v + o = k + m + i => v + 0 = k2 + i
        BY <3>5, <3>7
      <4> TAKE i \in 1..n
      <4>2. lines[current][i] \in Nat /\ i \in Nat
        BY <3>5, <3>6
      <4>3. lines[current][i] + o = k + m + i
        BY <3>1, <3>6
      <4> QED
        BY <4>1, <4>2, <4>3
    <3>9. count + 0 = k2 + n /\ q + 0 = k2 + size
      BY <3>2, <3>5, <3>7
    <3>10. GoesOn'
      <4>1. cursor'.offset <= n
        BY <3>b, <3>5
      <4> QED
        BY <4>1, <3>b, <3>4, <3>6, <3>8, <2>1, <1>3 DEF GoesOn, n, k2
    <3>11. AtLast' /\ AtLastButOne'
      BY <3>b, <3>9, <2>1, <1>3 DEF AtLast, AtLastButOne, n, k2
    <3>12. Polls'
      <4>1. cursor'.offset <= size
        BY <3>b, <1>4
      <4> QED
        BY <4>1, <3>b, <3>9, <2>1, <1>3 DEF Polls, k2, q
    <3> QED
      BY <3>10, <3>11, <3>12
  <2> QED
    BY <2>2, <2>3
<1>7. CASE PollNew
  <2>1. /\ pc[Follower] = "new" /\ pc'[Follower] = "idle" /\ hist' = hist
        /\ handle[Follower] = current /\ current \in Files /\ ~hist.unseen
        /\ size <= Len(lines[current]) /\ cursor.file = current
        /\ cursor.offset <= size /\ hist.polled + cursor.offset = Len(got) + size
    BY <1>2, <1>7, Names DEF PollNew, Goto, TypeInv, TraceTypeOK, Opened, HeldIsCurrent, Polls, FilesOrNoFile
  <2>2. /\ got' = got \o SubSeq(lines[current], o + 1, size)
        /\ cursor'.file = current /\ cursor'.offset = size
    BY <1>7, <2>1 DEF PollNew, TypeInv, TraceTypeOK, Positions
  <2> DEFINE n  == Len(lines[current])
             k2 == Len(got')
             q  == hist.polled
  <2>3. /\ RunAfter(got, 0)
        /\ \A i \in DOMAIN lines[current] : i > o => lines[current][i] + o = k + i
    BY <1>2, <2>1 DEF GoesOn, AtLast
  <2>4. count + o = k + n /\ q + o = k + size /\ o <= size
    BY <1>2, <2>1 DEF AtLast
  <2>5. RunAfter(got', 0) /\ k2 + o = k + size /\ k2 \in Nat
    <3> HIDE DEF k, o
    <3>1. 0 \in Nat /\ o \in Nat /\ size \in Nat /\ k \in Nat /\ 0 + k = k
      BY <1>4 DEF k, o
    <3>2. size <= Len(lines[current]) /\ o <= size
      BY <2>1, <2>4
    <3>3. \A i \in DOMAIN lines[current] :
             o < i /\ i <= size => lines[current][i] + o = 0 + Len(got) + i
      BY <2>1, <2>3, <3>1, <1>4 DEF k
    <3>4. got \in Seq(1..MaxLines) /\ lines[current] \in Seq(1..MaxLines)
      BY <1>4, <2>1
    <3>5. /\ RunAfter(got \o SubSeq(lines[current], o + 1, size), 0)
          /\ Len(got \o SubSeq(lines[current], o + 1, size)) + o = Len(got) + size
          /\ Len(got \o SubSeq(lines[current], o + 1, size)) \in Nat
      BY <2>3, <3>1, <3>2, <3>3, <3>4, RunGoesOn
    <3> QED
      BY <2>2, <3>5 DEF k, o
  <2>6. /\ n \in Nat /\ k \in Nat /\ o \in Nat /\ k2 \in Nat /\ q \in Nat
        /\ count \in Nat /\ size \in Nat
    BY <2>1, <1>4, <2>5, Lengths, FollowerFacts
  <2>7. DOMAIN lines[current] = 1..n /\ \A i \in 1..n : lines[current][i] \in Nat
    BY <2>1, Lengths, Limits
  <2> HIDE DEF k, n, o, k2, q
  <2>a. k2 + o = k + size
    BY <2>5
  <2>b. count + size = k2 + n /\ q <= k2
    BY <2>4, <2>6, <2>a
  <2>8. \A i \in 1..n : i > size => lines[current][i] + size = k2 + i
    <3>1. \A v, i \in Nat : v + o = k + i => v + size = k2 + i
      BY <2>6, <2>a
    <3> TAKE i \in 1..n
    <3> HAVE i > size
    <3>2. lines[current][i] \in Nat /\ i \in Nat /\ i > o
      BY <2>4, <2>6, <2>7
    <3>3. lines[current][i] + o = k + i
      BY <2>3, <2>7, <3>2
    <3> QED
      BY <3>1, <3>2, <3>3
  <2>9. GoesOn'
    BY <2>1, <2>2, <2>5, <2>6, <2>7, <2>8, <1>3 DEF GoesOn, n, k2
  <2>10. AtLast' /\ AtLastButOne'
    BY <2>1, <2>2, <2>b, <1>3 DEF AtLast, AtLastButOne, n, k2
  <2>11. Polls'
    BY <2>1, <2>2, <2>b, <1>3 DEF Polls, k2, q
  <2> QED
    BY <2>9, <2>10, <2>11
<1> QED
  BY <1>5, <1>6, <1>7 DEF Poll

\* What is known of the followers holds at first.
LEMMA FollowInit == TraceInit => FollowInv
<1> SUFFICES ASSUME TraceInit PROVE GoesOn /\ AtLast /\ AtLastButOne /\ Polls
  BY DEF FollowInv
<1>1. /\ current \in Files /\ lines[current] = <<>> /\ got = <<>> /\ count = 0 /\ size = 0
      /\ cursor.file = current /\ cursor.offset = 0 /\ hist.unseen = FALSE /\ hist.polled = 0
      /\ pc[Follower] = "idle"
  BY Names DEF TraceInit
<1>2. Len(<<>>) = 0 /\ DOMAIN <<>> = {}
  BY EmptySeq
<1> QED
  BY <1>1, <1>2 DEF GoesOn, AtLast, AtLastButOne, Polls, RunAfter

\* Each step keeps what is known of the followers.
LEMMA FollowStep ==
    ASSUME Windows, FileInv, FollowInv, [TraceNext]_traceVars
    PROVE  FollowInv'
<1>1. TypeInv /\ TypeInv'
  BY TraceTypeStep DEF FileInv
<1>2. ASSUME NEW p \in Procs, p # Follower, NEW from, NEW to, OpenLog(p, from, to), UNCHANGED hist
      PROVE  FollowInv'
  <2>1. CASE current = NoFile
    BY <1>1, <1>2, <2>1, FollowCreate
  <2>2. CASE current # NoFile
    <3>1. UNCHANGED <<lines, current, rotated, count, follower>>
      BY <1>2, <2>2 DEF OpenLog
    <3>2. pc' = [pc EXCEPT ![p] = to]
      BY <1>2 DEF OpenLog, Goto
    <3> QED
      BY <1>1, <1>2, <3>1, <3>2, Names, FollowFrame DEF TypeInv, TraceTypeOK
  <2> QED
    BY <2>1, <2>2
<1>3. ASSUME NEW t \in Threads,
             \/ Rename(t) \/ RenameRefused(t) \/ NoRotation(t)
             \/ Prune(t) \/ OpenEntry(t) \/ WriteEntry(t)
      PROVE  FollowInv'
  <2>1. t \in Procs /\ t # Follower
    BY Names
  <2>2. CASE RenameRefused(t) \/ NoRotation(t)
    <3>1. UNCHANGED <<lines, current, rotated, count, follower, hist>> /\ pc' = [pc EXCEPT ![t] = "open"]
      BY <2>2 DEF RenameRefused, NoRotation, log, Goto
    <3> QED
      BY <1>1, <2>1, <3>1, Names, FollowFrame DEF TypeInv, TraceTypeOK
  <2>3. CASE OpenEntry(t)
    BY <2>1, <2>3, <1>2 DEF OpenEntry
  <2>4. CASE WriteEntry(t)
    BY <1>1, <2>1, <2>4, FollowWrite DEF WriteEntry
  <2> QED
    BY <1>1, <1>3, <2>2, <2>3, <2>4, FollowRename, FollowPrune
<1>4. ASSUME RetryTime \/ UNCHANGED traceVars PROVE FollowInv'
  BY <1>1, <1>4, FollowFrame DEF RetryTime, traceVars, follower
<1>5. ASSUME CaseMoves \/ Read PROVE FollowInv'
  <2>1. /\ UNCHANGED <<lines, current, rotated, count, follower>>
        /\ \E to : pc' = [pc EXCEPT ![Case] = to]
    BY <1>5 DEF CaseMoves, Read, ReadSegment, BeginCase, EndCase, EndStat, FindCurrent, FindOther,
                List, Cut, Goto, log
  <2>2. hist'.late = hist.late /\ hist'.unseen = hist.unseen /\ hist'.polled = hist.polled
    BY <1>1, <1>5 DEF CaseMoves, Read, ReadSegment, BeginCase, EndCase, EndStat, FindCurrent,
                FindOther, List, Cut, TypeInv, TraceTypeOK
  <2> QED
    BY <1>1, <2>1, <2>2, Names, FollowFrame DEF TypeInv, TraceTypeOK
<1>6. ASSUME BeginOpens \/ EndOpens PROVE FollowInv'
  BY <1>6, <1>2, Names DEF BeginOpens, EndOpens
<1>7. ASSUME BeginMarks \/ EndMarks PROVE FollowInv'
  <2>1. hist'.late = hist.late /\ hist'.unseen = hist.unseen /\ hist'.polled = hist.polled
    BY <1>1, <1>7 DEF BeginMarks, EndMarks, TypeInv, TraceTypeOK
  <2> QED
    BY <1>1, <1>7, <2>1, Names, FollowWrite DEF BeginMarks, EndMarks
<1>8. ASSUME Poll PROVE FollowInv'
  BY <1>1, <1>8, FollowPolls
<1> QED
  BY <1>3, <1>4, <1>5, <1>6, <1>7, <1>8 DEF TraceNext, CaseMoves

\* The files and the follower, on Windows.
LEMMA FollowerInvariant == ASSUME Windows PROVE TraceSpec => [](FileInv /\ FollowInv)
<1>1. TraceInit => FileInv /\ FollowInv
  BY FileInit, FollowInit
<1>2. FileInv /\ FollowInv /\ [TraceNext]_traceVars => FileInv' /\ FollowInv'
  BY OrderStep, FollowStep
<1> QED
  BY <1>1, <1>2, PTL DEF TraceSpec

\* On Windows a follower prints every line once and in order, for any number of
\* writers, rotations and files kept, unless the trace is rotated twice between
\* two of its polls (_read_trace_since).
THEOREM FollowerIsExact == ASSUME Windows PROVE TraceSpec => []FollowerExact
<1>1. FollowInv => FollowerExact
  BY DEF FollowInv, FollowerExact, GoesOn
<1> QED
  BY <1>1, FollowerInvariant, PTL

\* On Windows a poll prints what had been written when it began, in the file
\* that was rotated away since the last one, too (_read_trace_since).
THEOREM FollowerIsUpToDate == ASSUME Windows PROVE TraceSpec => []FollowerUpToDate
<1>1. FileInv /\ FollowInv => FollowerUpToDate
  <2> SUFFICES ASSUME FileInv, FollowInv, pc[Follower] = "idle", ~hist.late
               PROVE  Len(got) >= hist.polled
    BY DEF FollowerUpToDate
  <2>1. hist.polled <= Len(got) /\ hist.polled \in Nat /\ Len(got) \in Nat
    BY FollowerFacts DEF FileInv, FollowInv, Polls
  <2> QED
    BY <2>1
<1> QED
  BY <1>1, FollowerInvariant, PTL

-----------------------------------------------------------------------------
(* The case, on Windows *)

\* What the case and the history hold.
LEMMA CaseFacts ==
    ASSUME TypeInv
    PROVE  /\ hist.began \in Nat /\ hist.marked \in Nat /\ count \in Nat
           /\ hist.disturbed \in BOOLEAN /\ hist.pruned \in BOOLEAN
           /\ meta.start.offset \in Nat /\ meta.end.offset \in Nat
           /\ meta.start.file \in FilesOrNoFile
           /\ Len(slice) \in Nat /\ slice \in Seq(1..MaxLines)
           /\ pc[Case] \in PCs \ {"prune", "old", "new"}
BY Limits, Lengths DEF TypeInv, TraceTypeOK, Opened, Positions

\* CaseInv looks at nothing but this.
LEMMA CaseFrame ==
    ASSUME TypeInv, CaseInv, UNCHANGED <<lines, current, rotated, count, case>>,
           pc'[Case] = pc[Case],
           hist'.began = hist.began, hist'.marked = hist.marked,
           hist'.disturbed = hist.disturbed, hist'.pruned = hist.pruned
    PROVE  CaseInv'
<1>1. Chain' = Chain /\ \A c : FileAt(c)' = FileAt(c) /\ Text(c)' = Text(c)
  BY DEF Chain, FileAt, Text
<1>2. meta' = meta /\ segments' = segments /\ slice' = slice
  BY DEF case
<1>3. Calm' = Calm
  BY DEF Calm
<1>4. \A c : BeganAt(c)' = BeganAt(c)
  BY <1>1, <1>2 DEF BeganAt
<1>5. ASSUME Sliced PROVE Sliced'
  <2>1. Recorded'
    BY <1>1, <1>2, <1>4, <1>5 DEF Sliced, Recorded, Covered
  <2>2. Marked'
    BY <1>2, <1>5 DEF Sliced, Marked
  <2>3. Remaining'
    BY <1>1, <1>2, <1>5 DEF Sliced, Remaining, Covered, From
  <2> QED
    BY <2>1, <2>2, <2>3, <1>2, <1>5 DEF Sliced, RunAfter
<1> QED
  BY <1>2, <1>3, <1>5 DEF CaseInv

\* A rename keeps what is known of the case.
LEMMA CaseRename ==
    ASSUME FileInv, TypeInv', CaseInv, NEW t \in Threads, Rename(t)
    PROVE  CaseInv'
<1> USE DEF FileInv
<1> DEFINE r0   == [file |-> current, stamp |-> stamp + 1]
           m(c) == IF c = r0 THEN TracePath ELSE c
<1>1. /\ current \in Files /\ current' = NoFile /\ rotated' = rotated \cup {r0}
      /\ UNCHANGED <<lines, count, case>> /\ pc' = [pc EXCEPT ![t] = "prune"]
      /\ hist' = [hist EXCEPT !.disturbed = @ \/ CaseRuns,
                              !.late = @ \/ hist.unseen, !.unseen = TRUE]
  BY RenameOrder DEF Rename, Renamed, Goto
<1>2. /\ hist'.began = hist.began /\ hist'.marked = hist.marked /\ hist'.pruned = hist.pruned
      /\ hist'.disturbed = (hist.disturbed \/ CaseRuns)
  BY <1>1 DEF TypeInv, TraceTypeOK
<1>3. pc'[Case] = pc[Case] /\ meta' = meta /\ slice' = slice
  BY <1>1, Names DEF TypeInv, TraceTypeOK, case
<1>4. pc[Case] = "idle" => Calm' /\ slice' = <<>>
  BY <1>2, <1>3, CaseFacts DEF CaseInv, Calm, CaseRuns
<1>5. ASSUME Calm' PROVE Sliced'
  <2>1. pc[Case] \in {"idle", "active", "ended"} /\ Sliced
    BY <1>2, <1>5, CaseFacts DEF CaseInv, Calm, CaseRuns
  <2>2. CASE pc[Case] # "active"
    BY <1>1, <1>2, <1>3, <2>1, <2>2
       DEF Sliced, Recorded, Recording, Starting, Marked, Reading, Remaining, RunAfter
  <2>3. CASE pc[Case] = "active"
    <3>1. Chain' = rotated \cup {r0} /\ Chain = rotated \cup {TracePath}
      BY <1>1, Names DEF Chain
    <3>2. r0 # TracePath /\ r0.stamp = stamp + 1
      BY <1>1, Names DEF TracePath
    <3>3. \A c \in Chain' : m(c) \in Chain /\ FileAt(c)' = FileAt(m(c)) /\ Text(c)' = Text(m(c))
      BY <1>1, <3>1, <3>2, ChainMembers DEF FileAt, Text
    <3>4. \A c \in rotated : c.stamp \in Nat /\ c.stamp <= stamp /\ c.stamp < TracePath.stamp
                             /\ c # TracePath
      BY ChainMembers
    <3>5. stamp \in Nat /\ TracePath.stamp \in Nat
      BY ChainMembers
    <3>6. \A c, d \in Chain' : c.stamp < d.stamp => m(c).stamp < m(d).stamp
      BY <3>1, <3>2, <3>4, <3>5
    <3>7. \A c \in Chain : \E d \in Chain' : m(d) = c
      <4> TAKE c \in Chain
      <4>1. CASE c = TracePath
        <5>1. r0 \in Chain' /\ m(r0) = c
          BY <3>1, <4>1
        <5> QED
          BY <5>1
      <4>2. CASE c # TracePath /\ c # r0
        <5>1. c \in Chain' /\ m(c) = c
          BY <3>1, <4>2
        <5> QED
          BY <5>1
      <4>3. c # r0
        BY <3>1, <3>2, <3>4, <3>5
      <4> QED
        BY <4>1, <4>2, <4>3
    <3> HIDE DEF m, r0
    <3>8. (\E c \in Chain : BeganAt(c)) /\ Covered(hist.began, Chain) /\ slice = <<>>
      BY <2>1, <2>3 DEF Sliced, Recorded, Recording
    <3>9. \A c \in Chain' : BeganAt(m(c)) => BeganAt(c)'
      BY <1>1, <1>2, <1>3, <2>3, <3>3, <3>6 DEF BeganAt, Starting
    <3>10. \E c \in Chain' : BeganAt(c)'
      BY <3>7, <3>8, <3>9
    <3>11. Covered(hist.began, Chain)'
      <4> SUFFICES ASSUME NEW n \in 1..count, hist.began < n
                   PROVE  \E c \in Chain' : \E i \in DOMAIN Text(c)' : Text(c)'[i] = n
        BY <1>1, <1>2 DEF Covered
      <4>1. PICK c \in Chain : \E i \in DOMAIN Text(c) : Text(c)[i] = n
        BY <3>8 DEF Covered
      <4>2. PICK d \in Chain' : m(d) = c
        BY <3>7
      <4> QED
        BY <3>3, <4>1, <4>2
    <3>12. Recorded'
      BY <1>3, <2>3, <3>8, <3>10, <3>11 DEF Recorded
    <3> QED
      BY <1>1, <1>2, <1>3, <2>1, <2>3, <3>12
         DEF Sliced, Marked, Reading, Remaining, RunAfter
  <2> QED
    BY <2>2, <2>3
<1> QED
  BY <1>3, <1>4, <1>5 DEF CaseInv

\* Removing a segment keeps it.
LEMMA CasePrune ==
    ASSUME FileInv, TypeInv', CaseInv, NEW t \in Threads, Prune(t)
    PROVE  CaseInv'
<1> USE DEF FileInv
<1>1. PICK gone \in SUBSET rotated :
         /\ rotated' = rotated \ gone
         /\ hist' = [hist EXCEPT !.pruned = @ \/ \E r \in gone : r.file \in Needed]
  <2> DEFINE g == {r \in rotated : /\ Cardinality({q \in rotated : q.stamp > r.stamp}) >= Keep
                                   /\ Windows => ~IsOpen(r.file)}
  <2>1. g \in SUBSET rotated
    OBVIOUS
  <2>2. rotated' = rotated \ g /\ hist' = [hist EXCEPT !.pruned = @ \/ \E r \in g : r.file \in Needed]
    BY DEF Prune
  <2> QED
    BY <2>1, <2>2
<1>2. pc' = [pc EXCEPT ![t] = "open"] /\ UNCHANGED <<lines, current, count, case>>
  BY DEF Prune, Goto
<1>3. pc'[Case] = pc[Case] /\ meta' = meta /\ slice' = slice /\ segments' = segments
  BY <1>2, Names DEF TypeInv, TraceTypeOK, case
<1>4. /\ hist'.began = hist.began /\ hist'.marked = hist.marked
      /\ hist'.disturbed = hist.disturbed
      /\ hist'.pruned = (hist.pruned \/ \E r \in gone : r.file \in Needed)
  BY <1>1 DEF TypeInv, TraceTypeOK
<1>5. Chain' \subseteq Chain /\ \A c : FileAt(c)' = FileAt(c) /\ Text(c)' = Text(c)
  BY PruneOrder
<1>6. \A c \in Chain : c \in Chain' \/ c \in gone
  BY <1>1, <1>2 DEF Chain
<1>7. pc[Case] = "idle" => Calm' /\ slice' = <<>>
  <2> HAVE pc[Case] = "idle"
  <2>1. Needed = {}
    BY DEF Needed
  <2> QED
    BY <1>3, <1>4, <2>1 DEF CaseInv, Calm
<1>8. ASSUME Calm' PROVE Sliced'
  <2>1. Sliced /\ \A r \in gone : r.file \notin Needed
    BY <1>4, <1>8 DEF CaseInv, Calm
  <2>2. pc[Case] # "idle" => \A c \in Chain : \A i \in DOMAIN Text(c) :
           Text(c)[i] > hist.began => c \in Chain'
    <3> SUFFICES ASSUME pc[Case] # "idle", NEW c \in Chain, NEW i \in DOMAIN Text(c),
                        Text(c)[i] > hist.began, c \in gone
                 PROVE  FALSE
      BY <1>6
    <3>1. c.file \in Files /\ Text(c) = lines[c.file]
      BY ChainMembers DEF Text
    <3> QED
      BY <2>1, <3>1 DEF Needed
  <2>3. ASSUME pc[Case] \in Recording PROVE Recorded'
    <3>1. pc[Case] # "idle"
      BY <2>3 DEF Recording, Starting
    <3>2. PICK c \in Chain : BeganAt(c)
      BY <2>1, <2>3 DEF Sliced, Recorded
    <3>3. c \in Chain'
      <4>1. CASE pc[Case] \in Starting
        <5>1. c = TracePath
          BY <3>2, <4>1 DEF BeganAt
        <5> QED
          BY <5>1, <1>1, <1>6, ChainMembers
      <4>2. CASE pc[Case] \notin Starting
        <5>1. meta.start.offset < Len(Text(c)) /\ meta.start.offset \in Nat /\ Len(Text(c)) \in Nat
              /\ DOMAIN Text(c) = 1..Len(Text(c))
          BY <3>2, <4>2, CaseFacts, ChainMembers DEF BeganAt
        <5>2. meta.start.offset + 1 \in DOMAIN Text(c) /\ meta.start.offset + 1 > meta.start.offset
          BY <5>1
        <5>3. Text(c)[meta.start.offset + 1] > hist.began
          BY <3>2, <5>2 DEF BeganAt
        <5> QED
          BY <2>2, <3>1, <5>2, <5>3
      <4> QED
        BY <4>1, <4>2
    <3>4. BeganAt(c)'
      BY <1>3, <1>4, <1>5, <3>2 DEF BeganAt
    <3>5. Covered(hist.began, Chain)'
      <4> SUFFICES ASSUME NEW n \in 1..count, hist.began < n
                   PROVE  \E d \in Chain' : \E i \in DOMAIN Text(d) : Text(d)[i] = n
        BY <1>2, <1>4, <1>5 DEF Covered
      <4>1. PICK d \in Chain : \E i \in DOMAIN Text(d) : Text(d)[i] = n
        BY <2>1, <2>3 DEF Sliced, Recorded, Covered
      <4>2. n > hist.began
        BY CaseFacts
      <4> QED
        BY <2>2, <3>1, <4>1, <4>2
    <3> QED
      BY <1>2, <1>3, <2>1, <2>3, <3>3, <3>4, <3>5 DEF Sliced, Recorded
  <2>4. Marked'
    BY <1>2, <1>3, <1>4, <2>1 DEF Sliced, Marked
  <2>5. ASSUME pc[Case] \in Reading PROVE Remaining'
    <3>1. pc[Case] # "idle" /\ Remaining
      BY <2>1, <2>5 DEF Reading, Sliced
    <3>2. TracePath \in Chain'
      <4>1. TracePath \in Chain
        BY <2>5, <3>1 DEF Remaining
      <4> QED
        BY <4>1, <1>1, <1>6, ChainMembers
    <3>3. segments \subseteq Chain'
      BY <2>2, <2>5, <3>1, <3>2 DEF Remaining
    <3> QED
      BY <1>2, <1>3, <1>4, <1>5, <3>1, <3>3 DEF Remaining, Covered, From
  <2> QED
    BY <1>2, <1>3, <1>4, <2>1, <2>3, <2>4, <2>5 DEF Sliced, RunAfter, Recorded, Remaining
<1> QED
  BY <1>3, <1>7, <1>8 DEF CaseInv

\* An open that makes the file trace.jsonl, by a writer or by the case.
LEMMA CaseCreate ==
    ASSUME FileInv, TypeInv', CaseInv, NEW p \in Procs,
           NEW from, NEW to, OpenLog(p, from, to), current = NoFile, UNCHANGED hist,
           p = Case => from \in {"open", "endopen"},
           p = Case => to = IF from = "open" THEN "write" ELSE "endwrite"
    PROVE  CaseInv'
<1> USE DEF FileInv
<1>1. /\ Chain = rotated /\ Chain' = rotated \cup {TracePath} /\ count' = count
      /\ \A c \in rotated : FileAt(c)' = FileAt(c) /\ Text(c)' = Text(c)
      /\ \A c \in rotated : c # TracePath /\ c.stamp \in Nat /\ c.stamp < TracePath.stamp
      /\ TracePath.stamp \in Nat
  BY CreateOrder, ChainMembers
<1>2. pc[p] = from /\ pc' = [pc EXCEPT ![p] = to] /\ UNCHANGED case
  BY OpenLogDoes DEF OpenLog
<1>3. meta' = meta /\ slice' = slice /\ hist' = hist /\ Calm' = Calm
  BY <1>2 DEF case, Calm
<1>4. pc'[Case] = pc[Case] \/ (pc[Case] = "open" /\ pc'[Case] = "write")
      \/ (pc[Case] = "endopen" /\ pc'[Case] = "endwrite")
  BY <1>2, Names DEF TypeInv, TraceTypeOK
<1>5. pc'[Case] = "idle" => Calm' /\ slice' = <<>>
  BY <1>3, <1>4 DEF CaseInv
<1>6. ASSUME Calm' PROVE Sliced'
  <2>1. Sliced
    BY <1>3, <1>6 DEF CaseInv
  <2>2. pc[Case] \notin {"endstat", "find", "list", "cut", "read"}
    BY <2>1 DEF Sliced, Marked, Reading
  <2>3. ASSUME pc[Case] \in Recording
        PROVE  /\ pc[Case] \notin Starting /\ slice = <<>> /\ Covered(hist.began, Chain)
               /\ \E c \in rotated : BeganAt(c)
    <3>1. PICK c \in Chain : BeganAt(c)
      BY <2>1, <2>3 DEF Sliced, Recorded
    <3>2. c \in rotated /\ c # TracePath
      BY <1>1
    <3> QED
      BY <2>1, <2>3, <3>1, <3>2 DEF Sliced, Recorded, BeganAt
  <2>4. ASSUME pc'[Case] \in Recording PROVE Recorded'
    <3>1. pc[Case] \in Recording /\ pc'[Case] # "list" /\ pc'[Case] \notin Starting
      BY <1>4, <2>2, <2>3, <2>4 DEF Recording, Starting
    <3>2. PICK c \in rotated : BeganAt(c)
      BY <2>3, <3>1
    <3>3. \A d \in Chain' : d.stamp < c.stamp => d \in rotated
      BY <1>1
    <3>4. BeganAt(c)'
      BY <1>1, <1>3, <2>3, <3>1, <3>2, <3>3 DEF BeganAt
    <3>5. Covered(hist.began, Chain)'
      BY <1>1, <1>3, <2>3, <3>1 DEF Covered
    <3> QED
      BY <1>1, <1>3, <2>3, <3>1, <3>4, <3>5 DEF Recorded
  <2> QED
    BY <1>1, <1>3, <1>4, <2>1, <2>2, <2>4
       DEF Sliced, Recorded, Marked, Reading, Remaining, RunAfter
<1> QED
  BY <1>5, <1>6 DEF CaseInv

\* A writer that opens trace.jsonl, or the case that does: no file changes.
LEMMA CaseOpen ==
    ASSUME FileInv, TypeInv', CaseInv, NEW p \in Procs,
           NEW from, NEW to, OpenLog(p, from, to), UNCHANGED hist,
           p = Case => from \in {"open", "endopen"},
           p = Case => to = IF from = "open" THEN "write" ELSE "endwrite"
    PROVE  CaseInv'
<1>1. CASE current = NoFile
  BY <1>1, CaseCreate
<1>2. CASE current # NoFile /\ p # Case
  <2>1. pc' = [pc EXCEPT ![p] = to] /\ UNCHANGED <<lines, current, rotated, count, case>>
    BY <1>2 DEF OpenLog, Goto
  <2> QED
    BY <1>2, <2>1, Names, CaseFrame DEF FileInv, TypeInv, TraceTypeOK
<1>3. CASE current # NoFile /\ p = Case
  <2>1. /\ pc[Case] = from /\ pc' = [pc EXCEPT ![Case] = to]
        /\ UNCHANGED <<lines, current, rotated, count, case, hist>>
    BY <1>3 DEF OpenLog, Goto
  <2>2. \/ pc[Case] = "open" /\ pc'[Case] = "write"
        \/ pc[Case] = "endopen" /\ pc'[Case] = "endwrite"
    BY <1>3, <2>1, Names DEF FileInv, TypeInv, TraceTypeOK
  <2>3. Chain' = Chain /\ \A c : FileAt(c)' = FileAt(c) /\ Text(c)' = Text(c)
    BY <2>1 DEF Chain, FileAt, Text
  <2>4. Calm' = Calm /\ meta' = meta /\ slice' = slice
    BY <2>1 DEF Calm, case
  <2>5. ASSUME Sliced PROVE Sliced'
    <3>1. (\E c \in Chain : BeganAt(c)) /\ Covered(hist.began, Chain) /\ slice = <<>>
      BY <2>2, <2>5 DEF Sliced, Recorded, Recording, Starting
    <3>2. \A c : BeganAt(c) => BeganAt(c)'
      BY <2>1, <2>2, <2>3, <2>4 DEF BeganAt, Starting
    <3>3. Covered(hist.began, Chain)'
      BY <2>1, <2>3, <3>1 DEF Covered
    <3>4. Recorded'
      BY <2>2, <2>3, <2>4, <3>1, <3>2, <3>3 DEF Recorded
    <3> QED
      BY <2>1, <2>2, <2>4, <2>5, <3>4 DEF Sliced, Marked, Reading, Remaining, RunAfter
  <2> QED
    BY <2>2, <2>4, <2>5 DEF CaseInv
<1> QED
  BY <1>1, <1>2, <1>3

\* A new line keeps it.
LEMMA CaseWrite ==
    ASSUME FileInv, TypeInv', CaseInv, NEW p \in Procs,
           NEW from \in {"write", "endwrite"}, NEW to, WriteLine(p, from, to),
           hist'.began = hist.began, hist'.disturbed = hist.disturbed,
           hist'.pruned = hist.pruned,
           hist'.marked = IF pc[Case] = "endwrite" /\ p = Case THEN count + 1 ELSE hist.marked,
           p = Case => to = IF from = "write" THEN "active" ELSE "endstat"
    PROVE  CaseInv'
<1> USE DEF FileInv
<1> DEFINE n == Len(lines[current])
           b == hist.began
           k == Len(slice)
           o == meta.start.offset
<1>1. /\ current' = current /\ current \in Files /\ rotated' = rotated
      /\ Chain' = Chain /\ TracePath \in Chain /\ count' = count + 1
      /\ \A c : FileAt(c)' = FileAt(c)
      /\ \A c \in Chain : c # TracePath => Text(c)' = Text(c) /\ FileAt(c) # current
  BY WriteOrder
<1>2. /\ Len(lines'[current]) = n + 1 /\ DOMAIN lines'[current] = 1..(n + 1)
      /\ \A i \in 1..n : lines'[current][i] = lines[current][i]
      /\ lines'[current][n + 1] = count + 1
  BY WriteOrder
<1>3. /\ Text(TracePath) = lines[current] /\ Text(TracePath)' = lines'[current]
      /\ FileAt(TracePath) = current /\ DOMAIN lines[current] = 1..n /\ n \in Nat
  BY <1>1, Lengths DEF Text, FileAt
<1>4. pc[p] = from /\ pc' = [pc EXCEPT ![p] = to] /\ UNCHANGED case
  BY DEF WriteLine, Goto
<1>5. meta' = meta /\ slice' = slice /\ segments' = segments /\ Calm' = Calm
  BY <1>4 DEF case, Calm
<1>6. \/ p # Case /\ pc'[Case] = pc[Case] /\ hist'.marked = hist.marked
      \/ pc[Case] = "write" /\ pc'[Case] = "active" /\ hist'.marked = hist.marked
      \/ pc[Case] = "endwrite" /\ pc'[Case] = "endstat" /\ hist'.marked = count + 1
  BY <1>4, Names DEF TypeInv, TraceTypeOK
<1>7. pc'[Case] = "idle" => Calm' /\ slice' = <<>>
  BY <1>5, <1>6 DEF CaseInv
<1>8. b \in Nat /\ k \in Nat /\ o \in Nat /\ count \in Nat
  BY CaseFacts
<1>9. \A c \in Chain : c # TracePath => c.stamp < TracePath.stamp
  BY ChainMembers
<1>10. \A c \in Chain : c.stamp \in Nat
  BY ChainMembers
<1>11. ASSUME Calm' PROVE Sliced'
  <2>1. Sliced /\ b <= count
    BY <1>5, <1>11 DEF CaseInv, Sliced
  <2>2. b < count + 1
    BY <1>8, <2>1
  <2>3. \A m \in 1..(count + 1) : m \in 1..count \/ m = count + 1
    BY <1>8
  <2>4. \A i \in 1..(n + 1) : i \in 1..n \/ i = n + 1
    BY <1>3
  <2>5. ASSUME NEW c \in Chain, NEW i \in DOMAIN Text(c)
        PROVE  i \in DOMAIN Text(c)' /\ Text(c)'[i] = Text(c)[i]
    <3>1. CASE c = TracePath
      <4>1. i \in 1..n /\ i \in 1..(n + 1)
        BY <2>5, <3>1, <1>3
      <4> QED
        BY <3>1, <4>1, <1>2, <1>3
    <3>2. CASE c # TracePath
      BY <3>2, <1>1, <2>5
    <3> QED
      BY <3>1, <3>2
  <2>6. ASSUME NEW a, NEW files, files \subseteq Chain, TracePath \in files, Covered(a, files)
        PROVE  \A m \in 1..count' : a < m =>
                  \E c \in files : \E i \in DOMAIN Text(c)' : Text(c)'[i] = m
    <3> TAKE m \in 1..count'
    <3> HAVE a < m
    <3>1. CASE m \in 1..count
      <4>1. PICK c \in files : \E i \in DOMAIN Text(c) : Text(c)[i] = m
        BY <2>6, <3>1 DEF Covered
      <4> QED
        BY <4>1, <2>5, <2>6
    <3>2. CASE m = count + 1
      <4>1. n + 1 \in DOMAIN Text(TracePath)' /\ Text(TracePath)'[n + 1] = m
        BY <3>2, <1>2, <1>3
      <4> QED
        BY <4>1, <2>6
    <3> QED
      BY <3>1, <3>2, <2>3, <1>1
  <2>7. ASSUME pc'[Case] \in Recording PROVE Recorded'
    <3>1. pc[Case] \in Recording /\ (pc'[Case] = "list" => pc[Case] = "list")
          /\ (pc'[Case] \in Starting => pc[Case] \in Starting)
      BY <1>6, <2>7 DEF Recording, Starting
    <3>2. PICK c \in Chain : BeganAt(c)
      BY <2>1, <3>1 DEF Sliced, Recorded
    <3>3. \A d \in Chain : d.stamp < c.stamp => d # TracePath
      BY <1>9, <1>10, <1>1
    <3>a. Covered(hist.began, Chain)'
      <4>1. Covered(b, Chain)
        BY <2>1, <3>1 DEF Sliced, Recorded
      <4>2. \A m \in 1..count' : b < m =>
               \E d \in Chain : \E i \in DOMAIN Text(d)' : Text(d)'[i] = m
        BY <4>1, <2>6, <1>1
      <4> QED
        BY <4>2, <1>1 DEF Covered
    <3>b. BeganAt(c)' => Recorded'
      BY <3>a, <1>1, <1>5, <2>1, <3>1 DEF Sliced, Recorded
    <3>4. CASE c # TracePath
      <4>1. pc[Case] \notin Starting
        BY <3>2, <3>4 DEF BeganAt
      <4>2. BeganAt(c)'
        BY <1>1, <1>5, <3>1, <3>2, <3>3, <3>4, <4>1 DEF BeganAt
      <4> QED
        BY <4>2, <3>b
    <3>5. CASE c = TracePath
      <4>1. /\ current = meta.start.file /\ o <= n
            /\ \A i \in 1..n : lines[current][i] > b <=> i > o
        BY <3>2, <3>5, <1>3 DEF BeganAt
      <4>2. o <= n + 1 /\ o < n + 1 /\ n + 1 > o /\ count + 1 > b
        BY <4>1, <1>3, <1>8, <2>2
      <4>3. \A i \in 1..(n + 1) : lines'[current][i] > b <=> i > o
        BY <4>1, <4>2, <2>4, <1>2
      <4>a. /\ FileAt(c)' = meta'.start.file /\ meta'.start.offset <= Len(Text(c)')
            /\ meta'.start.offset < Len(Text(c)')
        BY <1>1, <1>2, <1>3, <1>5, <3>5, <4>1, <4>2
      <4>b. \A i \in DOMAIN Text(c)' : Text(c)'[i] > hist'.began <=> i > meta'.start.offset
        BY <1>2, <1>3, <1>5, <3>5, <4>3
      <4>c. \A d \in Chain' : d.stamp < c.stamp =>
               \A i \in DOMAIN Text(d)' : Text(d)'[i] <= hist'.began
        BY <1>1, <3>2, <3>3 DEF BeganAt
      <4>4. BeganAt(c)'
        BY <3>1, <3>5, <4>a, <4>b, <4>c DEF BeganAt
      <4> QED
        BY <4>4, <3>b
    <3> QED
      BY <3>4, <3>5
  <2>8. Marked'
    <3> SUFFICES ASSUME pc'[Case] \in {"endstat", "find", "list"} \cup Reading
                 PROVE  /\ current' # NoFile
                        /\ \E i \in DOMAIN lines'[current] :
                              /\ lines'[current][i] = hist'.marked
                              /\ pc'[Case] # "endstat" =>
                                    /\ meta.end.file = current
                                    /\ meta.end.offset <= Len(lines'[current])
                                    /\ i <= meta.end.offset
      BY <1>1, <1>5 DEF Marked
    <3>1. CASE pc[Case] = "endwrite"
      <4>1. pc'[Case] = "endstat"
        BY <3>1, <1>6 DEF Reading
      <4>2. n + 1 \in DOMAIN lines'[current] /\ lines'[current][n + 1] = count + 1
        BY <1>2, <1>3
      <4> QED
        BY <3>1, <4>1, <4>2, <1>1, <1>6, Names DEF Reading
    <3>2. CASE pc[Case] # "endwrite"
      <4>1. pc'[Case] = pc[Case] /\ hist'.marked = hist.marked
        BY <3>2, <1>6 DEF Reading
      <4>2. PICK i \in DOMAIN lines[current] :
                /\ lines[current][i] = hist.marked
                /\ pc[Case] # "endstat" =>
                      /\ meta.end.file = current /\ meta.end.offset <= n
                      /\ i <= meta.end.offset
        BY <4>1, <2>1 DEF Sliced, Marked
      <4>3. i \in DOMAIN lines'[current] /\ lines'[current][i] = hist'.marked
        BY <4>1, <4>2, <1>2, <1>3
      <4>4. meta.end.offset <= n => meta.end.offset <= Len(lines'[current])
        BY <1>2, <1>3, CaseFacts
      <4> QED
        BY <4>1, <4>2, <4>3, <4>4, <1>1, Names
    <3> QED
      BY <3>1, <3>2
  <2>9. ASSUME pc'[Case] \in Reading PROVE Remaining'
    <3>1. pc'[Case] = pc[Case] /\ Remaining /\ pc[Case] \in Reading
      BY <1>6, <2>1, <2>9 DEF Reading, Sliced
    <3>2. /\ TracePath \in segments /\ segments \subseteq Chain
          /\ b + k <= count
          /\ \A s \in segments : s # TracePath =>
                \E i \in DOMAIN Text(s) : Text(s)[i] > b
          /\ Covered(b + k, segments)
          /\ \A s \in segments : \A i \in DOMAIN Text(s) : Text(s)[i] > b + k <=> i > From(s)
      BY <3>1 DEF Remaining
    <3>3. b + k <= count
      BY <3>2
    <3>4. o = 0 \/ \E s \in segments : /\ FileAt(s) = meta.start.file /\ o <= Len(Text(s))
                                       /\ \A q \in segments : s.stamp <= q.stamp
      BY <3>1 DEF Remaining
    <3>5. o = 0 \/ \E s \in segments : /\ FileAt(s) = meta.start.file /\ o <= Len(Text(s)')
                                       /\ \A q \in segments : s.stamp <= q.stamp
      <4>1. CASE o = 0
        BY <4>1
      <4>2. CASE o # 0
        <5>1. PICK s \in segments : /\ FileAt(s) = meta.start.file /\ o <= Len(Text(s))
                                    /\ \A q \in segments : s.stamp <= q.stamp
          BY <3>4, <4>2
        <5>2. o <= Len(Text(s)')
          <6>1. CASE s = TracePath
            BY <5>1, <6>1, <1>2, <1>3, <1>8
          <6>2. CASE s # TracePath
            BY <5>1, <6>2, <1>1, <3>2
          <6> QED
            BY <6>1, <6>2
        <5> QED
          BY <5>1, <5>2
      <4> QED
        BY <4>1, <4>2
    <3>6. From(TracePath) <= n
      <4>1. CASE meta.start.file # current \/ o = 0
        BY <4>1, <1>3 DEF From
      <4>2. CASE meta.start.file = current /\ o # 0
        <5>1. PICK s \in segments : FileAt(s) = meta.start.file /\ o <= Len(Text(s))
          BY <3>4, <4>2
        <5>2. s = TracePath
          BY <5>1, <4>2, <3>2, <1>1
        <5> QED
          BY <5>1, <5>2, <4>2, <1>3 DEF From
      <4> QED
        BY <4>1, <4>2
    <3>7. From(TracePath) \in Nat
      BY <1>8 DEF From
    <3>8. \A s : From(s)' = From(s)
      BY <1>1, <1>5 DEF From
    <3> DEFINE a == b + k
               g == From(TracePath)
    <3>9. a \in Nat /\ a <= count /\ a < count + 1 /\ n + 1 > g /\ a <= count + 1
      <4>1. a \in Nat /\ a <= count
        BY <1>8, <3>3
      <4> HIDE DEF a, g, n
      <4>2. g <= n /\ g \in Nat
        BY <3>6, <3>7 DEF g, n
      <4> QED
        BY <4>1, <4>2, <1>3, <1>8
    <3> HIDE DEF a
    <3>10. ASSUME NEW s \in segments, NEW i \in DOMAIN Text(s)'
           PROVE  Text(s)'[i] > a <=> i > From(s)
      <4>1. CASE i \in DOMAIN Text(s)
        BY <4>1, <3>2, <2>5 DEF a
      <4>2. CASE s = TracePath /\ i = n + 1
        BY <4>2, <3>9, <1>2, <1>3, <1>8
      <4>3. i \in DOMAIN Text(s) \/ (s = TracePath /\ i = n + 1)
        <5>1. CASE s = TracePath
          BY <5>1, <3>10, <1>2, <1>3, <2>4
        <5>2. CASE s # TracePath
          BY <5>2, <3>2, <3>10, <1>1
        <5> QED
          BY <5>1, <5>2
      <4> QED
        BY <4>1, <4>2, <4>3
    <3>11. \A s \in segments : s # TracePath => \E i \in DOMAIN Text(s)' : Text(s)'[i] > b
      BY <3>2, <1>1
    <3>12. \A m \in 1..count' : a < m =>
              \E c \in segments : \E i \in DOMAIN Text(c)' : Text(c)'[i] = m
      BY <2>6, <3>2 DEF a
    <3>13. pc[Case] = "cut" => slice = <<>>
      BY <3>1 DEF Remaining
    <3> HIDE DEF n, b, k, o, g
    <3>14. hist'.began + Len(slice') = a
      BY <1>5 DEF a, b, k
    <3> QED
      BY <1>1, <1>5, <3>1, <3>2, <3>5, <3>8, <3>9, <3>10, <3>11, <3>12, <3>13, <3>14
         DEF Remaining, Covered, o, b
  <2>10. pc'[Case] = "ended" => hist'.marked <= hist'.began + Len(slice')
    BY <1>5, <1>6, <2>1 DEF Sliced
  <2>11. hist'.began <= count'
    BY <1>1, <2>2, <1>8
  <2>12. RunAfter(slice, hist.began)'
    BY <1>5, <2>1 DEF Sliced, RunAfter
  <2>13. Recorded' /\ Remaining'
    BY <2>7, <2>9 DEF Recorded, Remaining
  <2> QED
    BY <2>8, <2>10, <2>11, <2>12, <2>13 DEF Sliced
<1> QED
  BY <1>7, <1>11 DEF CaseInv

\* The position of a case is that of trace.jsonl when it begins.
LEMMA CaseBegins ==
    ASSUME FileInv, TypeInv', CaseInv, BeginCase
    PROVE  CaseInv'
<1> USE DEF FileInv
<1>1. /\ pc[Case] = "idle" /\ pc' = [pc EXCEPT ![Case] = "open"]
      /\ hist' = [hist EXCEPT !.began = count, !.disturbed = (current = NoFile)]
      /\ UNCHANGED <<log, handle, segments, slice, follower>>
      /\ \E since : meta' = [start |-> StatCurrent, end |-> Nowhere, since |-> since]
  BY DEF BeginCase, Goto
<1>2. pc'[Case] = "open" /\ slice = <<>>
  BY <1>1, Names DEF TypeInv, TraceTypeOK, CaseInv
<1>3. /\ hist'.began = count /\ hist'.disturbed = (current = NoFile)
      /\ meta'.start = StatCurrent
  BY <1>1 DEF TypeInv, TraceTypeOK
<1>4. ASSUME Calm' PROVE Sliced'
  <2>1. UNCHANGED <<lines, current, rotated, count>> /\ current # NoFile /\ slice' = slice
    BY <1>1, <1>3, <1>4 DEF log, Calm
  <2>2. Chain' = Chain /\ \A c : FileAt(c)' = FileAt(c) /\ Text(c)' = Text(c)
    BY <2>1 DEF Chain, FileAt, Text
  <2>3. /\ meta'.start.file = current /\ meta'.start.offset = Len(lines[current])
        /\ TracePath \in Chain /\ FileAt(TracePath) = current /\ Text(TracePath) = lines[current]
        /\ Len(lines[current]) \in Nat /\ DOMAIN lines[current] = 1..Len(lines[current])
        /\ count \in Nat
    BY <1>3, <2>1, StatIsPosition, ChainMembers
  <2>4. \A c \in Chain : \A i \in DOMAIN Text(c) : Text(c)[i] <= count /\ Text(c)[i] \in Nat
    BY ChainMembers DEF InOrder, LastLine
  <2>5. BeganAt(TracePath)'
    <3>1. \A i \in DOMAIN lines[current] : lines[current][i] > count <=> i > Len(lines[current])
      BY <2>3, <2>4
    <3>2. pc'[Case] \in Starting
      BY <1>2 DEF Starting
    <3>3. meta'.start.offset <= Len(lines[current])
      BY <2>3
    <3> QED
      BY <1>3, <2>1, <2>2, <2>3, <2>4, <3>1, <3>2, <3>3 DEF BeganAt
  <2>6. Covered(hist.began, Chain)'
    BY <1>3, <2>1, <2>3 DEF Covered
  <2>7. Recorded'
    BY <1>2, <2>1, <2>2, <2>3, <2>5, <2>6 DEF Recorded
  <2>8. slice' = <<>> /\ hist'.began <= count'
    BY <1>2, <1>3, <2>1, <2>3
  <2> QED
    BY <1>2, <2>7, <2>8 DEF Sliced, Marked, Reading, Remaining, RunAfter
<1> QED
  BY <1>2, <1>4 DEF CaseInv

\* The steps of case-end up to the list of files to read, and the two that move on.
LEMMA CaseEnds ==
    ASSUME FileInv, TypeInv', CaseInv, EndCase \/ EndStat \/ FindOther
    PROVE  CaseInv'
<1> USE DEF FileInv
<1>1. /\ UNCHANGED <<lines, current, rotated, count, slice, segments, hist>>
      /\ meta'.start = meta.start
  BY DEF EndCase, EndStat, FindOther, log, case, TypeInv, TraceTypeOK
<1>2. Chain' = Chain /\ Calm' = Calm /\ \A c : FileAt(c)' = FileAt(c) /\ Text(c)' = Text(c)
  BY <1>1 DEF Chain, FileAt, Text, Calm
<1>3. \/ EndCase /\ pc[Case] = "active" /\ pc'[Case] = "endopen"
      \/ EndStat /\ pc[Case] = "endstat" /\ pc'[Case] = "find"
      \/ FindOther /\ pc[Case] = "find" /\ pc'[Case] = "list"
  BY Names DEF EndCase, EndStat, FindOther, Goto, TypeInv, TraceTypeOK
<1>4. ASSUME Calm PROVE Sliced'
  <2>1. Sliced
    BY <1>4 DEF CaseInv
  <2>2. Recorded /\ pc[Case] \in Recording /\ pc[Case] \notin Starting
        /\ pc'[Case] \in Recording /\ pc'[Case] \notin Starting
    BY <1>3, <2>1 DEF Sliced, Recording, Starting
  <2>3. PICK c \in Chain : BeganAt(c)
    BY <2>2 DEF Recorded
  <2>4. BeganAt(c)'
    BY <1>1, <1>2, <2>2, <2>3 DEF BeganAt
  <2>5. FindOther => meta'.start.file # current'
    <3> SUFFICES ASSUME FindOther, meta.start.file = current PROVE FALSE
      BY <1>1
    <3>1. current # NoFile
      BY <1>3, <2>1 DEF Sliced, Marked, EndCase, EndStat, FindOther, Goto
    <3>2. FileAt(c) = current /\ meta.start.offset <= Len(Text(c)) /\ Text(c) = lines[current]
      BY <2>3 DEF BeganAt, Text
    <3>3. meta.start.offset \in Nat /\ Len(Text(c)) \in Nat
      BY CaseFacts, ChainMembers
    <3>4. BeganIn(current)
      BY <3>2, <3>3 DEF BeganIn
    <3> QED
      BY <3>1, <3>4 DEF FindOther
  <2>6. Recorded'
    <3>1. pc'[Case] = "list" => meta'.start.file # current'
      BY <1>3, <2>5
    <3>2. Covered(hist.began, Chain)'
      BY <1>1, <1>2, <2>2 DEF Recorded, Covered
    <3> QED
      BY <1>1, <1>2, <2>2, <2>3, <2>4, <3>1, <3>2 DEF Recorded
  <2>7. Marked'
    <3>1. CASE EndCase
      BY <3>1, <1>3 DEF Marked, Reading, EndCase, Goto
    <3>2. CASE EndStat
      <4>1. pc[Case] = "endstat" /\ pc'[Case] = "find" /\ meta' = [meta EXCEPT !.end = StatCurrent]
        BY <3>2, Names DEF EndStat, Goto, TypeInv, TraceTypeOK
      <4>2. /\ current \in Files /\ current # NoFile
            /\ \E i \in DOMAIN lines[current] : lines[current][i] = hist.marked
        BY <4>1, <2>1, ChainMembers DEF Sliced, Marked
      <4>3. meta'.end.file = current /\ meta'.end.offset = Len(lines[current])
        BY <4>1, <4>2, StatIsPosition DEF TypeInv, TraceTypeOK
      <4>4. \A i \in DOMAIN lines[current] : i <= Len(lines[current])
        BY <4>2, Lengths
      <4>5. Len(lines[current]) <= Len(lines[current])
        BY <4>2, Lengths
      <4> QED
        BY <4>1, <4>2, <4>3, <4>4, <4>5, <1>1 DEF Marked
    <3>3. CASE FindOther
      <4>1. pc[Case] = "find" /\ pc'[Case] = "list" /\ meta' = meta
        BY <3>3, Names DEF FindOther, Goto, TypeInv, TraceTypeOK, case
      <4> QED
        BY <4>1, <1>1, <2>1 DEF Sliced, Marked
    <3> QED
      BY <1>3, <3>1, <3>2, <3>3
  <2> QED
    BY <1>1, <1>3, <2>1, <2>6, <2>7 DEF Sliced, Remaining, Reading, RunAfter
<1> QED
  BY <1>2, <1>3, <1>4 DEF CaseInv

\* The files to read are those with lines of the case.
LEMMA CaseFinds ==
    ASSUME FileInv, TypeInv', CaseInv, FindCurrent \/ List
    PROVE  CaseInv'
<1> USE DEF FileInv
<1>1. UNCHANGED <<lines, current, rotated, count, slice, meta, hist>>
  BY DEF FindCurrent, List, log
<1>2. Chain' = Chain /\ Calm' = Calm /\ \A c : FileAt(c)' = FileAt(c) /\ Text(c)' = Text(c)
  BY <1>1 DEF Chain, FileAt, Text, Calm
<1>3. pc'[Case] = "cut" /\ pc[Case] \in {"find", "list"}
  BY Names DEF FindCurrent, List, Goto, TypeInv, TraceTypeOK
<1>4. ASSUME Calm PROVE Sliced'
  <2>1. /\ Sliced /\ slice = <<>> /\ current # NoFile /\ Covered(hist.began, Chain)
        /\ hist.began <= count /\ (pc[Case] = "list" => meta.start.file # current)
    BY <1>3, <1>4 DEF CaseInv, Sliced, Recorded, Recording, Marked
  <2>2. PICK c \in Chain : BeganAt(c) /\ meta.start.offset < Len(Text(c))
    BY <1>3, <2>1 DEF Sliced, Recorded, Recording, BeganAt, Starting
  <2> DEFINE o == meta.start.offset
             b == hist.began
  <2>3. /\ FileAt(c) = meta.start.file /\ o < Len(Text(c))
        /\ \A i \in DOMAIN Text(c) : Text(c)[i] > b <=> i > o
        /\ \A d \in Chain : d.stamp < c.stamp => \A i \in DOMAIN Text(d) : Text(d)[i] <= b
    BY <2>2 DEF BeganAt
  <2>4. /\ \A d \in Chain : d.stamp \in Nat /\ Len(Text(d)) \in Nat /\ DOMAIN Text(d) = 1..Len(Text(d))
        /\ \A d \in Chain : \A i \in DOMAIN Text(d) : Text(d)[i] \in Nat
        /\ o \in Nat /\ b \in Nat /\ count \in Nat
    BY ChainMembers, CaseFacts
  <2>5. o + 1 \in DOMAIN Text(c) /\ Text(c)[o + 1] > b
    <3>1. o + 1 \in DOMAIN Text(c) /\ o + 1 > o
      BY <2>3, <2>4
    <3> QED
      BY <3>1, <2>3
  <2>6. segments' = {d \in Chain : d.stamp >= c.stamp}
    <3>1. \A r \in rotated : r # TracePath /\ FileAt(r) = r.file /\ r.stamp < TracePath.stamp
          /\ r \in Chain
      BY ChainMembers
    <3>2. TracePath \in Chain /\ FileAt(TracePath) = current /\ TracePath.stamp \in Nat
      BY <2>1, ChainMembers
    <3>3. \A d \in Chain : d = TracePath \/ d \in rotated
      BY ChainMembers
    <3>4. CASE FindCurrent
      <4>1. segments' = {TracePath} /\ meta.start.file = current
        BY <3>4 DEF FindCurrent, BeganIn
      <4>2. c = TracePath
        BY <4>1, <2>3, <3>2 DEF InOrder, Distinct
      <4>3. \A d \in Chain : d.stamp >= TracePath.stamp <=> d = TracePath
        BY <3>1, <3>2, <3>3, <2>4
      <4> QED
        BY <4>1, <4>2, <4>3, <3>2
    <3>5. CASE List
      <4>1. c \in rotated /\ c # TracePath
        BY <3>5, <2>1, <2>3, <3>2, <3>3 DEF List, Goto
      <4> DEFINE begins == {r \in rotated : BeganIn(r.file)}
      <4>2. begins = {c}
        <5>1. BeganIn(c.file)
          <6>1. Text(c) = lines[c.file] /\ c.file = meta.start.file
            BY <4>1, <2>3, <3>1 DEF Text
          <6> QED
            BY <6>1, <2>3, <2>4 DEF BeganIn
        <5>2. \A r \in rotated : BeganIn(r.file) => r = c
          BY <2>3, <3>1 DEF BeganIn, InOrder, Distinct
        <5> QED
          BY <5>1, <5>2, <4>1
      <4>3. segments' = {r \in rotated : \E d \in begins : r.stamp >= d.stamp} \cup {TracePath}
        BY <3>5, <4>2 DEF List
      <4>4. segments' = {r \in rotated : r.stamp >= c.stamp} \cup {TracePath}
        BY <4>2, <4>3
      <4>5. TracePath.stamp >= c.stamp
        BY <4>1, <3>1, <3>2, <2>4
      <4> QED
        BY <4>4, <4>5, <3>1, <3>2, <3>3
    <3> QED
      BY <3>4, <3>5
  <2> HIDE DEF o, b
  <2>7. TracePath \in segments'
    <3>1. TracePath \in Chain /\ c \in Chain /\ TracePath.stamp \in Nat
      BY <2>1, <2>2, <2>4, ChainMembers
    <3>2. TracePath.stamp >= c.stamp
      BY <3>1, <2>4, ChainMembers
    <3> QED
      BY <3>1, <3>2, <2>6
  <2>8. ASSUME NEW s \in segments', s # c
        PROVE  /\ FileAt(s) # meta.start.file
               /\ \A i \in DOMAIN Text(s) : Text(s)[i] > b
    <3>1. s \in Chain /\ s.stamp > c.stamp
      BY <2>2, <2>4, <2>6, <2>8 DEF InOrder, Distinct
    <3>2. FileAt(s) # FileAt(c)
      BY <2>2, <2>8, <3>1 DEF InOrder, Distinct
    <3>3. \A i \in DOMAIN Text(s) : Text(c)[o + 1] < Text(s)[i]
      BY <2>2, <2>4, <2>5, <3>1 DEF InOrder, Sorted
    <3>4. \A i \in DOMAIN Text(s) : Text(s)[i] > b
      BY <2>2, <2>4, <2>5, <3>1, <3>3
    <3> QED
      BY <2>3, <3>2, <3>4
  <2>9. \A s \in segments' : s # TracePath => \E i \in DOMAIN Text(s) : Text(s)[i] > b
    <3> TAKE s \in segments'
    <3> HAVE s # TracePath
    <3>1. CASE s = c
      BY <3>1, <2>5
    <3>2. CASE s # c
      <4>1. s \in rotated
        BY <2>6, ChainMembers
      <4>2. lines[s.file] # <<>> /\ Text(s) = lines[s.file]
        BY <4>1, ChainMembers DEF InOrder, Text
      <4>3. 1 \in DOMAIN Text(s)
        BY <4>1, <4>2, <2>4, ChainMembers, EmptySeq
      <4> QED
        BY <3>2, <4>3, <2>8
    <3> QED
      BY <3>1, <3>2
  <2>10. \A s \in segments' : \A i \in DOMAIN Text(s) : Text(s)[i] > b <=> i > From(s)
    <3> TAKE s \in segments'
    <3> TAKE i \in DOMAIN Text(s)
    <3>1. CASE s = c
      BY <3>1, <2>2, <2>3 DEF From, o
    <3>2. CASE s # c
      <4>1. From(s) = 0 /\ Text(s)[i] > b
        BY <3>2, <2>8 DEF From
      <4>2. i > 0
        BY <2>4, <2>6
      <4> QED
        BY <4>1, <4>2
    <3> QED
      BY <3>1, <3>2
  <2>11. Covered(b, segments')
    <3> SUFFICES ASSUME NEW m \in 1..count, b < m
                 PROVE  \E s \in segments' : \E i \in DOMAIN Text(s) : Text(s)[i] = m
      BY DEF Covered
    <3>1. PICK d \in Chain : \E i \in DOMAIN Text(d) : Text(d)[i] = m
      BY <2>1 DEF Covered, b
    <3>2. ~(d.stamp < c.stamp)
      BY <3>1, <2>3, <2>4
    <3>3. d \in segments'
      BY <3>2, <2>2, <2>4, <2>6
    <3> QED
      BY <3>1, <3>3
  <2>12. c \in segments' /\ \A q \in segments' : c.stamp <= q.stamp
    BY <2>2, <2>4, <2>6
  <2>13. Remaining'
    <3>1. hist'.began + Len(slice') = b /\ meta'.start.offset = o
      <4>1. Len(<<>>) = 0
        BY EmptySeq
      <4> QED
        BY <4>1, <1>1, <2>1, <2>4 DEF b, o
    <3>2. \A s : From(s)' = From(s)
      BY <1>1, <1>2 DEF From
    <3>3. b <= count'
      BY <1>1, <2>1 DEF b
    <3>4. segments' \subseteq Chain'
      BY <1>2, <2>6
    <3>5. \A n : Covered(n, segments') => Covered(n, segments)'
      BY <1>1, <1>2 DEF Covered
    <3>6. o <= Len(Text(c))
      BY <2>2, <2>3, <2>4
    <3>7. Covered(hist.began + Len(slice), segments)'
      BY <2>11, <3>1, <1>1, <1>2 DEF Covered
    <3>8. \E s \in segments' : /\ FileAt(s)' = meta'.start.file /\ meta'.start.offset <= Len(Text(s)')
                               /\ \A q \in segments' : s.stamp <= q.stamp
      BY <1>1, <1>2, <2>3, <2>12, <3>1, <3>6
    <3> QED
      BY <1>1, <1>2, <2>1, <2>7, <2>9, <2>10, <3>1, <3>2, <3>3, <3>4, <3>7, <3>8
         DEF Remaining, b
  <2>14. Marked'
    BY <1>1, <1>3, <2>1 DEF Sliced, Marked, Reading
  <2> QED
    BY <1>1, <1>3, <2>1, <2>13, <2>14 DEF Sliced, Recorded, Recording, Starting, RunAfter
<1> QED
  BY <1>2, <1>3, <1>4 DEF CaseInv

\* The end is in the file that is read last: nothing is cut off.
LEMMA CaseCuts ==
    ASSUME FileInv, TypeInv', CaseInv, Cut
    PROVE  CaseInv'
<1> USE DEF FileInv
<1>1. UNCHANGED <<lines, current, rotated, count, slice, meta, hist>>
  BY DEF Cut, log
<1>2. Chain' = Chain /\ Calm' = Calm /\ \A c : FileAt(c)' = FileAt(c) /\ Text(c)' = Text(c)
  BY <1>1 DEF Chain, FileAt, Text, Calm
<1>3. pc'[Case] = "read" /\ pc[Case] = "cut"
  BY Names DEF Cut, Goto, TypeInv, TraceTypeOK
<1>4. ASSUME Calm PROVE Sliced'
  <2>1. Sliced /\ Marked /\ Remaining /\ current # NoFile /\ meta.end.file = current
    BY <1>3, <1>4 DEF CaseInv, Sliced, Marked, Reading
  <2>2. TracePath \in segments /\ segments \subseteq Chain
    BY <1>3, <2>1 DEF Remaining, Reading
  <2>3. {s \in segments : meta.end.file # NoFile /\ FileAt(s) = meta.end.file} = {TracePath}
    BY <2>1, <2>2, ChainMembers DEF InOrder, Distinct
  <2>4. \A s \in segments : s.stamp <= TracePath.stamp
    BY <2>2, ChainMembers
  <2>5. segments' = segments
    BY <2>3, <2>4 DEF Cut
  <2>6. Remaining'
    BY <1>1, <1>2, <1>3, <2>1, <2>5 DEF Remaining, Reading, Covered, From
  <2>7. Marked'
    BY <1>1, <1>3, <2>1 DEF Marked, Reading
  <2> QED
    BY <1>1, <1>3, <2>1, <2>6, <2>7 DEF Sliced, Recorded, Recording, Starting, RunAfter
<1> QED
  BY <1>2, <1>3, <1>4 DEF CaseInv

\* What comes next in the first segment continues what has been read.
LEMMA NextLines ==
    ASSUME FileInv, CaseInv, Calm, NEW s \in segments,
           pc[Case] = "read", \A q \in segments : s.stamp <= q.stamp
    PROVE  /\ s \in Chain
           /\ (s = TracePath \/ s \in rotated) /\ FileAt(s) # NoFile
           /\ meta.start.offset <= Len(Text(s))
           /\ \A q \in segments : q # s => s.stamp < q.stamp /\ From(q) = 0
           /\ \A i \in DOMAIN Text(s) :
                 /\ Text(s)[i] > hist.began + Len(slice) <=> i > meta.start.offset
                 /\ i > meta.start.offset =>
                       Text(s)[i] + meta.start.offset = hist.began + Len(slice) + i
<1> USE DEF FileInv
<1> DEFINE a == hist.began + Len(slice)
           o == meta.start.offset
           T == Text(s)
<1>1. /\ segments \subseteq Chain
      /\ Covered(a, segments)
      /\ \A q \in segments : \A i \in DOMAIN Text(q) : Text(q)[i] > a <=> i > From(q)
      /\ \/ o = 0
         \/ \E q \in segments : /\ FileAt(q) = meta.start.file /\ o <= Len(Text(q))
                                /\ \A r \in segments : q.stamp <= r.stamp
  BY DEF CaseInv, Sliced, Remaining, Reading
<1>2. /\ s \in Chain /\ (s = TracePath \/ s \in rotated) /\ FileAt(s) # NoFile
      /\ \A q \in segments : q.stamp \in Nat
  BY <1>1, ChainMembers, Names
<1>3. \A q \in segments : q # s => s.stamp < q.stamp /\ FileAt(q) # FileAt(s)
  BY <1>1, <1>2 DEF InOrder, Distinct
<1>4. o \in Nat /\ Len(T) \in Nat /\ DOMAIN T = 1..Len(T) /\ a \in Nat /\ count \in Nat
      /\ (\A i \in DOMAIN T : T[i] \in Nat /\ T[i] <= count)
  <2>1. hist.began \in Nat /\ Len(slice) \in Nat
    BY CaseFacts
  <2> QED
    BY <1>2, <2>1, CaseFacts, ChainMembers DEF InOrder, LastLine
<1>5. From(s) = o /\ o <= Len(T) /\ \A q \in segments : q # s => From(q) = 0
  <2>1. CASE o = 0
    BY <2>1, <1>4 DEF From
  <2>2. CASE o # 0
    <3>1. PICK q \in segments : /\ FileAt(q) = meta.start.file /\ o <= Len(Text(q))
                                /\ \A r \in segments : q.stamp <= r.stamp
      BY <1>1, <2>2
    <3>2. q = s
      BY <3>1, <1>2, <1>3
    <3> QED
      BY <3>1, <3>2, <1>3 DEF From
  <2> QED
    BY <2>1, <2>2
<1>6. \A i \in DOMAIN T : T[i] > a <=> i > o
  BY <1>1, <1>5
<1>7. \A i, j \in DOMAIN T : T[i] + j = T[j] + i
  BY <1>2 DEF InOrder, Consecutive
<1> HIDE DEF a, o
<1>8. ASSUME NEW i \in DOMAIN T, i > o PROVE T[i] + o = a + i
  <2>1. i \in Nat /\ o + 1 \in DOMAIN T /\ o + 1 > o
    <3>1. i \in 1..Len(T)
      BY <1>4
    <3> HIDE DEF T
    <3> QED
      BY <1>4, <1>8, <3>1
  <2>2. T[o + 1] > a /\ T[o + 1] \in Nat /\ T[o + 1] <= count
    BY <1>4, <1>6, <2>1
  <2>3. a + 1 \in 1..count /\ a < a + 1
    BY <1>4, <2>2
  <2>4. PICK c \in segments : \E j \in DOMAIN Text(c) : Text(c)[j] = a + 1
    BY <1>1, <2>3 DEF Covered
  <2>5. PICK j \in DOMAIN Text(c) : Text(c)[j] = a + 1
    BY <2>4
  <2>6. c = s
    <3> SUFFICES ASSUME c # s PROVE FALSE
      OBVIOUS
    <3>1. s.stamp < c.stamp /\ c \in Chain
      BY <1>1, <1>3
    <3>2. T[o + 1] < a + 1
      BY <1>2, <2>1, <2>5, <3>1 DEF InOrder, Sorted
    <3> QED
      BY <1>4, <2>2, <3>2
  <2>7. j \in DOMAIN T /\ T[j] = a + 1
    BY <2>5, <2>6
  <2>8. j > o /\ j \in Nat
    BY <1>4, <1>6, <2>3, <2>7
  <2>9. T[j] + (o + 1) = T[o + 1] + j
    BY <1>7, <2>1, <2>7
  <2>10. j = o + 1
    <3>1. \A v, w, x, y \in Nat : v > x /\ x + 1 + (y + 1) = v + w /\ w > y => w = y + 1
      OBVIOUS
    <3> QED
      BY <3>1, <1>4, <2>2, <2>7, <2>8, <2>9
  <2>11. T[i] + (o + 1) = a + 1 + i
    BY <1>7, <1>8, <2>1, <2>7, <2>10
  <2>12. \A v, w, x, y \in Nat : v + (y + 1) = x + 1 + w => v + y = x + w
    OBVIOUS
  <2> QED
    BY <1>4, <1>8, <2>1, <2>11, <2>12, SMTT(30)
<1> QED
  BY <1>2, <1>3, <1>5, <1>6, <1>8 DEF a, o

\* Reading a segment keeps it.
LEMMA CaseReads ==
    ASSUME FileInv, TypeInv', CaseInv, NEW s \in segments, ReadSegment(s)
    PROVE  CaseInv'
<1> USE DEF FileInv
<1> DEFINE there == s = TracePath \/ s \in rotated
           text  == IF there /\ FileAt(s) # NoFile THEN lines[FileAt(s)] ELSE <<>>
           upTo  == IF segments = {s} /\ meta.end.offset < Len(text) THEN meta.end.offset
                    ELSE Len(text)
           to    == IF segments = {s} THEN "ended" ELSE "read"
<1>1. /\ pc[Case] = "read" /\ \A q \in segments : s.stamp <= q.stamp
      /\ slice' = slice \o SubSeq(text, meta.start.offset + 1, upTo)
      /\ meta' = [meta EXCEPT !.start.offset = 0]
      /\ segments' = segments \ {s}
      /\ pc' = [pc EXCEPT ![Case] = to]
      /\ UNCHANGED <<log, handle, follower, hist>>
  BY DEF ReadSegment
<1> HIDE DEF text, upTo, to
<1>2. UNCHANGED <<lines, current, rotated, count, hist>> /\ pc'[Case] = to
  BY <1>1, Names DEF log, TypeInv, TraceTypeOK
<1>3. meta'.start.offset = 0 /\ meta'.start.file = meta.start.file /\ meta'.end = meta.end
  BY <1>1 DEF TypeInv, TraceTypeOK, Positions
<1>4. Chain' = Chain /\ Calm' = Calm /\ \A c : FileAt(c)' = FileAt(c) /\ Text(c)' = Text(c)
  BY <1>2 DEF Chain, FileAt, Text, Calm
<1>5. to # "idle"
  BY DEF to
<1>6. ASSUME Calm PROVE Sliced'
  <2> DEFINE a == hist.began + Len(slice)
             b == hist.began
             k == Len(slice)
             o == meta.start.offset
             e == meta.end.offset
  <2>1. /\ s \in Chain /\ there /\ FileAt(s) # NoFile
        /\ o <= Len(Text(s))
        /\ \A q \in segments : q # s => s.stamp < q.stamp /\ From(q) = 0
        /\ \A i \in DOMAIN Text(s) : /\ Text(s)[i] > a <=> i > o
                                     /\ i > o => Text(s)[i] + o = a + i
    BY <1>1, <1>6, NextLines
  <2>2. text = Text(s)
    BY <2>1 DEF text, Text
  <2>3. /\ text \in Seq(1..MaxLines) /\ Len(text) \in Nat /\ DOMAIN text = 1..Len(text)
        /\ \A i \in DOMAIN text : text[i] \in Nat /\ text[i] <= count
    BY <2>1, <2>2, ChainMembers DEF InOrder, LastLine
  <2>4. /\ b \in Nat /\ k \in Nat /\ o \in Nat /\ e \in Nat /\ count \in Nat
        /\ slice \in Seq(1..MaxLines)
    BY CaseFacts
  <2>5. /\ Marked /\ Remaining /\ RunAfter(slice, b) /\ TracePath \in segments
        /\ segments \subseteq Chain /\ b + k <= count /\ b <= count
        /\ current # NoFile /\ FileAt(TracePath) = current
    BY <1>1, <1>6, ChainMembers DEF CaseInv, Sliced, Remaining, Marked, Reading
  <2>6. upTo \in Nat /\ upTo <= Len(text)
    BY <2>3, <2>4 DEF upTo
  <2>7. \A i \in DOMAIN text : o < i /\ i <= upTo => text[i] + o = b + k + i
    BY <2>1, <2>2, <2>3, <2>4
  <2>8. o <= upTo => /\ RunAfter(slice', b) /\ Len(slice') + o = k + upTo
                     /\ Len(slice') \in Nat
    <3> SUFFICES ASSUME o <= upTo
                 PROVE  /\ RunAfter(slice', b) /\ Len(slice') + o = k + upTo
                        /\ Len(slice') \in Nat
      OBVIOUS
    <3> DEFINE u == slice \o SubSeq(text, o + 1, upTo)
    <3>1. RunAfter(u, b) /\ Len(u) + o = Len(slice) + upTo /\ Len(u) \in Nat
      <4>1. \A i \in DOMAIN text : o < i /\ i <= upTo => text[i] + o = b + Len(slice) + i
        BY <2>7
      <4>2. b \in Nat /\ o \in Nat /\ slice \in Seq(1..MaxLines) /\ RunAfter(slice, b)
        BY <2>4, <2>5
      <4>3. text \in Seq(1..MaxLines) /\ upTo \in Nat /\ upTo <= Len(text) /\ o <= upTo
        BY <2>3, <2>6
      <4> HIDE DEF a, b, k, o, e
      <4>4. /\ RunAfter(slice \o SubSeq(text, o + 1, upTo), b)
            /\ Len(slice \o SubSeq(text, o + 1, upTo)) + o = Len(slice) + upTo
            /\ Len(slice \o SubSeq(text, o + 1, upTo)) \in Nat
        BY <4>1, <4>2, <4>3, RunGoesOn, Zenon
      <4> QED
        BY <4>4
    <3> QED
      BY <3>1, <1>1
  <2>9. upTo < o => slice' = slice
    <3> SUFFICES ASSUME upTo < o PROVE slice' = slice
      OBVIOUS
    <3>1. upTo <= o
      BY <2>4, <2>6
    <3>2. slice \o SubSeq(text, o + 1, upTo) = slice
      BY <2>3, <2>4, <2>6, <3>1, PartAppended, SMTT(30)
    <3> QED
      BY <1>1, <3>2
  <2>10. RunAfter(slice', b)
    BY <2>4, <2>5, <2>6, <2>8, <2>9
  <2>11. CASE segments = {s}
    <3>1. s = TracePath /\ text = lines[current] /\ to = "ended"
      BY <2>2, <2>5, <2>11 DEF to, Text
    <3>2. PICK i \in DOMAIN lines[current] :
             lines[current][i] = hist.marked /\ e <= Len(lines[current]) /\ i <= e
      BY <1>1, <2>5 DEF Marked, Reading
    <3>3. upTo = e
      BY <2>3, <2>4, <2>11, <3>1, <3>2 DEF upTo
    <3>4. i \in Nat /\ hist.marked \in Nat /\ text[i] = hist.marked /\ i \in DOMAIN text
      BY <2>3, <3>1, <3>2
    <3>5. hist.marked <= b + Len(slice')
      <4> DEFINE k2 == Len(slice')
                 v  == hist.marked
      <4>1. CASE i > o
        <5>1. v + o = b + k + i
          BY <2>7, <3>2, <3>3, <3>4, <4>1
        <5>2. o <= e
          BY <2>4, <3>2, <3>4, <4>1
        <5>3. k2 + o = k + e /\ k2 \in Nat
          BY <2>8, <3>3, <5>2
        <5>4. i <= e /\ v \in Nat
          BY <3>2, <3>4
        <5> HIDE DEF k2, v, b, k, o, e
        <5> QED
          BY <5>1, <5>3, <5>4, <2>4, <3>4, SMTT(30) DEF k2, v, b
      <4>2. CASE ~(i > o)
        <5>1. ~(text[i] > a)
          BY <2>1, <2>2, <3>4, <4>2
        <5>2. v <= b + k
          BY <2>4, <3>4, <5>1
        <5>3. k <= k2 /\ k2 \in Nat
          <6>1. CASE o <= upTo
            <7>1. k2 + o = k + upTo /\ k2 \in Nat
              BY <2>8, <6>1
            <7> HIDE DEF k2, k, o
            <7> QED
              BY <7>1, <6>1, <2>4, <2>6
          <6>2. CASE ~(o <= upTo)
            BY <2>4, <2>6, <2>9, <6>2
          <6> QED
            BY <6>1, <6>2
        <5>4. v \in Nat
          BY <3>4
        <5> HIDE DEF k2, v, b, k
        <5> QED
          BY <5>2, <5>3, <5>4, <2>4 DEF k2, v, b
      <4> QED
        BY <4>1, <4>2
    <3> QED
      BY <1>2, <2>5, <2>10, <3>1, <3>5
         DEF Sliced, Recorded, Recording, Starting, Marked, Remaining, Reading
  <2>12. CASE segments # {s}
    <3>1. to = "read" /\ upTo = Len(text)
      BY <2>12 DEF to, upTo
    <3>2. s # TracePath
      <4> SUFFICES ASSUME s = TracePath PROVE FALSE
        OBVIOUS
      <4>1. PICK q \in segments : q # s
        BY <2>5, <2>12
      <4>2. q.stamp <= TracePath.stamp /\ ~(q.stamp <= TracePath.stamp)
        BY <2>1, <2>5, <4>1, ChainMembers
      <4> QED
        BY <4>2
    <3> DEFINE a2 == b + Len(slice')
               l  == Len(text)
               k2 == Len(slice')
    <3>3. k2 + o = k + l /\ k2 \in Nat /\ o <= l
      BY <2>1, <2>2, <2>8, <3>1
    <3>4. l \in Nat /\ text \in Seq(1..MaxLines)
      BY <2>3
    <3>5. l > 0
      <4>1. s \in rotated /\ lines[s.file] # <<>> /\ text = lines[s.file]
        BY <2>2, <2>1, <3>2, ChainMembers DEF InOrder, Text
      <4>2. Len(text) # 0
        BY <2>3, <4>1, EmptySeq
      <4> QED
        BY <2>3, <4>2
    <3> HIDE DEF l
    <3>6. l \in DOMAIN text /\ (o < l => text[l] + o = b + k + l) /\ text[l] \in Nat /\ text[l] <= count
      <4>1. l \in 1..l /\ l <= upTo
        BY <3>1, <3>4, <3>5 DEF l
      <4> QED
        BY <4>1, <2>3, <2>7 DEF l
    <3> HIDE DEF a2, a, b, k, o, k2
    <3>7. a2 \in Nat /\ a \in Nat /\ a2 = b + k2 /\ a = b + k
      BY <2>4, <3>3 DEF a2, a, b, k, k2
    <3>8. o < l => a2 = text[l]
      <4>1. \A v \in Nat : o < l /\ v + o = b + k + l => a2 = v
        BY <2>4, <3>3, <3>4, <3>7
      <4> QED
        BY <4>1, <3>6
    <3>9. ~(o < l) => a2 = a
      BY <2>4, <3>3, <3>4, <3>7
    <3>10. a <= a2 /\ a <= count
      <4>1. k <= k2 /\ b + k <= count
        BY <2>4, <2>5, <3>3, <3>4 DEF b, k
      <4> QED
        BY <4>1, <2>4, <3>3, <3>7
    <3>11. a2 <= count
      BY <3>6, <3>8, <3>9, <3>10
    <3>12. ASSUME NEW q \in segments', NEW i \in DOMAIN Text(q) PROVE Text(q)[i] > a2 /\ i > 0
      <4>1. q \in segments /\ q # s /\ q \in Chain /\ s.stamp < q.stamp /\ From(q) = 0
        BY <1>1, <2>1, <2>5, <3>12
      <4>2. i \in Nat /\ i > 0 /\ Text(q)[i] \in Nat
        BY <4>1, <3>12, ChainMembers
      <4>3. Text(q)[i] > a
        BY <4>1, <4>2, <2>5, <3>12, <1>1 DEF Remaining, Reading, a
      <4>4. text[l] < Text(q)[i]
        BY <4>1, <2>1, <2>2, <3>6, <3>12 DEF InOrder, Sorted
      <4>5. Text(q)[i] > a2
        <5>1. CASE o < l
          BY <5>1, <4>2, <4>4, <3>6, <3>8
        <5>2. CASE ~(o < l)
          BY <5>2, <4>3, <3>9
        <5> QED
          BY <5>1, <5>2
      <4> QED
        BY <4>2, <4>5
    <3>13. \A m \in 1..count : a2 < m =>
              \E c \in segments' : \E i \in DOMAIN Text(c) : Text(c)[i] = m
      <4> TAKE m \in 1..count
      <4> HAVE a2 < m
      <4>1. a < m /\ m \in Nat
        BY <2>4, <3>7, <3>10
      <4>2. PICK c \in segments : \E i \in DOMAIN Text(c) : Text(c)[i] = m
        BY <1>1, <2>5, <4>1 DEF Remaining, Reading, Covered, a
      <4>3. PICK i \in DOMAIN Text(c) : Text(c)[i] = m
        BY <4>2
      <4>4. c # s
        <5> SUFFICES ASSUME c = s PROVE FALSE
          OBVIOUS
        <5>1. i \in DOMAIN text /\ text[i] = m /\ m > a
          BY <2>2, <4>1, <4>3, <2>4, <3>7
        <5>2. i > o
          BY <2>1, <2>2, <5>1
        <5>3. i \in 1..l /\ i <= upTo
          BY <2>3, <3>1, <5>1 DEF l
        <5>4. m + o = b + k + i
          BY <2>7, <2>4, <5>1, <5>2, <5>3 DEF b, k, o
        <5>5. i <= l /\ i \in Nat
          BY <5>3, <3>4
        <5> QED
          BY <2>4, <3>3, <3>4, <3>7, <4>1, <5>4, <5>5
      <4> QED
        BY <1>1, <4>2, <4>4
    <3>14. TracePath \in segments' /\ segments' \subseteq Chain
      BY <1>1, <2>5, <3>2
    <3>15. \A q \in segments' : q # TracePath => \E i \in DOMAIN Text(q) : Text(q)[i] > b
      BY <1>1, <2>5 DEF Remaining, Reading, b
    <3>16. \A q : From(q)' = 0
      BY <1>3 DEF From
    <3>17. hist'.began + Len(slice') = a2 /\ hist'.began = b
      BY <1>2 DEF a2, b
    <3>18. Remaining'
      <4>1. Covered(hist.began + Len(slice), segments)'
        BY <1>2, <1>4, <3>13, <3>17 DEF Covered
      <4>2. \A q \in segments' : \A i \in DOMAIN Text(q)' :
               Text(q)'[i] > hist'.began + Len(slice') <=> i > From(q)'
        BY <1>4, <3>12, <3>16, <3>17
      <4>3. pc'[Case] # "cut"
        BY <1>2, <3>1
      <4> QED
        BY <1>2, <1>3, <1>4, <3>11, <3>14, <3>15, <3>17, <4>1, <4>2, <4>3 DEF Remaining
    <3>19. Marked'
      BY <1>1, <1>2, <1>3, <2>5, <3>1 DEF Marked, Reading
    <3> QED
      BY <1>2, <2>5, <2>10, <3>1, <3>18, <3>19 DEF Sliced, Recorded, Recording, Starting, b
  <2> QED
    BY <2>11, <2>12
<1> QED
  BY <1>2, <1>4, <1>5, <1>6 DEF CaseInv

\* Each step keeps what is known of the case.
LEMMA CaseStep ==
    ASSUME Windows, FileInv, CaseInv, [TraceNext]_traceVars
    PROVE  CaseInv'
<1>1. TypeInv /\ TypeInv'
  BY TraceTypeStep DEF FileInv
<1>2. ASSUME NEW t \in Threads,
             \/ Rename(t) \/ RenameRefused(t) \/ NoRotation(t)
             \/ Prune(t) \/ OpenEntry(t) \/ WriteEntry(t)
      PROVE  CaseInv'
  <2>1. t \in Procs /\ t # Case
    BY Names
  <2>2. CASE RenameRefused(t) \/ NoRotation(t)
    <3>1. UNCHANGED <<lines, current, rotated, count, case, hist>> /\ pc' = [pc EXCEPT ![t] = "open"]
      BY <2>2 DEF RenameRefused, NoRotation, log, Goto
    <3> QED
      BY <1>1, <2>1, <3>1, Names, CaseFrame DEF TypeInv, TraceTypeOK
  <2>3. CASE OpenEntry(t)
    BY <1>1, <2>1, <2>3, CaseOpen DEF OpenEntry
  <2>4. CASE WriteEntry(t)
    BY <1>1, <2>1, <2>4, CaseWrite DEF WriteEntry
  <2> QED
    BY <1>1, <1>2, <2>2, <2>3, <2>4, CaseRename, CasePrune
<1>3. ASSUME RetryTime \/ UNCHANGED traceVars PROVE CaseInv'
  BY <1>1, <1>3, CaseFrame DEF RetryTime, traceVars, case
<1>4. ASSUME Poll PROVE CaseInv'
  <2>1. /\ UNCHANGED <<lines, current, rotated, count, case>>
        /\ \E to : pc' = [pc EXCEPT ![Follower] = to]
    BY <1>4 DEF Poll, PollOpen, PollOld, PollNew, Goto, log
  <2>2. /\ hist'.began = hist.began /\ hist'.marked = hist.marked
        /\ hist'.disturbed = hist.disturbed /\ hist'.pruned = hist.pruned
    BY <1>1, <1>4 DEF Poll, PollOpen, PollOld, PollNew, TypeInv, TraceTypeOK
  <2> QED
    BY <1>1, <2>1, <2>2, Names, CaseFrame DEF TypeInv, TraceTypeOK
<1>5. ASSUME BeginOpens \/ EndOpens PROVE CaseInv'
  BY <1>1, <1>5, Names, CaseOpen DEF BeginOpens, EndOpens
<1>6. ASSUME BeginMarks PROVE CaseInv'
  <2>1. pc[Case] = "write"
    BY <1>6 DEF BeginMarks, WriteLine, Goto
  <2> QED
    BY <1>1, <1>6, <2>1, Names, CaseWrite DEF BeginMarks
<1>7. ASSUME EndMarks PROVE CaseInv'
  <2>1. pc[Case] = "endwrite" /\ hist' = [hist EXCEPT !.marked = count + 1]
    BY <1>7 DEF EndMarks, WriteLine, Goto
  <2>2. /\ hist'.began = hist.began /\ hist'.marked = count + 1
        /\ hist'.disturbed = hist.disturbed /\ hist'.pruned = hist.pruned
    BY <1>1, <2>1 DEF TypeInv, TraceTypeOK
  <2> QED
    BY <1>1, <1>7, <2>1, <2>2, Names, CaseWrite DEF EndMarks
<1>8. ASSUME CaseMoves \/ Read PROVE CaseInv'
  BY <1>1, <1>8, CaseBegins, CaseEnds, CaseFinds, CaseCuts, CaseReads DEF CaseMoves, Read
<1> QED
  BY <1>2, <1>3, <1>4, <1>5, <1>6, <1>7, <1>8 DEF TraceNext, CaseMoves

\* What is known of the case holds always.
LEMMA CaseInvariant == ASSUME Windows PROVE TraceSpec => [](FileInv /\ CaseInv)
<1>1. TraceInit => CaseInv
  <2> SUFFICES ASSUME TraceInit PROVE CaseInv
    OBVIOUS
  <2>1. /\ pc[Case] = "idle" /\ slice = <<>> /\ hist.began = 0 /\ count = 0
        /\ ~hist.disturbed /\ ~hist.pruned
    BY Names DEF TraceInit
  <2> QED
    BY <2>1 DEF CaseInv, Calm, Sliced, Recorded, Recording, Starting, Marked, Remaining,
                Reading, RunAfter
<1>2. FileInv /\ CaseInv /\ [TraceNext]_traceVars => FileInv' /\ CaseInv'
  BY OrderStep, CaseStep
<1> QED
  BY <1>1, <1>2, FileInit, PTL DEF TraceSpec

\* On Windows a case is cut out of the trace exactly: every line from its begin
\* to its end marker, in order and once, however often the trace was rotated
\* between its two commands, unless a file of it was pruned or a rotation fell
\* into the commands themselves (_case_trace_segments, _case_trace_entries).
THEOREM SliceIsExact == ASSUME Windows PROVE TraceSpec => []SliceExact
<1>1. FileInv /\ CaseInv => SliceExact
  <2> SUFFICES ASSUME FileInv, CaseInv, pc[Case] = "ended", Calm
               PROVE  /\ RunAfter(slice, hist.began)
                      /\ hist.began + Len(slice) >= hist.marked
    BY DEF SliceExact, Calm
  <2> DEFINE b == hist.began
             k == Len(slice)
             m == hist.marked
  <2>1. RunAfter(slice, hist.began) /\ m <= b + k
    BY DEF CaseInv, Sliced
  <2>2. b \in Nat /\ k \in Nat /\ m \in Nat
    BY CaseFacts DEF FileInv
  <2>3. ASSUME m <= b + k PROVE b + k >= m
    <3> HIDE DEF b, k, m
    <3> QED
      BY <2>2, <2>3
  <2> QED
    BY <2>1, <2>3
<1> QED
  BY <1>1, CaseInvariant, PTL
============================================================================
