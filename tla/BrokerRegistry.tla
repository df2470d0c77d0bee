--------------------------- MODULE BrokerRegistry ---------------------------
(***************************************************************************)
(* The registration of a serial port's raw broker (serial/broker.py and    *)
(* serial/runtime.py): one JSON file per port that says which process owns  *)
(* the port and whether a human protects it.  Brokers write it, heal it and *)
(* remove it; commands load it, upgrade it, clean it up, and stop the       *)
(* broker it names.  Each read, write and unlink of the file is a step: no  *)
(* lock covers the file.  The port lock is the mutex PidLock implements.    *)
(***************************************************************************)
EXTENDS Naturals

CONSTANTS Brokers,      \* broker processes; a pid is not used twice
          Clients,      \* processes that load the registry
          Sandboxed,    \* clients that may not inspect another process's pid
          None,         \* no process, no file
          Garbage,      \* the file is there and is not a registry
          MaxForeign    \* bound: how often a foreign program damages the file

ASSUME NamesDiffer    == None \notin Brokers /\ Garbage \notin Brokers /\ None # Garbage
ASSUME SandboxedAreClients == Sandboxed \subseteq Clients
ASSUME ForeignBound   == MaxForeign \in Nat

VARIABLES
    epid, eprot,    \* the file: registry.pid, registry.protected
    lock,           \* who holds the port lock
    bst,            \* the state of each broker
    memProt,        \* brokers with self.protected set
    keeper,         \* what each broker's keeper does, under _registry_lock
    toProtect,      \* brokers with a "protect" line a handler has yet to read
    cpc, kind,      \* where each client is, and in which command
    cpid, cprot,    \* the entry a client loaded; cprot: those it says are protected
    foreign,        \* foreign damage so far, for the bound
    born,           \* history: live brokers started with protected=True
    before          \* history: brokers whose guard had settled when the client's stop began

vars == <<epid, eprot, lock, bst, memProt, keeper, toProtect, cpc, kind,
          cpid, cprot, foreign, born, before>>
entry   == <<epid, eprot>>
brokers == <<lock, bst, memProt, keeper, toProtect, born>>
clients == <<cpc, kind, cpid, cprot, before>>

States == {"off", "locked", "serving", "stopping", "unlinking", "closing",
           "released", "dead"}
Keepers == {"idle", "restores", "protects", "unprotects"}
Kinds  == {"load", "observe", "stop", "force"}
Steps  == {"idle", "load", "judge", "decide", "kill", "recheck", "unlink",
           "upgrade", "notify", "confirm"}

TypeOK ==
    /\ epid \in Brokers \cup {None, Garbage}
    /\ eprot \in BOOLEAN
    /\ lock \in Brokers \cup {None}
    /\ bst \in [Brokers -> States]
    /\ memProt \subseteq Brokers
    /\ keeper \in [Brokers -> Keepers]
    /\ toProtect \subseteq Brokers
    /\ cpc \in [Clients -> Steps]
    /\ kind \in [Clients -> Kinds]
    /\ cpid \in [Clients -> Brokers \cup {None, Garbage}]
    /\ cprot \subseteq Clients
    /\ foreign \in 0..MaxForeign
    /\ born \subseteq Brokers
    /\ before \in [Clients -> SUBSET Brokers]

Init ==
    /\ epid = None /\ eprot = FALSE
    /\ lock = None
    /\ bst = [b \in Brokers |-> "off"]
    /\ memProt = {} /\ toProtect = {}
    /\ keeper = [b \in Brokers |-> "idle"]
    /\ cpc = [c \in Clients |-> "idle"]
    /\ kind = [c \in Clients |-> "load"]
    /\ cpid = [c \in Clients |-> None]
    /\ cprot = {}
    /\ foreign = 0
    /\ born = {}
    /\ before = [c \in Clients |-> {}]

----------------------------------------------------------------------------
PortLock == INSTANCE Mutex WITH Procs <- Brokers, holder <- lock

Alive(b)  == bst[b] \notin {"off", "dead"}
Serves(b) == bst[b] \in {"serving", "stopping", "unlinking"}    \* accepts connections

\* _serial_broker_is_gone: a dead pid is conclusive; a client that may not
\* inspect the pid asks the broker and then the port lock.
Gone(c, b) == ~Alive(b) \/ (c \in Sandboxed /\ ~Serves(b) /\ lock # b)

Write(b, prot) == epid' = b /\ eprot' = prot
Remove == epid' = None /\ eprot' = FALSE

\* A dead process's memory, its keeper and its handler threads are gone.
Forget(b) ==
    /\ memProt' = memProt \ {b}
    /\ keeper' = [keeper EXCEPT ![b] = "idle"]
    /\ toProtect' = toProtect \ {b}
    /\ born' = born \ {b}

BrokerGoes(b, from, to) == bst[b] = from /\ bst' = [bst EXCEPT ![b] = to]

\* A client goes on in its command with what it has loaded, ...
ClientGoes(c, from, to) ==
    /\ cpc[c] = from /\ cpc' = [cpc EXCEPT ![c] = to]
    /\ UNCHANGED <<kind, cpid, cprot, before>>

\* ... or its command ends and the locals are gone.
ClientEnds(c, from) ==
    /\ cpc[c] = from /\ cpc' = [cpc EXCEPT ![c] = "idle"]
    /\ kind' = [kind EXCEPT ![c] = "load"]
    /\ cpid' = [cpid EXCEPT ![c] = None]
    /\ cprot' = cprot \ {c}
    /\ before' = [before EXCEPT ![c] = {}]

----------------------------------------------------------------------------
(* Brokers *)

\* SerialBroker.start takes the port lock, or raises SerialPortBusyError.
TakeLock(b, prot) ==
    /\ BrokerGoes(b, "off", "locked")
    /\ PortLock!Take(b)
    /\ memProt' = IF prot THEN memProt \cup {b} ELSE memProt
    /\ born' = IF prot THEN born \cup {b} ELSE born
    /\ UNCHANGED <<entry, keeper, toProtect, clients, foreign>>

LockBusy(b) ==
    /\ lock # None
    /\ BrokerGoes(b, "off", "dead")
    /\ UNCHANGED <<entry, lock, memProt, keeper, toProtect, born, clients, foreign>>

\* The COM port does not open: start releases the lock and raises.
OpenFails(b) ==
    /\ BrokerGoes(b, "locked", "dead")
    /\ PortLock!Drop(b) /\ Forget(b)
    /\ UNCHANGED <<entry, clients, foreign>>

\* It opens: start writes the registry.
Register(b) ==
    /\ BrokerGoes(b, "locked", "serving")
    /\ Write(b, b \in memProt)
    /\ UNCHANGED <<lock, memProt, keeper, toProtect, born, clients, foreign>>

\* _ensure_registered, under _registry_lock, reads the file: the entry is ours, ...
KeeperReads(b) ==
    /\ bst[b] = "serving" /\ keeper[b] = "idle"
    /\ epid = b
    /\ keeper' = [keeper EXCEPT ![b] = IF eprot THEN "protects" ELSE "unprotects"]
    /\ UNCHANGED <<entry, lock, bst, memProt, toProtect, born, clients, foreign>>

\* ... and its protection as it was then is adopted, ...
KeeperAdopts(b) ==
    /\ keeper[b] \in {"protects", "unprotects"} /\ Alive(b)
    /\ memProt' = IF keeper[b] = "protects" THEN memProt \cup {b} ELSE memProt \ {b}
    /\ keeper' = [keeper EXCEPT ![b] = "idle"]
    /\ UNCHANGED <<entry, lock, bst, toProtect, born, clients, foreign>>

\* Mutant of KeeperMisses: only a missing file counts.
KeeperMissesDeleted(b) ==
    /\ bst[b] = "serving" /\ keeper[b] = "idle"
    /\ epid = None
    /\ keeper' = [keeper EXCEPT ![b] = "restores"]
    /\ UNCHANGED <<entry, lock, bst, memProt, toProtect, born, clients, foreign>>

\* ... or it is not there, or not ours, ...
KeeperMisses(b) ==
    /\ bst[b] = "serving" /\ keeper[b] = "idle"
    /\ epid # b
    /\ keeper' = [keeper EXCEPT ![b] = "restores"]
    /\ UNCHANGED <<entry, lock, bst, memProt, toProtect, born, clients, foreign>>

\* Mutant of KeeperRestores: the rewrite forgets owner and protected.
KeeperRestoresBare(b) ==
    /\ keeper[b] = "restores" /\ Alive(b)
    /\ Write(b, FALSE)
    /\ keeper' = [keeper EXCEPT ![b] = "idle"]
    /\ UNCHANGED <<lock, bst, memProt, toProtect, born, clients, foreign>>

\* ... and it is rewritten from memory.
KeeperRestores(b) ==
    /\ keeper[b] = "restores" /\ Alive(b)
    /\ Write(b, b \in memProt)
    /\ keeper' = [keeper EXCEPT ![b] = "idle"]
    /\ UNCHANGED <<lock, bst, memProt, toProtect, born, clients, foreign>>

\* A handler thread reads the "protect" line: set_protection, which waits for
\* _registry_lock.
SetProtection(b) ==
    /\ b \in toProtect /\ Alive(b)
    /\ keeper[b] = "idle" /\ bst[b] # "unlinking"
    /\ memProt' = memProt \cup {b}
    /\ toProtect' = toProtect \ {b}
    /\ UNCHANGED <<entry, lock, bst, keeper, born, clients, foreign>>

\* SerialBroker.stop: the stop event, ...
StopBegins(b) ==
    /\ BrokerGoes(b, "serving", "stopping")
    /\ UNCHANGED <<entry, lock, memProt, keeper, toProtect, born, clients, foreign>>

\* Mutant of StopReads: the lock is released first.
StopReadsUnlocked(b) ==
    /\ keeper[b] = "idle"
    /\ BrokerGoes(b, "stopping", IF epid = b THEN "unlinking" ELSE "closing")
    /\ PortLock!Drop(b)
    /\ UNCHANGED <<entry, memProt, keeper, toProtect, born, clients, foreign>>

\* ... the registry, read under _registry_lock and removed if it is ours (or
\* left, if it has changed since or stays open elsewhere), ...
StopReads(b) ==
    /\ keeper[b] = "idle"
    /\ BrokerGoes(b, "stopping", IF epid = b THEN "unlinking" ELSE "closing")
    /\ UNCHANGED <<entry, lock, memProt, keeper, toProtect, born, clients, foreign>>

StopUnlinks(b) ==
    /\ BrokerGoes(b, "unlinking", "closing")
    /\ Remove \/ UNCHANGED entry
    /\ UNCHANGED <<lock, memProt, keeper, toProtect, born, clients, foreign>>

\* ... the server, the port, and last the lock.  Then the process exits.
StopReleases(b) ==
    /\ BrokerGoes(b, "closing", "released")
    /\ PortLock!Drop(b)
    /\ UNCHANGED <<entry, memProt, keeper, toProtect, born, clients, foreign>>

\* The process ends, by itself or because its window is closed or its machine
\* lets it down: nothing is cleaned up.
Dies(b) ==
    /\ Alive(b)
    /\ bst' = [bst EXCEPT ![b] = "dead"]
    /\ lock' = IF lock = b THEN None ELSE lock
    /\ Forget(b)

Crash(b) ==
    /\ Dies(b)
    /\ UNCHANGED <<entry, clients, foreign>>

----------------------------------------------------------------------------
(* Clients: load_serial_broker_registry and the commands that begin with it *)

\* The brokers that know of their guard, and whose entry does not deny it, nor did
\* when a keeper read it that has yet to adopt what it read.
Settled == {b \in memProt : keeper[b] # "unprotects" /\ (epid = b => eprot)}

Begin(c, k) ==
    /\ cpc[c] = "idle" /\ cpc' = [cpc EXCEPT ![c] = "load"]
    /\ kind' = [kind EXCEPT ![c] = k]
    /\ before' = [before EXCEPT ![c] = IF k = "stop" THEN Settled ELSE {}]
    /\ UNCHANGED <<entry, brokers, cpid, cprot, foreign>>

\* The file is missing or cannot be read now: load returns None.  What stop
\* cleans up after that is what another load would.
LoadNothing(c) ==
    /\ ClientEnds(c, "load")
    /\ UNCHANGED <<entry, brokers, foreign>>

Load(c) ==
    /\ epid # None
    /\ cpc[c] = "load" /\ cpc' = [cpc EXCEPT ![c] = "judge"]
    /\ cpid' = [cpid EXCEPT ![c] = epid]
    /\ cprot' = IF eprot THEN cprot \cup {c} ELSE cprot
    /\ UNCHANGED <<entry, brokers, kind, before, foreign>>

IsGone(c) == cpid[c] \in Brokers => Gone(c, cpid[c])

\* An entry that is invalid or whose broker is gone is to be removed.
JudgeGone(c) ==
    /\ ClientGoes(c, "judge", "recheck")
    /\ IsGone(c)
    /\ UNCHANGED <<entry, brokers, foreign>>

\* A live one is what "serial-broker list" and exec want to know, ...
JudgeLoaded(c) ==
    /\ ClientEnds(c, "judge")
    /\ kind[c] = "load" /\ ~IsGone(c)
    /\ UNCHANGED <<entry, brokers, foreign>>

\* ... watch-serial announces its guard, if it has one, ...
JudgeGuarded(c) ==
    /\ ClientEnds(c, "judge")
    /\ kind[c] = "observe" /\ c \in cprot /\ ~IsGone(c)
    /\ UNCHANGED <<entry, brokers, foreign>>

\* ... and goes on to protect it otherwise, as "serial-broker stop" to stop it.
JudgeLive(c) ==
    /\ cpc[c] = "judge" /\ ~IsGone(c)
    /\ \/ /\ kind[c] = "observe" /\ c \notin cprot
          /\ ClientGoes(c, "judge", "upgrade")
       \/ /\ kind[c] \in {"stop", "force"}
          /\ ClientGoes(c, "judge", "decide")
    /\ UNCHANGED <<entry, brokers, foreign>>

\* _unlink_registry_if_unchanged reads the file again ...
Unchanged(c) == epid = cpid[c] /\ (eprot <=> c \in cprot)

Recheck(c) ==
    /\ \/ Unchanged(c) /\ ClientGoes(c, "recheck", "unlink")
       \/ ~Unchanged(c) /\ ClientEnds(c, "recheck")
    /\ UNCHANGED <<entry, brokers, foreign>>

\* ... and unlinks whatever is at the path by then, or gives up on a file
\* that stays open elsewhere.
Unlink(c) ==
    /\ ClientEnds(c, "unlink")
    /\ Remove \/ UNCHANGED entry
    /\ UNCHANGED <<brokers, foreign>>

\* protect_serial_broker_registry writes what it loaded back as protected, ...
Upgrade(c) ==
    /\ ClientGoes(c, "upgrade", "notify")
    /\ Write(cpid[c], TRUE)
    /\ UNCHANGED <<brokers, foreign>>

\* ... tells the broker, whose handler reads the line later, or fails to, ...
Notify(c) ==
    /\ ClientGoes(c, "notify", "confirm")
    /\ \/ Serves(cpid[c]) /\ toProtect' = toProtect \cup {cpid[c]}
       \/ UNCHANGED toProtect
    /\ UNCHANGED <<entry, lock, bst, memProt, keeper, born, foreign>>

\* ... and returns what is in the file now: watch-serial announces the guard.
Confirm(c) ==
    /\ ClientEnds(c, "confirm")
    /\ UNCHANGED <<entry, brokers, foreign>>

\* stop_serial_broker cleans up after a broker that is dead by now or whose
\* TCP port another broker answers on, ...
DecideStale(c) ==
    /\ ClientGoes(c, "decide", "recheck")
    /\ \/ ~Alive(cpid[c])
       \/ /\ kind[c] = "force" \/ c \notin cprot
          /\ ~Serves(cpid[c]) /\ \E other \in Brokers : Serves(other)
    /\ UNCHANGED <<entry, brokers, foreign>>

\* ... raises SerialBrokerProtectedError for a protected one, ...
DecideRefuse(c) ==
    /\ ClientEnds(c, "decide")
    /\ Alive(cpid[c]) /\ kind[c] = "stop" /\ c \in cprot
    /\ UNCHANGED <<entry, brokers, foreign>>

\* ... and goes on to kill any other.
DecideKill(c) ==
    /\ ClientGoes(c, "decide", "kill")
    /\ Alive(cpid[c]) /\ (kind[c] = "force" \/ c \notin cprot)
    /\ UNCHANGED <<entry, brokers, foreign>>

\* _terminate_pid, the wait for the process to end, and then the cleanup.
Kill(c) ==
    /\ ClientGoes(c, "kill", "recheck")
    /\ IF Alive(cpid[c]) THEN Dies(cpid[c])
       ELSE UNCHANGED <<brokers>>
    /\ UNCHANGED <<entry, foreign>>

----------------------------------------------------------------------------
\* Other programs, older copies of this one among them, delete the file or
\* leave it half written.
ForeignDamage ==
    /\ foreign < MaxForeign
    /\ foreign' = foreign + 1
    /\ epid' \in {None, Garbage} /\ eprot' = FALSE
    /\ UNCHANGED <<brokers, clients>>

BrokerThreads(b) ==
    \/ KeeperReads(b) \/ KeeperAdopts(b) \/ KeeperMisses(b) \/ KeeperRestores(b)
    \/ SetProtection(b)
    \/ Register(b) \/ StopReads(b) \/ StopUnlinks(b) \/ StopReleases(b)

Continue(c) ==
    \/ LoadNothing(c) \/ Load(c)
    \/ JudgeGone(c) \/ JudgeLoaded(c) \/ JudgeGuarded(c) \/ JudgeLive(c)
    \/ Recheck(c) \/ Unlink(c)
    \/ Upgrade(c) \/ Notify(c) \/ Confirm(c)
    \/ DecideStale(c) \/ DecideRefuse(c) \/ DecideKill(c) \/ Kill(c)

Next ==
    \/ \E b \in Brokers :
        \/ \E prot \in BOOLEAN : TakeLock(b, prot)
        \/ LockBusy(b) \/ OpenFails(b) \/ StopBegins(b) \/ Crash(b)
        \/ BrokerThreads(b)
    \/ \E c \in Clients : Continue(c) \/ \E k \in Kinds : Begin(c, k)
    \/ ForeignDamage

Spec == Init /\ [][Next]_vars

\* The keeper thread looks every two seconds, handler threads and commands
\* run; nothing makes a user start, stop or kill anything.
FairSpec ==
    /\ Spec
    /\ \A b \in Brokers :
          WF_vars(KeeperAdopts(b)) /\ WF_vars(KeeperMisses(b)) /\ WF_vars(KeeperRestores(b))
    /\ \A c \in Clients : WF_vars(Continue(c))

----------------------------------------------------------------------------
\* Whoever the registry names owns the port, or has just given it up at the end of its
\* stop, or is dead: no client is sent to a process that serves without the port (start,
\* stop, protect_serial_broker_registry).
EntryNamesOwner == epid \in Brokers => lock = epid \/ bst[epid] \in {"released", "dead"}

\* A broker started for a human is never killed by a stop without --force,
\* whatever commands, other brokers and foreign programs do to the file
\* (_ensure_registered, stop_serial_broker).
BornProtectedSurvives == \A c \in Clients :
    cpc[c] = "kill" /\ kind[c] = "stop" => cpid[c] \notin born

\* A guard that the broker has been told of and the file does not deny, nor did when the
\* keeper read it last, is there to stay: no stop without --force that begins later kills
\* it, whatever happens to the file (_command_watch_serial, set_protection, _ensure_registered).
GuardHolds == \A c \in Clients :
    cpc[c] = "kill" /\ kind[c] = "stop" => cpid[c] \notin before[c]

\* A broker that serves is registered again and again, whatever removed or
\* overwrote its entry (_registry_keeper_loop).
RegisteredAgain == \A b \in Brokers : []<>(epid = b \/ bst[b] # "serving")
=============================================================================
