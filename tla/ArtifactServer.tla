--------------------------- MODULE ArtifactServer ---------------------------
(***************************************************************************)
(* serve-artifacts and artifact-server stop: commands that publish a       *)
(* directory over HTTP. A start in the background spawns the server, which *)
(* is the same command in the foreground, registers it under its TCP port  *)
(* and waits until somebody answers on that port.                          *)
(*                                                                         *)
(* Source: host/artifact_server.py and _command_serve_artifacts,           *)
(* _spawn_background_artifact_server and _command_artifact_server of       *)
(* cli/main.py. artifact-server list only reads. The manifest and the      *)
(* script that both processes write into the directory are left out.       *)
(*                                                                         *)
(* A server answers as soon as it is bound. As on POSIX, a port that is    *)
(* bound cannot be bound again, and SIGTERM ends a process without its     *)
(* finally.                                                                *)
(***************************************************************************)
EXTENDS Naturals, FiniteSetsExt

CONSTANTS
    Starts,      \* calls of serve-artifacts
    MaxPort,     \* find_available_port tries the ports 1..MaxPort
    MaxCrashes,  \* processes that die or are killed
    Modes,       \* how serve-artifacts is called
    None, Torn

ASSUME ArtifactAssumption ==
    /\ MaxPort \in Nat \ {0} /\ MaxCrashes \in Nat
    /\ Modes \subseteq [foreground : BOOLEAN, auto : BOOLEAN]
    /\ None # Torn
    /\ None \notin Starts \X {"command", "server"}
    /\ Torn \notin Starts \X {"command", "server"}

VARIABLES
    proc,       \* process -> where it is in _command_serve_artifacts
    listener,   \* port -> the process bound to it
    registry,   \* port -> the pid in its registry file
    stop,       \* one artifact-server stop
    crashes,
    contested,  \* ports that two calls used at the same time
    answered    \* start -> the process that answered its health probe

vars == <<proc, listener, registry, stop, crashes, contested, answered>>

Ports    == 1..MaxPort
Roles    == {"command", "server"}
Procs    == Starts \X Roles    \* a process is its pid
Command(s) == <<s, "command">>
Server(s)  == <<s, "server">>

Over    == {"idle", "ok", "failed", "ended", "dead"}
ProcPcs == Over \cup {"choose", "spawn", "poll", "bind", "register",
                      "registering", "serving", "unregister", "dying"}
StopPcs == {"idle", "loaded", "waiting", "remove", "missing", "error", "stopped"}

\* pid_is_running.
Running(a) == proc[a].pc \notin Over

-----------------------------------------------------------------------------
(* The calls that use a port *)

\* Processes of other calls that have chosen port p and are not over.
Others(a, p) ==
    {b \in Procs : /\ b[1] # a[1] /\ proc[b].port = p /\ Running(b)
                   /\ b[2] = "command" => proc[b].pc # "choose"}

StopBusy(p) == stop.port = p /\ stop.pc \in {"loaded", "waiting", "remove"}

Contest(a, p) ==
    contested' = IF Others(a, p) # {} \/ StopBusy(p) THEN contested \cup {p} ELSE contested

-----------------------------------------------------------------------------
(* _command_serve_artifacts, in the command and in the server it spawns *)

\* is_tcp_port_available.
Available(p) == listener[p] = None

Goto(a, pc) == proc' = [proc EXCEPT ![a].pc = pc]

Begin(s) ==
    /\ proc[Command(s)].pc = "idle"
    /\ \E mode \in Modes :
          proc' = [proc EXCEPT ![Command(s)] =
                     [@ EXCEPT !.pc = "choose", !.foreground = mode.foreground,
                               !.auto = mode.auto]]
    /\ UNCHANGED <<listener, registry, stop, crashes, contested, answered>>

\* _select_artifact_server_port: the probe is closed before the port is used.
Candidates(a) ==
    {p \in Ports : Available(p) /\ (p = proc[a].port \/ (proc[a].auto /\ p > proc[a].port))}

Choose(a) ==
    /\ proc[a].pc = "choose"
    /\ IF Candidates(a) = {}
          THEN Goto(a, "failed") /\ contested' = contested
          ELSE /\ proc' = [proc EXCEPT
                     ![a].port = Min(Candidates(a)),
                     ![a].pc   = IF proc[a].foreground THEN "bind" ELSE "spawn"]
               /\ Contest(a, Min(Candidates(a)))
    /\ UNCHANGED <<listener, registry, stop, crashes, answered>>

\* serve_directory; a port that is taken raises, outside of the try.
Bind(a) ==
    /\ proc[a].pc = "bind"
    /\ IF Available(proc[a].port)
          THEN listener' = [listener EXCEPT ![proc[a].port] = a] /\ Goto(a, "register")
          ELSE listener' = listener /\ Goto(a, "dead")
    /\ UNCHANGED <<registry, stop, crashes, contested, answered>>

\* write_artifact_server_registry, by the command after it spawned and by the server
\* after it bound. Both write the server's pid.
EmptyRegistry(a) ==
    /\ proc[a].pc = "register"
    /\ registry' = [registry EXCEPT ![proc[a].port] = Torn]
    /\ Goto(a, "registering")
    /\ UNCHANGED <<listener, stop, crashes, contested, answered>>

\* Mutant of FillRegistry.
RegisterWriter(a) ==
    /\ proc[a].pc = "registering"
    /\ registry' = [registry EXCEPT ![proc[a].port] = a]
    /\ Goto(a, IF proc[a].foreground THEN "serving" ELSE "poll")
    /\ UNCHANGED <<listener, stop, crashes, contested, answered>>

FillRegistry(a) ==
    /\ proc[a].pc = "registering"
    /\ registry' = [registry EXCEPT ![proc[a].port] =
                      IF proc[a].foreground THEN a ELSE Server(a[1])]
    /\ Goto(a, IF proc[a].foreground THEN "serving" ELSE "poll")
    /\ UNCHANGED <<listener, stop, crashes, contested, answered>>

\* Ctrl+C or the end of the duration: shutdown and server_close.
EndServing(a) ==
    /\ proc[a].pc = "serving"
    /\ listener' = [listener EXCEPT ![proc[a].port] = None]
    /\ Goto(a, "unregister")
    /\ UNCHANGED <<registry, stop, crashes, contested, answered>>

\* remove_artifact_server_registry, at the end of a server and of a start that failed.
Unregister(a) ==
    /\ proc[a].pc = "unregister"
    /\ registry' = [registry EXCEPT ![proc[a].port] = None]
    /\ Goto(a, IF proc[a].foreground THEN "ended" ELSE "failed")
    /\ UNCHANGED <<listener, stop, crashes, contested, answered>>

-----------------------------------------------------------------------------
(* _spawn_background_artifact_server *)

Spawn(s) ==
    /\ proc[Command(s)].pc = "spawn"
    /\ proc' = [proc EXCEPT ![Command(s)].pc = "register",
                            ![Server(s)] = [pc |-> "choose", port |-> proc[Command(s)].port,
                                            foreground |-> TRUE, auto |-> FALSE]]
    /\ UNCHANGED <<listener, registry, stop, crashes, contested, answered>>

\* Mutant of PollHealthy.
TakeForHealthy(s) ==
    /\ proc[Command(s)].pc = "poll"
    /\ Goto(Command(s), "ok")
    /\ answered' = [answered EXCEPT ![s] = listener[proc[Command(s)].port]]
    /\ UNCHANGED <<listener, registry, stop, crashes, contested>>

\* Whoever answers on the port will do.
PollHealthy(s) ==
    LET p == proc[Command(s)].port IN
    /\ proc[Command(s)].pc = "poll"
    /\ listener[p] # None
    /\ Goto(Command(s), "ok")
    /\ answered' = [answered EXCEPT ![s] = listener[p]]
    /\ UNCHANGED <<listener, registry, stop, crashes, contested>>

\* Mutant of PollFails.
GiveUpOnly(s) ==
    /\ proc[Command(s)].pc = "poll"
    /\ Goto(Command(s), "unregister")
    /\ UNCHANGED <<listener, registry, stop, crashes, contested, answered>>

\* Mutant of PollFails.
PollForEver(s) ==
    /\ proc[Command(s)].pc = "poll"
    /\ listener[proc[Command(s)].port] = None
    /\ UNCHANGED vars

\* The server is gone, or it took too long and is terminated.
PollFails(s) ==
    /\ proc[Command(s)].pc = "poll"
    /\ proc' = [proc EXCEPT ![Command(s)].pc = "unregister",
                            ![Server(s)].pc = IF Running(Server(s)) THEN "dying" ELSE @]
    /\ UNCHANGED <<listener, registry, stop, crashes, contested, answered>>

-----------------------------------------------------------------------------
(* Processes that die *)

Closed(a) == [p \in Ports |-> IF listener[p] = a THEN None ELSE listener[p]]

\* A signal reaches its process.
Die(a) ==
    /\ proc[a].pc = "dying"
    /\ Goto(a, "dead")
    /\ listener' = Closed(a)
    /\ UNCHANGED <<registry, stop, crashes, contested, answered>>

\* A process is killed, or a command is interrupted: the server it spawned stays.
Crash(a) ==
    /\ crashes < MaxCrashes
    /\ Running(a)
    /\ Goto(a, "dead")
    /\ listener' = Closed(a)
    /\ crashes' = crashes + 1
    /\ UNCHANGED <<registry, stop, contested, answered>>

-----------------------------------------------------------------------------
(* stop_artifact_server *)

\* A registry that cannot be read is none.
StopLoads(p) ==
    /\ stop.pc = "idle"
    /\ IF registry[p] \in {None, Torn}
          THEN /\ stop' = [pc |-> "missing", port |-> p, pid |-> None]
               /\ contested' = contested
          ELSE /\ stop' = [pc |-> "loaded", port |-> p, pid |-> registry[p]]
               /\ Contest(registry[p], p)
    /\ UNCHANGED <<proc, listener, registry, crashes, answered>>

\* Mutant of StopKills.
StopWithoutSignal ==
    /\ stop.pc = "loaded"
    /\ Running(stop.pid)
    /\ stop' = [stop EXCEPT !.pc = "waiting"]
    /\ UNCHANGED <<proc, listener, registry, crashes, contested, answered>>

StopKills ==
    /\ stop.pc = "loaded"
    /\ Running(stop.pid)
    /\ Goto(stop.pid, "dying")
    /\ stop' = [stop EXCEPT !.pc = "waiting"]
    /\ UNCHANGED <<listener, registry, crashes, contested, answered>>

\* The process was gone before it was looked for, or between that and the signal.
StopFindsDead ==
    /\ stop.pc = "loaded"
    /\ ~Running(stop.pid)
    /\ \E pc \in {"remove", "error"} : stop' = [stop EXCEPT !.pc = pc]
    /\ UNCHANGED <<proc, listener, registry, crashes, contested, answered>>

\* The process is gone, or the wait is over.
StopWaits ==
    /\ stop.pc = "waiting"
    /\ stop' = [stop EXCEPT !.pc = "remove"]
    /\ UNCHANGED <<proc, listener, registry, crashes, contested, answered>>

StopRemoves ==
    /\ stop.pc = "remove"
    /\ registry' = [registry EXCEPT ![stop.port] = None]
    /\ stop' = [stop EXCEPT !.pc = "stopped"]
    /\ UNCHANGED <<proc, listener, crashes, contested, answered>>

-----------------------------------------------------------------------------
(* The specification *)

Init ==
    /\ proc = [a \in Procs |-> [pc |-> "idle", port |-> 1, foreground |-> FALSE,
                                auto |-> FALSE]]
    /\ listener = [p \in Ports |-> None]
    /\ registry = [p \in Ports |-> None]
    /\ stop = [pc |-> "idle", port |-> 1, pid |-> None]
    /\ crashes = 0
    /\ contested = {}
    /\ answered = [s \in Starts |-> None]

Serve(a) ==
    \/ Choose(a) \/ Bind(a)
    \/ EmptyRegistry(a) \/ FillRegistry(a) \/ Unregister(a) \/ Die(a)

Background(s) == Spawn(s) \/ PollHealthy(s) \/ PollFails(s)

Stop == StopKills \/ StopFindsDead \/ StopWaits \/ StopRemoves

Next ==
    \/ \E s \in Starts : Begin(s) \/ Background(s)
    \/ \E a \in Procs : Serve(a) \/ EndServing(a) \/ Crash(a)
    \/ \E p \in Ports : StopLoads(p)
    \/ Stop

\* Processes go on; a server need not end and nobody has to start, stop or pull.
Fairness ==
    /\ \A a \in Procs : WF_vars(Serve(a))
    /\ \A s \in Starts : WF_vars(Background(s))
    /\ WF_vars(Stop)

Spec == Init /\ [][Next]_vars /\ Fairness

-----------------------------------------------------------------------------
(* Properties *)

\* Type invariant.
TypeOK ==
    /\ proc \in [Procs -> [pc : ProcPcs, port : Ports, foreground : BOOLEAN,
                           auto : BOOLEAN]]
    /\ listener \in [Ports -> Procs \cup {None}]
    /\ registry \in [Ports -> Procs \cup {None, Torn}]
    /\ stop \in [pc : {"idle", "missing"}, port : Ports, pid : {None}]
               \cup [pc : StopPcs \ {"idle", "missing"}, port : Ports, pid : Procs]
    /\ crashes \in 0..MaxCrashes
    /\ contested \subseteq Ports
    /\ answered \in [Starts -> Procs \cup {None}]

\* A start that reported a failure leaves no server behind, whenever the server
\* gets round to binding its port.
FailedStartLeavesNoServer ==
    \A s \in Starts :
        proc[Command(s)].pc \in {"unregister", "failed"} /\ ~proc[Command(s)].foreground =>
            proc[Server(s)].pc \in Over \cup {"dying"}

\* The server that answered the health probe of a start that reported success is
\* its own, as long as nobody else chose the port while it was in use: the probe
\* and the bind are two steps, and any answer on the port will do.
AnsweredByOwn ==
    \A s \in Starts :
        proc[Command(s)].pc = "ok" /\ proc[Command(s)].port \notin contested =>
            answered[s] = Server(s)

\* A server that serves on a port nobody else used in the meantime can be found
\* and stopped: the registry has its pid, whatever the order in which its command
\* and itself wrote the file, and also after the end of an earlier server there.
ServerIsRegistered ==
    \A a \in Procs :
        /\ proc[a].pc = "serving" /\ proc[a].port \notin contested
        /\ a[2] = "server" => proc[Command(a[1])].pc \in {"poll", "ok"}
        => registry[proc[a].port] = a

\* A start in the background returns, whatever its server does, and so does
\* artifact-server stop.
CallsReturn ==
    /\ \A s \in Starts :
          proc[Command(s)].pc = "choose" /\ ~proc[Command(s)].foreground
             ~> proc[Command(s)].pc \in Over
    /\ stop.pc = "loaded" ~> stop.pc \in {"error", "stopped"}

\* What artifact-server stop reports stopped does stop, also when it gave up
\* waiting for it.
StoppedIsGone ==
    stop.pc = "stopped" ~> stop.pc = "stopped" /\ ~Running(stop.pid)
=============================================================================
