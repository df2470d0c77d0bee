------------------------ MODULE ArtifactServerProof ------------------------
(***************************************************************************)
(* What ArtifactServer promises of its starts, for any number of them, any *)
(* number of ports and any deaths. The argument: two calls that use one    *)
(* port at the same time contest it, so on any other port whoever listens, *)
(* registers or is stopped belongs to one start; and where a process is in *)
(* its code says which of the two processes of that start it can be.       *)
(***************************************************************************)
EXTENDS ArtifactServer, WellFoundedInduction, TLAPS

\* A process is the command or the server of its start.
LEMMA Names ==
    /\ \A s \in Starts :
          /\ Command(s) \in Procs /\ Command(s)[1] = s /\ Command(s)[2] = "command"
          /\ Server(s) \in Procs /\ Server(s)[1] = s /\ Server(s)[2] = "server"
          /\ Command(s) # Server(s)
    /\ \A a \in Procs :
          /\ a[1] \in Starts
          /\ \/ a[2] = "command" /\ a = Command(a[1])
             \/ a[2] = "server" /\ a = Server(a[1])
    /\ None \notin Procs /\ Torn \notin Procs /\ None # Torn
  BY ArtifactAssumption DEF Command, Server, Procs, Roles

\* find_available_port finds one of the ports it looks at.
LEMMA MinIsMember == ASSUME NEW S \in SUBSET Ports, S # {} PROVE Min(S) \in S
<1>1. S \subseteq Nat
  BY ArtifactAssumption DEF Ports
<1>2. PICK x \in S : \A y \in S : <<y, x>> \notin OpToRel(<, Nat)
  BY <1>1, WFMin, NatLessThanWellFounded
<1>3. ASSUME NEW y \in S, ~(x <= y) PROVE FALSE
  <2>1. y < x /\ <<y, x>> \in Nat \X Nat
    BY <1>1, <1>3
  <2>2. <<y, x>> \in OpToRel(<, Nat)
    BY <2>1 DEF OpToRel
  <2> QED
    BY <1>2, <2>2
<1> QED
  BY <1>3 DEF Min

-----------------------------------------------------------------------------
(* Types *)

\* What is known of a process.
ProcRecords == [pc : ProcPcs, port : Ports, foreground : BOOLEAN, auto : BOOLEAN]

\* A process at another place.
LEMMA Placed ==
    ASSUME NEW r \in ProcRecords, NEW pc \in ProcPcs
    PROVE  [r EXCEPT !.pc = pc] \in ProcRecords
  BY DEF ProcRecords

\* A step of the place of one process, as most are.
LEMMA GotoTypes ==
    ASSUME TypeOK, NEW a \in Procs, NEW pc \in ProcPcs, Goto(a, pc)
    PROVE  /\ proc' \in [Procs -> ProcRecords]
           /\ \A b \in Procs : proc'[b] = IF b = a THEN [proc[a] EXCEPT !.pc = pc] ELSE proc[b]
  BY Placed DEF TypeOK, Goto, ProcRecords

\* The processes choose their ports and go through the server's own code.
LEMMA ServeTypes == ASSUME TypeOK, NEW a \in Procs, Serve(a) \/ EndServing(a) PROVE TypeOK'
<1> USE DEF TypeOK, ProcRecords
<1>1. CASE Choose(a)
  <2>1. CASE Candidates(a) = {}
    BY <1>1, <2>1, GotoTypes DEF Choose, ProcPcs, Over
  <2>2. CASE Candidates(a) # {}
    <3>1. Min(Candidates(a)) \in Ports
      <4>1. Candidates(a) \in SUBSET Ports
        BY DEF Candidates
      <4> QED
        BY <2>2, <4>1, MinIsMember
    <3>2. contested' \subseteq Ports
      BY <1>1, <2>2, <3>1 DEF Choose, Contest
    <3>3. proc' \in [Procs -> ProcRecords]
      BY <1>1, <2>2, <3>1 DEF Choose, ProcPcs, Over, TypeOK
    <3> QED
      BY <1>1, <3>2, <3>3 DEF Choose, TypeOK
  <2> QED
    BY <2>1, <2>2
<1>2. CASE Bind(a)
  <2>1. proc[a].port \in Ports
    OBVIOUS
  <2>2. listener' \in [Ports -> Procs \cup {None}]
    BY <1>2, <2>1 DEF Bind
  <2> QED
    BY <1>2, <2>2, GotoTypes DEF Bind, ProcPcs, Over
<1>3. CASE EmptyRegistry(a)
  <2>1. registry' \in [Ports -> Procs \cup {None, Torn}]
    BY <1>3 DEF EmptyRegistry
  <2> QED
    BY <1>3, <2>1, GotoTypes DEF EmptyRegistry, ProcPcs, Over
<1>4. CASE FillRegistry(a)
  <2>1. registry' \in [Ports -> Procs \cup {None, Torn}]
    BY <1>4, Names DEF FillRegistry
  <2> QED
    BY <1>4, <2>1, GotoTypes DEF FillRegistry, ProcPcs, Over
<1>5. CASE Unregister(a)
  <2>1. registry' \in [Ports -> Procs \cup {None, Torn}]
    BY <1>5 DEF Unregister
  <2> QED
    BY <1>5, <2>1, GotoTypes DEF Unregister, ProcPcs, Over
<1>6. CASE Die(a)
  <2>1. listener' \in [Ports -> Procs \cup {None}]
    BY <1>6 DEF Die, Closed
  <2> QED
    BY <1>6, <2>1, GotoTypes DEF Die, ProcPcs, Over
<1>7. CASE EndServing(a)
  <2>1. listener' \in [Ports -> Procs \cup {None}]
    BY <1>7 DEF EndServing
  <2> QED
    BY <1>7, <2>1, GotoTypes DEF EndServing, ProcPcs, Over
<1> QED
  BY <1>1, <1>2, <1>3, <1>4, <1>5, <1>6, <1>7 DEF Serve

\* What _command_serve_artifacts is called with becomes its mode.
LEMMA Moded ==
    ASSUME NEW r \in ProcRecords,
           NEW mode \in Modes
    PROVE  [r EXCEPT !.pc = "choose", !.foreground = mode.foreground, !.auto = mode.auto]
             \in ProcRecords
<1>1. mode.foreground \in BOOLEAN /\ mode.auto \in BOOLEAN
  BY ArtifactAssumption
<1>2. [r EXCEPT !.pc = "choose"] \in ProcRecords
  BY Placed DEF ProcPcs
<1> QED
  BY <1>1, <1>2 DEF ProcRecords

\* A start begins, spawns its server and waits for it.
LEMMA StartTypes == ASSUME TypeOK, NEW s \in Starts, Begin(s) \/ Background(s) PROVE TypeOK'
<1> USE Names DEF TypeOK
<1> DEFINE R == ProcRecords
<1>a. proc \in [Procs -> R] /\ \A b \in Procs : proc[b] \in R
  BY DEF ProcRecords
<1>1. CASE Begin(s)
  <2>1. PICK mode \in Modes :
          proc' = [proc EXCEPT ![Command(s)] =
                     [@ EXCEPT !.pc = "choose", !.foreground = mode.foreground,
                               !.auto = mode.auto]]
    BY <1>1 DEF Begin
  <2>2. [proc[Command(s)] EXCEPT !.pc = "choose", !.foreground = mode.foreground,
                                 !.auto = mode.auto] \in R
    BY <1>a, Moded
  <2>3. proc' \in [Procs -> R]
    BY <1>a, <2>1, <2>2
  <2> QED
    BY <1>1, <2>3 DEF Begin, ProcRecords
<1>2. CASE Spawn(s)
  <2>1. [proc[Command(s)] EXCEPT !.pc = "register"] \in R
    BY <1>a, Placed DEF ProcPcs
  <2>2. [pc |-> "choose", port |-> proc[Command(s)].port, foreground |-> TRUE,
         auto |-> FALSE] \in R
    BY <1>a DEF ProcPcs, ProcRecords
  <2>3. proc' \in [Procs -> R]
    BY <1>a, <1>2, <2>1, <2>2 DEF Spawn
  <2> QED
    BY <1>2, <2>3 DEF Spawn, ProcRecords
<1>3. CASE PollHealthy(s)
  <2>1. listener[proc[Command(s)].port] \in Procs
    BY <1>3 DEF PollHealthy
  <2>2. answered' \in [Starts -> Procs \cup {None}]
    BY <1>3, <2>1 DEF PollHealthy
  <2> QED
    BY <1>3, <2>2, GotoTypes DEF PollHealthy, ProcPcs, Over, ProcRecords
<1>4. CASE PollFails(s)
  <2>1. /\ [proc[Command(s)] EXCEPT !.pc = "unregister"] \in R
        /\ [proc[Server(s)] EXCEPT !.pc = "dying"] \in R
        /\ [proc[Server(s)] EXCEPT !.pc = @] \in R
    BY <1>a, Placed DEF ProcPcs
  <2>2. CASE Running(Server(s))
    <3>1. proc' \in [Procs -> R]
      BY <1>a, <1>4, <2>1, <2>2 DEF PollFails
    <3> QED
      BY <1>4, <3>1 DEF PollFails, ProcRecords
  <2>3. CASE ~Running(Server(s))
    <3>1. proc' \in [Procs -> R]
      BY <1>a, <1>4, <2>1, <2>3 DEF PollFails
    <3> QED
      BY <1>4, <3>1 DEF PollFails, ProcRecords
  <2> QED
    BY <2>2, <2>3
<1> QED
  BY <1>1, <1>2, <1>3, <1>4 DEF Background

\* Deaths, and the steps of artifact-server stop.
LEMMA StopTypes ==
    ASSUME TypeOK,
           \/ \E a \in Procs : Crash(a)
           \/ \E p \in Ports : StopLoads(p)
           \/ Stop
    PROVE  TypeOK'
<1> USE DEF TypeOK, ProcRecords
<1>1. ASSUME NEW a \in Procs, Crash(a) PROVE TypeOK'
  <2>1. listener' \in [Ports -> Procs \cup {None}]
    BY <1>1 DEF Crash, Closed
  <2>2. crashes' \in 0..MaxCrashes
    BY <1>1, ArtifactAssumption DEF Crash
  <2> QED
    BY <1>1, <2>1, <2>2, GotoTypes DEF Crash, ProcPcs, Over
<1>2. ASSUME NEW p \in Ports, StopLoads(p) PROVE TypeOK'
  <2>1. contested' \subseteq Ports
    BY <1>2 DEF StopLoads, Contest
  <2>2. registry[p] \in Procs \cup {None, Torn}
    OBVIOUS
  <2> QED
    BY <1>2, <2>1, <2>2 DEF StopLoads, StopPcs
<1>3. CASE StopKills
  <2>1. stop.pid \in Procs
    BY <1>3 DEF StopKills
  <2>2. stop' \in [pc : StopPcs \ {"idle", "missing"}, port : Ports, pid : Procs]
    BY <1>3, <2>1 DEF StopKills, StopPcs
  <2> QED
    BY <1>3, <2>1, <2>2, GotoTypes DEF StopKills, ProcPcs
<1>4. CASE StopFindsDead \/ StopWaits
  BY <1>4 DEF StopFindsDead, StopWaits, StopPcs
<1>5. CASE StopRemoves
  BY <1>5 DEF StopRemoves, StopPcs
<1> QED
  BY <1>1, <1>2, <1>3, <1>4, <1>5 DEF Stop

\* The processes, the sockets, the registry files and the stop have their types,
\* for any number of starts and ports.
THEOREM TypeCorrect == Spec => []TypeOK
<1>1. Init => TypeOK
  <2> SUFFICES ASSUME Init PROVE TypeOK
    OBVIOUS
  <2>1. 1 \in Ports /\ 0 \in 0..MaxCrashes
    BY ArtifactAssumption DEF Ports
  <2> QED
    BY <2>1 DEF Init, TypeOK, ProcPcs, Over, StopPcs
<1>2. TypeOK /\ [Next]_vars => TypeOK'
  <2> SUFFICES ASSUME TypeOK, [Next]_vars PROVE TypeOK'
    OBVIOUS
  <2>1. CASE UNCHANGED vars
    BY <2>1 DEF vars, TypeOK
  <2> QED
    BY <2>1, ServeTypes, StartTypes, StopTypes DEF Next
<1> QED
  BY <1>1, <1>2, PTL DEF Spec

-----------------------------------------------------------------------------
(* A start that failed has no server *)

\* What the place of a process says of its start: only a process in the foreground
\* binds, only a command in the background spawns and waits, and a server is there
\* once it was spawned, on the port of its command.
PlaceOK(a) ==
    /\ proc[a].pc \in {"bind", "serving"} => proc[a].foreground
    /\ proc[a].pc \in {"spawn", "poll"} => ~proc[a].foreground

StartOK(s) ==
    /\ proc[Command(s)].pc \in {"idle", "choose", "spawn"} \/ proc[Command(s)].foreground =>
          proc[Server(s)].pc = "idle"
    /\ proc[Command(s)].pc \in {"register", "registering", "poll"}
          /\ ~proc[Command(s)].foreground => proc[Server(s)].pc # "idle"
    /\ proc[Server(s)].pc # "idle" =>
          /\ proc[Server(s)].foreground /\ ~proc[Server(s)].auto
          /\ proc[Server(s)].port = proc[Command(s)].port
    /\ proc[Command(s)].pc \in {"unregister", "failed"} /\ ~proc[Command(s)].foreground =>
          proc[Server(s)].pc \in Over \cup {"dying"}

Places == (\A a \in Procs : PlaceOK(a)) /\ (\A s \in Starts : StartOK(s))

\* What a process that goes on does not change: the others, and how it was called.
LEMMA Others1 ==
    ASSUME TypeOK, NEW a \in Procs, NEW pc, Goto(a, pc)
    PROVE  /\ \A b \in Procs : b # a => proc'[b] = proc[b]
           /\ proc'[a].pc = pc /\ proc'[a].port = proc[a].port
           /\ proc'[a].foreground = proc[a].foreground /\ proc'[a].auto = proc[a].auto
           /\ \A b \in Procs : proc[b].foreground \in BOOLEAN /\ proc[b].auto \in BOOLEAN
  BY DEF TypeOK, Goto

\* The steps that change the place of one process, and no port.
OneGoes(a) ==
    \/ Bind(a) \/ EmptyRegistry(a) \/ FillRegistry(a) \/ Unregister(a) \/ Die(a)
    \/ EndServing(a) \/ Crash(a)
    \/ StopKills /\ a = stop.pid
    \/ \E s \in Starts : a = Command(s) /\ PollHealthy(s)

\* A process that goes on stays where its start can be.
LEMMA OneGoesPlaces ==
    ASSUME TypeOK, Places, NEW a \in Procs, OneGoes(a)
    PROVE  Places'
<1>1. PICK pc \in ProcPcs :
               /\ proc' = [proc EXCEPT ![a].pc = pc]
               /\ pc # "idle" /\ pc \notin {"bind", "spawn", "choose"}
               /\ proc[a].pc \notin {"idle"} /\ (proc[a].pc = "choose" => pc \in {"dead", "dying"})
               /\ pc = "serving" => proc[a].foreground
               /\ pc = "poll" => ~proc[a].foreground /\ proc[a].pc = "registering"
               /\ pc = "register" => proc[a].foreground
               /\ pc = "registering" => proc[a].pc = "register"
               /\ pc \in {"unregister", "failed"} =>
                     proc[a].foreground \/ proc[a].pc \in {"unregister", "failed"}
               /\ proc[a].pc \in Over \cup {"dying"} => pc \in Over \cup {"dying"}
  BY DEF OneGoes, Bind, EmptyRegistry, FillRegistry, Unregister, Die, EndServing, Crash,
         StopKills, PollHealthy, Running, Over, Places, PlaceOK, Goto, ProcPcs
<1>2. /\ \A b \in Procs : b # a => proc'[b] = proc[b]
      /\ proc'[a].pc = pc /\ proc'[a].port = proc[a].port
      /\ proc'[a].foreground = proc[a].foreground /\ proc'[a].auto = proc[a].auto
      /\ \A b \in Procs : proc[b].foreground \in BOOLEAN /\ proc[b].auto \in BOOLEAN
  <2>1. Goto(a, pc)
    BY <1>1 DEF Goto
  <2> QED
    BY <2>1, Others1
<1>3. ASSUME NEW b \in Procs PROVE PlaceOK(b)'
  BY <1>1, <1>2 DEF Places, PlaceOK
<1>4. ASSUME NEW s \in Starts PROVE StartOK(s)'
  <2> DEFINE c == Command(s) d == Server(s)
  <2>1. c \in Procs /\ d \in Procs /\ c # d
    BY Names
  <2>2. StartOK(s)
    BY DEF Places
  <2> USE <1>1, <1>2, <2>1, <2>2 DEF StartOK, Over
  <2>3. CASE a = c
    BY <2>3
  <2>4. CASE a = d
    BY <2>4
  <2>5. CASE a # c /\ a # d
    BY <2>5
  <2> QED
    BY <2>3, <2>4, <2>5
<1> QED
  BY <1>3, <1>4 DEF Places

\* Choosing a port, with or without success.
LEMMA ChoosePlaces == ASSUME TypeOK, Places, NEW a \in Procs, Choose(a) PROVE Places'
<1>1. PICK pc \in {"failed", "bind", "spawn"}, port \in Ports :
        /\ proc' = [proc EXCEPT ![a].port = port, ![a].pc = pc]
        /\ pc = "bind" => proc[a].foreground
        /\ pc = "spawn" => ~proc[a].foreground
        /\ ~proc[a].auto => port = proc[a].port
  <2>1. CASE Candidates(a) = {}
    <3>1. proc' = [proc EXCEPT ![a].port = proc[a].port, ![a].pc = "failed"]
      BY <2>1 DEF Choose, Goto, TypeOK
    <3> QED
      BY <3>1 DEF TypeOK
  <2>2. CASE Candidates(a) # {}
    <3>1. Candidates(a) \in SUBSET Ports
      BY DEF Candidates
    <3>2. Min(Candidates(a)) \in Candidates(a)
      BY <2>2, <3>1, MinIsMember
    <3>3. ~proc[a].auto => Min(Candidates(a)) = proc[a].port
      BY <3>2 DEF Candidates
    <3> QED
      BY <2>2, <3>1, <3>2, <3>3 DEF Choose
  <2> QED
    BY <2>1, <2>2
<1>2. /\ \A b \in Procs : b # a => proc'[b] = proc[b]
      /\ proc'[a].pc = pc /\ proc'[a].port = port
      /\ proc'[a].foreground = proc[a].foreground /\ proc'[a].auto = proc[a].auto
      /\ \A b \in Procs : proc[b].foreground \in BOOLEAN /\ proc[b].auto \in BOOLEAN
  BY <1>1 DEF TypeOK
<1>3. proc[a].pc = "choose"
  BY DEF Choose
<1>4. ASSUME NEW b \in Procs PROVE PlaceOK(b)'
  BY <1>1, <1>2 DEF Places, PlaceOK
<1>5. ASSUME NEW s \in Starts PROVE StartOK(s)'
  <2> DEFINE c == Command(s) d == Server(s)
  <2>1. c \in Procs /\ d \in Procs /\ c # d
    BY Names
  <2>2. StartOK(s)
    BY DEF Places
  <2> USE <1>1, <1>2, <1>3, <2>1, <2>2 DEF StartOK, Over
  <2>3. CASE a = c
    BY <2>3
  <2>4. CASE a = d
    BY <2>4
  <2>5. CASE a # c /\ a # d
    BY <2>5
  <2> QED
    BY <2>3, <2>4, <2>5
<1> QED
  BY <1>4, <1>5 DEF Places

\* Beginning, spawning and giving up are steps of the two processes of one start.
LEMMA StartPlaces ==
    ASSUME TypeOK, Places, NEW s \in Starts, Begin(s) \/ Spawn(s) \/ PollFails(s)
    PROVE  Places'
<1> DEFINE c == Command(s) d == Server(s)
<1>1. /\ c \in Procs /\ d \in Procs /\ c # d
      /\ \A t \in Starts : t # s => /\ Command(t) \in Procs \ {c, d}
                                    /\ Server(t) \in Procs \ {c, d}
  BY Names
<1>2. /\ \A b \in Procs \ {c, d} : proc'[b] = proc[b]
      /\ \A b \in Procs : proc[b].foreground \in BOOLEAN /\ proc[b].auto \in BOOLEAN
  BY <1>1 DEF TypeOK, Begin, Spawn, PollFails
<1>3. StartOK(s) /\ PlaceOK(c) /\ PlaceOK(d)
  BY <1>1 DEF Places
<1>4. StartOK(s)' /\ PlaceOK(c)' /\ PlaceOK(d)'
  <2> USE <1>1, <1>2, <1>3 DEF StartOK, PlaceOK, Over
  <2>1. CASE Begin(s)
    <3>1. /\ proc'[c].pc = "choose" /\ proc'[c].foreground \in BOOLEAN
          /\ proc'[d] = proc[d] /\ proc[c].pc = "idle"
      <4>1. PICK mode \in Modes :
              proc' = [proc EXCEPT ![c] =
                         [@ EXCEPT !.pc = "choose", !.foreground = mode.foreground,
                                   !.auto = mode.auto]]
        BY <2>1 DEF Begin
      <4>2. mode.foreground \in BOOLEAN
        BY ArtifactAssumption
      <4> QED
        BY <2>1, <4>1, <4>2, ZenonT(30) DEF Begin, TypeOK
    <3> QED
      BY <3>1
  <2>2. CASE Spawn(s)
    <3>1. /\ proc'[c].pc = "register" /\ proc'[c].foreground = proc[c].foreground
          /\ proc'[c].port = proc[c].port /\ proc[c].pc = "spawn"
          /\ proc'[d] = [pc |-> "choose", port |-> proc[c].port, foreground |-> TRUE,
                         auto |-> FALSE]
      BY <2>2 DEF Spawn, TypeOK
    <3> QED
      BY <3>1
  <2>3. CASE PollFails(s)
    <3>1. /\ proc'[c].pc = "unregister" /\ proc'[c].foreground = proc[c].foreground
          /\ proc'[c].port = proc[c].port /\ proc[c].pc = "poll"
          /\ proc'[d].pc = IF Running(d) THEN "dying" ELSE proc[d].pc
          /\ proc'[d].foreground = proc[d].foreground /\ proc'[d].port = proc[d].port
          /\ proc'[d].auto = proc[d].auto
      BY <2>3 DEF PollFails, TypeOK
    <3> QED
      BY <3>1 DEF Running
  <2> QED
    BY <2>1, <2>2, <2>3
<1>5. ASSUME NEW t \in Starts, t # s PROVE StartOK(t)'
  <2>1. StartOK(t)
    BY DEF Places
  <2>2. proc'[Command(t)] = proc[Command(t)] /\ proc'[Server(t)] = proc[Server(t)]
    BY <1>1, <1>2, <1>5
  <2> QED
    BY <2>1, <2>2 DEF StartOK
<1>6. ASSUME NEW b \in Procs \ {c, d} PROVE PlaceOK(b)'
  BY <1>2, <1>6 DEF Places, PlaceOK
<1> QED
  BY <1>4, <1>5, <1>6 DEF Places

\* The other steps do not touch the processes.
LEMMA PlacesStep == TypeOK /\ Places /\ [Next]_vars => Places'
<1> SUFFICES ASSUME TypeOK, Places, [Next]_vars PROVE Places'
  OBVIOUS
<1>1. ASSUME NEW s \in Starts, Begin(s) \/ Background(s) PROVE Places'
  <2>1. CASE PollHealthy(s)
    BY <2>1, Names, OneGoesPlaces DEF OneGoes
  <2> QED
    BY <1>1, <2>1, StartPlaces DEF Background
<1>2. ASSUME NEW a \in Procs, Serve(a) \/ EndServing(a) \/ Crash(a) PROVE Places'
  <2>1. CASE Choose(a)
    BY <2>1, ChoosePlaces
  <2>2. CASE \/ Bind(a) \/ EmptyRegistry(a) \/ FillRegistry(a) \/ Unregister(a) \/ Die(a)
             \/ EndServing(a) \/ Crash(a)
    <3>1. OneGoes(a)
      BY <2>2 DEF OneGoes
    <3> QED
      BY <3>1, OneGoesPlaces
  <2> QED
    BY <1>2, <2>1, <2>2 DEF Serve
<1>3. CASE StopKills
  <2>1. stop.pid \in Procs
    BY <1>3 DEF StopKills, TypeOK
  <2> QED
    BY <1>3, <2>1, OneGoesPlaces DEF OneGoes
<1>4. CASE UNCHANGED proc
  BY <1>4 DEF Places, PlaceOK, StartOK
<1>5. CASE StopFindsDead \/ StopWaits \/ StopRemoves \/ \E p \in Ports : StopLoads(p)
  BY <1>4, <1>5 DEF StopFindsDead, StopWaits, StopRemoves, StopLoads
<1>6. CASE UNCHANGED vars
  BY <1>4, <1>6 DEF vars
<1> QED
  BY <1>1, <1>2, <1>3, <1>5, <1>6 DEF Next, Stop

\* Where the processes are is known at any time.
LEMMA PlacesHold == Spec => []Places
<1>1. Init => Places
  BY Names DEF Init, Places, PlaceOK, StartOK
<1> QED
  BY <1>1, PlacesStep, TypeCorrect, PTL DEF Spec

\* A start in the background that reported a failure leaves no server, for any number
\* of starts and ports (_spawn_background_artifact_server).
THEOREM FailedStartsAreClean == Spec => []FailedStartLeavesNoServer
<1>1. Places => FailedStartLeavesNoServer
  BY DEF Places, StartOK, FailedStartLeavesNoServer
<1> QED
  BY <1>1, PlacesHold, PTL

-----------------------------------------------------------------------------
(* What a step does to a process *)

\* It goes on at another place, or dies, and nothing else of it changes.
Goes(b) ==
    /\ Running(b)
    /\ proc'[b].port = proc[b].port /\ proc'[b].foreground = proc[b].foreground
    /\ proc'[b].pc \notin {"idle", "choose", "spawn"}
    /\ proc[b].pc = "dying" => proc'[b].pc \in {"dying", "dead"}
    /\ b[2] = "command" /\ proc[b].pc = "choose" => proc'[b].pc = "dead" \/ b = stop.pid

\* It chooses its port, and contests it if somebody is there.
Chooses(b) ==
    /\ proc[b].pc = "choose" /\ proc'[b].pc \in {"failed", "bind", "spawn"}
    /\ proc'[b].foreground = proc[b].foreground
    /\ \A c \in Procs : c # b => proc'[c] = proc[c]
    /\ proc'[b].pc # "failed" =>
          /\ proc'[b].port \in Ports
          /\ Others(b, proc'[b].port) # {} \/ StopBusy(proc'[b].port) =>
                proc'[b].port \in contested'

\* It is called, or spawned by its command.
Arrives(b) ==
    /\ proc[b].pc = "idle" /\ proc'[b].pc = "choose"
    /\ b[2] = "server" =>
          /\ proc[Command(b[1])].pc = "spawn"
          /\ proc'[b].port = proc[Command(b[1])].port

\* There is nothing else that may happen to a process.
LEMMA Footprint ==
    ASSUME TypeOK, Places, [Next]_vars
    PROVE  \A b \in Procs : proc'[b] = proc[b] \/ Goes(b) \/ Chooses(b) \/ Arrives(b)
<1> SUFFICES ASSUME NEW b \in Procs
             PROVE  proc'[b] = proc[b] \/ Goes(b) \/ Chooses(b) \/ Arrives(b)
  OBVIOUS
<1>1. ASSUME NEW a \in Procs, OneGoes(a)
      PROVE  proc'[b] = proc[b] \/ Goes(b)
  <2>1. PICK pc \in ProcPcs :
          /\ proc' = [proc EXCEPT ![a].pc = pc]
          /\ Running(a) /\ pc \notin {"idle", "choose", "spawn"}
          /\ proc[a].pc = "dying" => pc \in {"dying", "dead"}
          /\ proc[a].pc = "choose" => pc = "dead" \/ a = stop.pid
    BY <1>1 DEF OneGoes, Bind, EmptyRegistry, FillRegistry, Unregister, Die, EndServing,
       Crash, StopKills, PollHealthy, Running, Over, Goto, ProcPcs
  <2> QED
    BY <2>1 DEF Goes, TypeOK
<1>2. ASSUME NEW a \in Procs, Choose(a)
      PROVE  proc'[b] = proc[b] \/ Chooses(b)
  <2>1. CASE Candidates(a) = {}
    BY <1>2, <2>1 DEF Choose, Goto, Chooses, TypeOK
  <2>2. CASE Candidates(a) # {}
    <3>1. Candidates(a) \in SUBSET Ports
      BY DEF Candidates
    <3>2. Min(Candidates(a)) \in Ports
      BY <2>2, <3>1, MinIsMember
    <3> DEFINE m == Min(Candidates(a))
    <3>3. m \in Ports
      BY <3>2
    <3>4. /\ \A c \in Procs : c # a => proc'[c] = proc[c]
          /\ proc'[a].port = m /\ proc'[a].foreground = proc[a].foreground
          /\ proc[a].pc = "choose" /\ proc'[a].pc \in {"failed", "bind", "spawn"}
      BY <1>2, <2>2, <3>3 DEF Choose, TypeOK
    <3>5. Others(a, m) # {} \/ StopBusy(m) => m \in contested'
      BY <1>2, <2>2 DEF Choose, Contest
    <3> QED
      BY <3>3, <3>4, <3>5 DEF Chooses
  <2> QED
    BY <2>1, <2>2
<1>3. ASSUME NEW s \in Starts, Begin(s) \/ Spawn(s) \/ PollFails(s)
      PROVE  proc'[b] = proc[b] \/ Goes(b) \/ Arrives(b)
  <2> DEFINE c == Command(s) d == Server(s)
  <2>1. /\ c \in Procs /\ d \in Procs /\ c # d /\ c[2] = "command" /\ d[2] = "server"
        /\ Command(d[1]) = c
    BY Names
  <2>2. CASE Begin(s)
    <3>1. PICK mode \in Modes :
            proc' = [proc EXCEPT ![c] =
                       [@ EXCEPT !.pc = "choose", !.foreground = mode.foreground,
                                 !.auto = mode.auto]]
      BY <2>2 DEF Begin
    <3> QED
      BY <2>1, <2>2, <3>1 DEF Begin, Arrives, TypeOK
  <2>3. CASE Spawn(s)
    <3>1. proc[d].pc = "idle"
      BY <2>3 DEF Spawn, Places, StartOK
    <3> QED
      BY <2>1, <2>3, <3>1 DEF Spawn, Goes, Arrives, Running, Over, TypeOK
  <2>4. CASE PollFails(s)
    <3>1. CASE b = c
      BY <2>1, <2>4, <3>1 DEF PollFails, Goes, Running, Over, TypeOK
    <3>2. CASE b = d
      <4>1. proc[d] \in ProcRecords
        BY <2>1 DEF TypeOK, ProcRecords
      <4>2. proc'[d] = IF Running(d) THEN [proc[d] EXCEPT !.pc = "dying"]
                       ELSE [proc[d] EXCEPT !.pc = @]
        BY <2>1, <2>4 DEF PollFails, TypeOK
      <4>3. CASE Running(d)
        <5>1. /\ proc'[d].port = proc[d].port /\ proc'[d].foreground = proc[d].foreground
              /\ proc'[d].pc = "dying"
          BY <4>1, <4>2, <4>3 DEF ProcRecords
        <5> QED
          BY <2>1, <3>2, <4>3, <5>1 DEF Goes
      <4>4. CASE ~Running(d)
        BY <3>2, <4>1, <4>2, <4>4 DEF ProcRecords
      <4> QED
        BY <4>3, <4>4
    <3> QED
      BY <2>1, <2>4, <3>1, <3>2 DEF PollFails, TypeOK
  <2> QED
    BY <1>3, <2>2, <2>3, <2>4
<1>4. CASE UNCHANGED proc
  BY <1>4
<1>5. CASE UNCHANGED vars \/ StopFindsDead \/ StopWaits \/ StopRemoves
           \/ \E p \in Ports : StopLoads(p)
  BY <1>4, <1>5 DEF vars, StopFindsDead, StopWaits, StopRemoves, StopLoads
<1>6. CASE StopKills
  <2>1. stop.pid \in Procs
    BY <1>6 DEF StopKills, TypeOK
  <2> QED
    BY <1>1, <1>6, <2>1 DEF OneGoes
<1>7. ASSUME NEW s \in Starts, PollHealthy(s) PROVE proc'[b] = proc[b] \/ Goes(b)
  BY <1>1, <1>7, Names DEF OneGoes
<1>8. ASSUME NEW a \in Procs,
             \/ Bind(a) \/ EmptyRegistry(a) \/ FillRegistry(a) \/ Unregister(a) \/ Die(a)
             \/ EndServing(a) \/ Crash(a)
      PROVE  proc'[b] = proc[b] \/ Goes(b)
  <2>1. OneGoes(a)
    BY <1>8 DEF OneGoes
  <2> QED
    BY <1>1, <2>1
<1> QED
  BY <1>2, <1>3, <1>5, <1>6, <1>7, <1>8 DEF Next, Serve, Background, Stop

-----------------------------------------------------------------------------
(* Registered processes *)

\* A process that a registry file or a stop may name: a server, or a command in the
\* foreground that has chosen its port.
Registrable(x) ==
    /\ proc[x].pc # "idle"
    /\ x[2] = "command" => proc[x].foreground /\ proc[x].pc # "choose"

Registered ==
    /\ \A p \in Ports : registry[p] \in Procs => Registrable(registry[p])
    /\ stop.pid \in Procs => Registrable(stop.pid)
    /\ stop.pc \in {"waiting", "remove"} /\ Running(stop.pid) => proc[stop.pid].pc = "dying"

\* It remains one.
LEMMA StaysRegistrable ==
    ASSUME TypeOK, Places, [Next]_vars, NEW x \in Procs, Registrable(x)
    PROVE  Registrable(x)'
  BY Footprint DEF Registrable, Goes, Chooses, Arrives

\* Which steps write a registry file, a socket, the stop and an answer.
LEMMA Writers ==
    ASSUME [Next]_vars
    PROVE  /\ \/ registry' = registry
              \/ StopRemoves
              \/ \E a \in Procs : EmptyRegistry(a) \/ FillRegistry(a) \/ Unregister(a)
           /\ \/ listener' = listener
              \/ \E a \in Procs : Bind(a) \/ EndServing(a) \/ Die(a) \/ Crash(a)
           /\ \/ stop' = stop
              \/ \E p \in Ports : StopLoads(p)
              \/ Stop
           /\ \/ answered' = answered
              \/ \E s \in Starts : PollHealthy(s)
           /\ contested \subseteq contested'
<1>1. ASSUME NEW s \in Starts, Begin(s) \/ Background(s)
      PROVE  /\ UNCHANGED <<registry, listener, stop, contested>>
             /\ answered' = answered \/ PollHealthy(s)
  BY <1>1 DEF Begin, Background, Spawn, PollHealthy, PollFails
<1>2. ASSUME NEW a \in Procs, Choose(a)
      PROVE  UNCHANGED <<registry, listener, stop, answered>> /\ contested \subseteq contested'
  BY <1>2 DEF Choose, Contest
<1>3. ASSUME NEW a \in Procs,
             \/ Bind(a) \/ EmptyRegistry(a) \/ FillRegistry(a) \/ Unregister(a) \/ Die(a)
             \/ EndServing(a) \/ Crash(a)
      PROVE  /\ UNCHANGED <<stop, answered, contested>>
             /\ registry' = registry \/ EmptyRegistry(a) \/ FillRegistry(a) \/ Unregister(a)
             /\ listener' = listener \/ Bind(a) \/ EndServing(a) \/ Die(a) \/ Crash(a)
  BY <1>3 DEF Bind, EmptyRegistry, FillRegistry, Unregister, Die, EndServing, Crash
<1>4. ASSUME NEW p \in Ports, StopLoads(p)
      PROVE  UNCHANGED <<registry, listener, answered>> /\ contested \subseteq contested'
  BY <1>4 DEF StopLoads, Contest
<1>5. CASE Stop
  <2>1. UNCHANGED <<listener, answered, contested>> /\ (registry' = registry \/ StopRemoves)
    BY <1>5 DEF Stop, StopKills, StopFindsDead, StopWaits, StopRemoves
  <2> QED
    BY <1>5, <2>1
<1>6. CASE UNCHANGED vars
  BY <1>6 DEF vars
<1>7. ASSUME NEW s \in Starts, Begin(s) \/ Background(s) PROVE answered' = answered \/
          \E t \in Starts : PollHealthy(t)
  BY <1>1, <1>7
<1> QED
  BY <1>1, <1>2, <1>3, <1>4, <1>5, <1>6, <1>7 DEF Next, Serve

\* Who gets registered is registrable.
LEMMA RegisteredStep == TypeOK /\ Places /\ Registered /\ [Next]_vars => Registered'
<1> SUFFICES ASSUME TypeOK, Places, Registered, [Next]_vars PROVE Registered'
  OBVIOUS
<1> DEFINE Then(x) == /\ proc'[x].pc # "idle"
                      /\ x[2] = "command" => proc'[x].foreground /\ proc'[x].pc # "choose"
<1>1. \A x \in Procs : Registrable(x) => Then(x)
  BY StaysRegistrable DEF Registrable
<1> HIDE DEF Then
<1>2. ASSUME NEW p \in Ports, registry'[p] \in Procs
      PROVE  Then(registry'[p])
  <2>1. CASE registry'[p] = registry[p]
    BY <1>1, <1>2, <2>1 DEF Registered
  <2>2. ASSUME NEW a \in Procs, FillRegistry(a), proc[a].port = p
        PROVE  Then(registry'[p])
    <3>1. registry'[p] = IF proc[a].foreground THEN a ELSE Server(a[1])
      BY <2>2 DEF FillRegistry, TypeOK
    <3>2. CASE proc[a].foreground
      <4>1. Registrable(a)
        BY <2>2, <3>2 DEF FillRegistry, Registrable
      <4> QED
        BY <1>1, <3>1, <3>2, <4>1
    <3>3. CASE ~proc[a].foreground
      <4>1. a = Command(a[1]) /\ a[1] \in Starts
        BY <2>2, <3>3, Names DEF Places, StartOK, FillRegistry
      <4>2. proc[Server(a[1])].pc # "idle"
        BY <2>2, <3>3, <4>1 DEF Places, StartOK, FillRegistry
      <4>3. Registrable(Server(a[1])) /\ Server(a[1]) \in Procs
        BY <4>1, <4>2, Names DEF Registrable
      <4> QED
        BY <1>1, <3>1, <3>3, <4>3
    <3> QED
      BY <3>2, <3>3
  <2>3. \/ registry'[p] = registry[p] \/ registry'[p] \in {None, Torn}
        \/ \E a \in Procs : FillRegistry(a) /\ proc[a].port = p
    BY Writers DEF StopRemoves, EmptyRegistry, FillRegistry, Unregister, TypeOK
  <2> QED
    BY <1>2, <2>1, <2>2, <2>3, Names
<1>3. stop'.pid \in Procs => Then(stop'.pid)
  <2>1. \/ stop'.pid = stop.pid \/ stop'.pid = None
        \/ \E p \in Ports : registry[p] \in Procs /\ stop'.pid = registry[p]
    BY Writers DEF Stop, StopLoads, StopKills, StopFindsDead, StopWaits, StopRemoves, TypeOK
  <2> QED
    BY <1>1, <2>1, Names DEF Registered
<1>4. ASSUME stop'.pc \in {"waiting", "remove"}, Running(stop.pid)'
      PROVE  proc'[stop'.pid].pc = "dying"
  <2>1. CASE StopKills
    BY <2>1 DEF StopKills, Goto, TypeOK
  <2>2. CASE StopFindsDead \/ StopWaits
    BY <1>4, <2>2 DEF StopFindsDead, StopWaits, Running, Registered, TypeOK
  <2>3. CASE stop' = stop
    <3>1. stop.pid \in Procs /\ Registrable(stop.pid)
      BY <1>4, <2>3 DEF TypeOK, Registered
    <3>2. CASE Running(stop.pid)
      <4>1. proc[stop.pid].pc = "dying"
        BY <1>4, <2>3, <3>2 DEF Registered
      <4> QED
        BY <1>4, <2>3, <3>1, <4>1, Footprint DEF Goes, Chooses, Arrives, Running, Over
    <3>3. CASE ~Running(stop.pid)
      BY <1>4, <2>3, <3>1, <3>3, Footprint
         DEF Goes, Chooses, Arrives, Running, Over, Registrable
    <3> QED
      BY <3>2, <3>3
  <2> QED
    BY <1>4, <2>1, <2>2, <2>3, Writers DEF Stop, StopLoads, StopRemoves, TypeOK
<1> QED
  BY <1>2, <1>3, <1>4 DEF Registered, Registrable, Then

\* The registry and the stop name only such processes.
LEMMA RegisteredHolds == Spec => []Registered
<1>1. Init => Registered
  BY Names DEF Init, Registered
<1> QED
  BY <1>1, RegisteredStep, TypeCorrect, PlacesHold, PTL DEF Spec

-----------------------------------------------------------------------------
(* Ports that nobody contests *)

\* A process that has chosen its port and is not over.
Using(a) ==
    /\ Running(a)
    /\ a[2] = "command" => proc[a].pc # "choose"

\* Two starts on one port contest it, and so do a stop and another start.
Apart ==
    /\ \A a, b \in Procs :
          a[1] # b[1] /\ Using(a) /\ Using(b) /\ proc[a].port = proc[b].port =>
             proc[a].port \in contested
    /\ \A a \in Procs :
          Using(a) /\ StopBusy(proc[a].port) /\ a[1] # stop.pid[1] =>
             proc[a].port \in contested

\* A start begins to use a port by choosing it.
LEMMA UsersStay ==
    ASSUME TypeOK, Places, Registered, [Next]_vars, NEW b \in Procs, Using(b)'
    PROVE  \/ \E c \in Procs : c[1] = b[1] /\ Using(c) /\ proc[c].port = proc'[b].port
           \/ Chooses(b) /\ proc'[b].pc # "failed"
<1> USE DEF Using, Running, Over
<1>1. CASE proc'[b] = proc[b]
  BY <1>1
<1>2. CASE Goes(b)
  BY <1>2 DEF Goes, Registered, Registrable
<1>3. CASE Chooses(b)
  BY <1>3 DEF Chooses
<1>4. CASE Arrives(b)
  <2>1. b[2] = "server" /\ Command(b[1]) \in Procs /\ Command(b[1])[1] = b[1]
    BY <1>4, Names DEF Arrives
  <2> QED
    BY <1>4, <2>1 DEF Arrives
<1> QED
  BY <1>1, <1>2, <1>3, <1>4, Footprint

\* Whoever comes second contests the port.
LEMMA ApartStep == TypeOK /\ Places /\ Registered /\ Apart /\ [Next]_vars => Apart'
<1> SUFFICES ASSUME TypeOK, Places, Registered, Apart, [Next]_vars PROVE Apart'
  OBVIOUS
<1>1. contested \subseteq contested'
  BY Writers
<1>2. ASSUME NEW a \in Procs, NEW b \in Procs, a[1] # b[1], Using(a)', Using(b)',
             proc'[a].port = proc'[b].port
      PROVE  proc'[a].port \in contested'
  <2>1. CASE /\ \E c \in Procs : c[1] = a[1] /\ Using(c) /\ proc[c].port = proc'[a].port
             /\ \E c \in Procs : c[1] = b[1] /\ Using(c) /\ proc[c].port = proc'[b].port
    BY <1>1, <1>2, <2>1 DEF Apart
  <2>2. ASSUME NEW x \in Procs, NEW y \in Procs, x[1] # y[1], Using(y)',
               proc'[x].port = proc'[y].port, Chooses(x), proc'[x].pc # "failed"
        PROVE  proc'[x].port \in contested'
    <3>1. proc'[y] = proc[y]
      BY <2>2 DEF Chooses
    <3>2. y \in Others(x, proc'[x].port)
      BY <2>2, <3>1 DEF Others, Using, Running
    <3> QED
      BY <2>2, <3>2 DEF Chooses
  <2> QED
    BY <1>2, <2>1, <2>2, UsersStay
<1>3. ASSUME NEW a \in Procs, Using(a)', StopBusy(proc[a].port)', a[1] # stop'.pid[1]
      PROVE  proc'[a].port \in contested'
  <2>1. ASSUME NEW p \in Ports, StopLoads(p) PROVE proc'[a].port \in contested'
    <3>1. proc' = proc /\ stop'.port = p /\ stop'.pid = registry[p] /\ registry[p] \in Procs
      BY <1>3, <2>1 DEF StopLoads, StopBusy, TypeOK
    <3>2. proc[a].port = p /\ Using(a)
      BY <1>3, <3>1 DEF StopBusy, Using, Running
    <3>3. a \in Others(registry[p], p)
      BY <1>3, <3>1, <3>2 DEF Others, Using
    <3> QED
      BY <1>3, <2>1, <3>1, <3>2, <3>3 DEF StopLoads, Contest, StopBusy
  <2>2. CASE ~\E p \in Ports : StopLoads(p)
    <3>1. StopBusy(proc'[a].port) /\ stop.pid = stop'.pid
      BY <1>3, <2>2, Writers DEF Stop, StopKills, StopFindsDead, StopWaits, StopRemoves,
         StopBusy, TypeOK
    <3>2. CASE Chooses(a) /\ proc'[a].pc # "failed"
      BY <3>1, <3>2 DEF Chooses
    <3>3. ASSUME NEW c \in Procs, c[1] = a[1], Using(c), proc[c].port = proc'[a].port
          PROVE  proc'[a].port \in contested'
      BY <1>1, <1>3, <3>1, <3>3 DEF Apart
    <3> QED
      BY <1>3, <3>2, <3>3, UsersStay
  <2> QED
    BY <2>1, <2>2
<1> QED
  BY <1>2, <1>3 DEF Apart

\* Ports that are not contested are one start's at a time.
LEMMA ApartHolds == Spec => []Apart
<1>1. Init => Apart
  BY Names DEF Init, Apart, Using, Running, Over, StopBusy
<1> QED
  BY <1>1, ApartStep, TypeCorrect, PlacesHold, RegisteredHolds, PTL DEF Spec

-----------------------------------------------------------------------------
(* Who answers *)

\* A socket is that of a process that serves its port, or is about to or dies.
Listening ==
    \A p \in Ports : listener[p] \in Procs =>
        /\ proc[listener[p]].port = p /\ proc[listener[p]].foreground
        /\ proc[listener[p]].pc \in {"register", "registering", "serving", "dying"}

\* A socket is closed by the step that ends its process or its serving.
LEMMA ListeningStep == TypeOK /\ Places /\ Registered /\ Listening /\ [Next]_vars => Listening'
<1> SUFFICES ASSUME TypeOK, Places, Registered, Listening, [Next]_vars PROVE Listening'
  OBVIOUS
<1>1. CASE Stop \/ UNCHANGED vars \/ \E p \in Ports : StopLoads(p)
  <2>1. listener' = listener
    BY <1>1 DEF Stop, StopLoads, StopKills, StopFindsDead, StopWaits, StopRemoves, vars
  <2>2. ASSUME NEW a \in Procs
        PROVE  /\ proc'[a].port = proc[a].port /\ proc'[a].foreground = proc[a].foreground
               /\ proc'[a].pc \in {proc[a].pc, "dying"}
    <3>1. CASE StopKills
      BY <3>1 DEF StopKills, Goto, TypeOK
    <3>2. CASE ~StopKills
      BY <1>1, <3>2 DEF Stop, StopLoads, StopFindsDead, StopWaits, StopRemoves, vars
    <3> QED
      BY <3>1, <3>2
  <2> QED
    BY <2>1, <2>2 DEF Listening
<1>2. ASSUME NEW s \in Starts, Begin(s) \/ Background(s) PROVE Listening'
  <2>1. listener' = listener
    BY <1>2 DEF Begin, Background, Spawn, PollHealthy, PollFails
  <2>2. proc[Command(s)].pc \in {"idle", "spawn", "poll"}
    BY <1>2 DEF Begin, Background, Spawn, PollHealthy, PollFails
  <2>3. ASSUME NEW a \in Procs, proc[a].pc \in {"register", "registering", "serving", "dying"}
        PROVE  /\ proc'[a].port = proc[a].port /\ proc'[a].foreground = proc[a].foreground
               /\ proc'[a].pc \in {proc[a].pc, "dying"}
    <3>1. CASE a = Server(s)
      <4>1. ~Begin(s) /\ ~Spawn(s)
        BY <2>3, <3>1 DEF Begin, Spawn, Places, StartOK
      <4> QED
        BY <1>2, <2>3, <3>1, <4>1, Names DEF Background, PollHealthy, PollFails, Goto, TypeOK
    <3>2. CASE a = Command(s)
      BY <2>2, <2>3, <3>2
    <3>3. CASE a # Server(s) /\ a # Command(s)
      <4>1. proc'[a] = proc[a]
        <5> USE <3>3, Names DEF TypeOK
        <5>1. CASE Begin(s)
          BY <5>1 DEF Begin
        <5>2. CASE Spawn(s)
          BY <5>2 DEF Spawn
        <5>3. CASE PollHealthy(s)
          BY <5>3 DEF PollHealthy, Goto
        <5>4. CASE PollFails(s)
          BY <5>4 DEF PollFails
        <5> QED
          BY <1>2, <5>1, <5>2, <5>3, <5>4 DEF Background
      <4> QED
        BY <4>1
    <3> QED
      BY <3>1, <3>2, <3>3
  <2> QED
    BY <2>1, <2>3 DEF Listening
<1>3. ASSUME NEW a \in Procs, Choose(a) PROVE Listening'
  <2>1. listener' = listener /\ proc[a].pc = "choose"
    BY <1>3 DEF Choose
  <2>2. \A b \in Procs : b # a => proc'[b] = proc[b]
    BY <1>3 DEF Choose, Goto, TypeOK
  <2> QED
    BY <2>1, <2>2 DEF Listening
<1>4. ASSUME NEW a \in Procs, Bind(a) PROVE Listening'
  <2>1. proc[a].foreground /\ proc[a].pc = "bind"
    BY <1>4 DEF Bind, Places, PlaceOK
  <2> QED
    BY <1>4, <2>1 DEF Bind, Goto, Listening, TypeOK
<1>5. ASSUME NEW a \in Procs, EmptyRegistry(a) \/ FillRegistry(a) \/ Unregister(a)
      PROVE  Listening'
  BY <1>5 DEF EmptyRegistry, FillRegistry, Unregister, Goto, Listening, TypeOK
<1>6. ASSUME NEW a \in Procs, Die(a) \/ Crash(a) \/ EndServing(a) PROVE Listening'
  <2>1. \A p \in Ports : listener'[p] \in Procs => listener'[p] = listener[p] /\ listener[p] # a
    BY <1>6, Names DEF Die, Crash, EndServing, Closed, Listening, TypeOK
  <2>2. \A b \in Procs : b # a => proc'[b] = proc[b]
    BY <1>6 DEF Die, Crash, EndServing, Goto, TypeOK
  <2> QED
    BY <2>1, <2>2 DEF Listening
<1> QED
  BY <1>1, <1>2, <1>3, <1>4, <1>5, <1>6 DEF Next, Serve

\* Sockets and processes agree at any time.
LEMMA ListeningHolds == Spec => []Listening
<1>1. Init => Listening
  BY Names DEF Init, Listening
<1> QED
  BY <1>1, ListeningStep, TypeCorrect, PlacesHold, RegisteredHolds, PTL DEF Spec

\* A command says that its server works only after an answer.
LEMMA OkIsReached ==
    ASSUME TypeOK, Places, [Next]_vars, NEW s \in Starts, ~PollHealthy(s),
           proc'[Command(s)].pc = "ok"
    PROVE  proc'[Command(s)] = proc[Command(s)]
<1> DEFINE c == Command(s)
<1>1. c \in Procs /\ \A t \in Starts : Server(t) # c /\ (t # s => Command(t) # c)
  BY Names
<1>2. ASSUME NEW t \in Starts, Begin(t) \/ Background(t) PROVE proc'[c] = proc[c]
  <2>1. CASE t = s
    <3> USE DEF TypeOK
    <3>1. CASE Begin(s)
      <4>1. PICK mode \in Modes :
              proc' = [proc EXCEPT ![c] =
                         [@ EXCEPT !.pc = "choose", !.foreground = mode.foreground,
                                   !.auto = mode.auto]]
        BY <3>1 DEF Begin
      <4>2. proc'[c].pc = "choose"
        BY <1>1, <4>1
      <4> QED
        BY <4>2
    <3>2. CASE Spawn(s)
      <4>1. proc'[c].pc = "register"
        BY <1>1, <3>2, Names DEF Spawn
      <4> QED
        BY <4>1
    <3>3. CASE PollFails(s)
      <4>1. proc'[c].pc = "unregister"
        BY <1>1, <3>3, Names DEF PollFails
      <4> QED
        BY <4>1
    <3> QED
      BY <1>2, <2>1, <3>1, <3>2, <3>3 DEF Background
  <2>2. CASE t # s
    BY <1>1, <1>2, <2>2 DEF Begin, Background, Spawn, PollHealthy, PollFails, Goto, TypeOK
  <2> QED
    BY <2>1, <2>2
<1>3. ASSUME NEW a \in Procs, Serve(a) \/ EndServing(a) \/ Crash(a) PROVE proc'[c] = proc[c]
  <2>1. CASE Choose(a)
    BY <1>1, <2>1 DEF Choose, Goto, TypeOK
  <2>2. CASE ~Choose(a)
    BY <1>1, <1>3, <2>2 DEF Serve, Bind, EmptyRegistry, FillRegistry, Unregister, Die,
       EndServing, Crash, Goto, TypeOK
  <2> QED
    BY <2>1, <2>2
<1>4. CASE Stop \/ UNCHANGED vars \/ \E p \in Ports : StopLoads(p)
  BY <1>1, <1>4 DEF Stop, StopLoads, StopKills, StopFindsDead, StopWaits, StopRemoves, vars,
     Goto, TypeOK
<1> QED
  BY <1>2, <1>3, <1>4 DEF Next

\* A command that waits on a port nobody contests is answered by its server.
LEMMA AnsweredStep ==
    TypeOK /\ Places /\ Listening /\ Apart /\ AnsweredByOwn /\ [Next]_vars => AnsweredByOwn'
<1> SUFFICES ASSUME TypeOK, Places, Listening, Apart, AnsweredByOwn, [Next]_vars,
                    NEW s \in Starts, proc'[Command(s)].pc = "ok",
                    proc'[Command(s)].port \notin contested'
             PROVE  answered'[s] = Server(s)
  BY DEF AnsweredByOwn
<1> DEFINE c == Command(s) p == proc[c].port b == listener[p]
<1>1. c \in Procs /\ c[1] = s /\ c[2] = "command"
  BY Names
<1>2. CASE PollHealthy(s)
  <2>1. /\ b \in Procs /\ answered'[s] = b /\ contested' = contested
        /\ proc[c].pc = "poll" /\ proc'[c].port = p /\ p \in Ports
    BY <1>1, <1>2 DEF PollHealthy, Goto, TypeOK
  <2>2. proc[b].port = p /\ proc[b].foreground /\ Using(b) /\ Using(c)
    BY <1>1, <2>1 DEF Listening, Using, Running, Over
  <2>3. b[1] = s
    BY <1>1, <2>1, <2>2 DEF Apart
  <2>4. ~proc[c].foreground
    BY <1>1, <2>1 DEF Places, PlaceOK
  <2>5. b = Server(s)
    BY <2>1, <2>2, <2>3, <2>4, Names
  <2> QED
    BY <2>1, <2>5
<1>3. CASE ~PollHealthy(s)
  <2>1. proc[c] = proc'[c]
    BY <1>1, <1>3, OkIsReached
  <2>2. answered'[s] = answered[s] /\ p \notin contested
    BY <1>3, <2>1, Writers DEF PollHealthy, TypeOK
  <2> QED
    BY <2>1, <2>2 DEF AnsweredByOwn
<1> QED
  BY <1>2, <1>3

\* The server that answered the health probe of a start is its own unless the port was
\* contested, for any number of starts and ports (_spawn_background_artifact_server).
THEOREM OwnServersAnswer == Spec => []AnsweredByOwn
<1>1. Init => AnsweredByOwn
  BY Names DEF Init, AnsweredByOwn
<1> QED
  BY <1>1, AnsweredStep, TypeCorrect, PlacesHold, ListeningHolds, ApartHolds, PTL DEF Spec

-----------------------------------------------------------------------------
(* Who can be found in the registry *)

\* A process serves, or waits for its server, once it has written the registry.
LEMMA ServingIsReached ==
    ASSUME TypeOK, Places, [Next]_vars, NEW b \in Procs
    PROVE  /\ proc'[b].pc = "serving" =>
                 \/ proc'[b] = proc[b]
                 \/ FillRegistry(b) /\ proc[b].foreground
           /\ proc'[b].pc \in {"poll", "ok"} =>
                 \/ proc[b].pc \in {"poll", "ok"}
                 \/ FillRegistry(b) /\ ~proc[b].foreground
<1> DEFINE Old == /\ proc'[b].pc = "serving" => proc'[b] = proc[b]
                  /\ proc'[b].pc \in {"poll", "ok"} => proc[b].pc \in {"poll", "ok"}
<1> SUFFICES Old \/ FillRegistry(b)
  BY DEF FillRegistry, Goto, TypeOK
<1>1. CASE proc'[b] = proc[b]
  BY <1>1
<1>2. ASSUME NEW a \in Procs, OneGoes(a), ~FillRegistry(a) PROVE Old
  <2>1. PICK pc \in ProcPcs \ {"serving", "poll"} :
          /\ proc' = [proc EXCEPT ![a].pc = pc]
          /\ pc = "ok" => proc[a].pc = "poll"
    BY <1>2 DEF OneGoes, Bind, EmptyRegistry, Unregister, Die, EndServing, Crash, StopKills,
       PollHealthy, Goto, ProcPcs, Over
  <2>2. CASE a = b
    <3>1. proc'[b].pc = pc
      BY <2>1, <2>2 DEF TypeOK
    <3> QED
      BY <2>1, <2>2, <3>1
  <2>3. CASE a # b
    <3>1. proc'[b] = proc[b]
      BY <2>1, <2>3 DEF TypeOK
    <3> QED
      BY <1>1, <3>1
  <2> QED
    BY <2>2, <2>3
<1>3. ASSUME NEW a \in Procs, FillRegistry(a) PROVE Old \/ FillRegistry(b)
  <2>1. CASE a = b
    BY <1>3, <2>1
  <2>2. CASE a # b
    <3>1. proc'[b] = proc[b]
      BY <1>3, <2>2 DEF FillRegistry, Goto, TypeOK
    <3> QED
      BY <1>1, <3>1
  <2> QED
    BY <2>1, <2>2
<1>4. ASSUME NEW a \in Procs, Choose(a) PROVE Old
  BY <1>4 DEF Choose, Goto, TypeOK
<1>5. ASSUME NEW s \in Starts, Begin(s) \/ Spawn(s) \/ PollFails(s) PROVE Old
  <2> DEFINE c == Command(s) d == Server(s)
  <2>1. c \in Procs /\ d \in Procs /\ c # d
    BY Names
  <2>2. CASE b # c /\ b # d
    <3>1. proc'[b] = proc[b]
      BY <1>5, <2>2 DEF Begin, Spawn, PollFails, TypeOK
    <3> QED
      BY <1>1, <3>1
  <2>3. CASE Begin(s)
    <3>1. PICK mode \in Modes :
            proc' = [proc EXCEPT ![c] =
                       [@ EXCEPT !.pc = "choose", !.foreground = mode.foreground,
                                 !.auto = mode.auto]]
      BY <2>3 DEF Begin
    <3>2. proc'[c].pc = "choose" /\ proc'[d] = proc[d]
      BY <2>1, <3>1 DEF TypeOK
    <3> QED
      BY <1>1, <2>2, <3>2
  <2>4. CASE Spawn(s)
    <3>1. proc'[c].pc = "register" /\ proc'[d].pc = "choose"
      BY <2>1, <2>4 DEF Spawn, TypeOK
    <3> QED
      BY <2>2, <3>1
  <2>5. CASE PollFails(s)
    <3>1. proc'[c].pc = "unregister"
      BY <2>1, <2>5 DEF PollFails, TypeOK
    <3>2. CASE Running(d)
      <4>1. proc'[d].pc = "dying"
        BY <2>1, <2>5, <3>2 DEF PollFails, TypeOK
      <4> QED
        BY <2>2, <3>1, <4>1
    <3>3. CASE ~Running(d)
      <4>1. proc'[d] = proc[d]
        BY <2>1, <2>5, <3>3 DEF PollFails, TypeOK
      <4> QED
        BY <1>1, <2>2, <3>1, <4>1
    <3> QED
      BY <3>2, <3>3
  <2> QED
    BY <1>5, <2>3, <2>4, <2>5
<1>6. CASE UNCHANGED proc
  BY <1>1, <1>6
<1>7. CASE UNCHANGED vars \/ StopFindsDead \/ StopWaits \/ StopRemoves
           \/ \E p \in Ports : StopLoads(p)
  BY <1>6, <1>7 DEF vars, StopFindsDead, StopWaits, StopRemoves, StopLoads
<1>8. CASE StopKills
  <2>1. stop.pid \in Procs /\ OneGoes(stop.pid) /\ ~FillRegistry(stop.pid)
    BY <1>8 DEF StopKills, FillRegistry, OneGoes, TypeOK
  <2> QED
    BY <1>2, <2>1
<1>9. ASSUME NEW s \in Starts, PollHealthy(s) PROVE Old
  <2>1. OneGoes(Command(s)) /\ Command(s) \in Procs /\ ~FillRegistry(Command(s))
    BY <1>9, Names DEF OneGoes, PollHealthy, FillRegistry
  <2> QED
    BY <1>2, <2>1
<1>10. ASSUME NEW a \in Procs,
              \/ Bind(a) \/ EmptyRegistry(a) \/ FillRegistry(a) \/ Unregister(a) \/ Die(a)
              \/ EndServing(a) \/ Crash(a)
       PROVE  Old \/ FillRegistry(b)
  <2>1. OneGoes(a)
    BY <1>10 DEF OneGoes
  <2> HIDE DEF Old
  <2> QED
    BY <1>2, <1>3, <2>1
<1> HIDE DEF Old
<1> QED
  BY <1>4, <1>5, <1>7, <1>8, <1>9, <1>10 DEF Next, Serve, Background, Stop

\* A stop that removes the entry of a port has ended the server there.
LEMMA RemovedIsOver ==
    ASSUME TypeOK, Places, Registered, Apart, NEW a \in Procs, proc[a].pc = "serving",
           proc[a].port \notin contested, stop.pc = "remove"
    PROVE  stop.port # proc[a].port
<1> SUFFICES ASSUME stop.port = proc[a].port PROVE FALSE
  OBVIOUS
<1>1. stop.pid \in Procs /\ Registrable(stop.pid)
  BY DEF TypeOK, Registered
<1>2. Using(a) /\ proc[a].foreground
  BY DEF Using, Running, Over, Places, PlaceOK
<1>3. stop.pid[1] = a[1]
  BY <1>2 DEF StopBusy, Apart
<1>4. stop.pid # a
  BY <1>2 DEF Registered, Using
<1>5. a[1] \in Starts /\ StartOK(a[1])
  BY Names DEF Places
<1>6. CASE a = Command(a[1])
  <2>1. stop.pid = Server(a[1])
    BY <1>1, <1>3, <1>4, <1>6, Names
  <2> QED
    BY <1>1, <1>2, <1>5, <1>6, <2>1 DEF StartOK, Registrable
<1>7. CASE a = Server(a[1])
  <2>1. stop.pid = Command(a[1]) /\ stop.pid[2] = "command"
    BY <1>1, <1>3, <1>4, <1>5, <1>7, Names
  <2> QED
    BY <1>1, <1>5, <1>7, <2>1 DEF StartOK, Registrable
<1> QED
  BY <1>6, <1>7, Names

\* The entry of a server is written only by its command and itself, and both name it.
LEMMA EntryKept ==
    ASSUME TypeOK, Places, Registered, Apart, [Next]_vars,
           NEW a \in Procs, proc[a].pc = "serving", proc[a].port \notin contested,
           a[2] = "server" =>
              /\ proc'[Command(a[1])].pc \in {"poll", "ok"}
              /\ ~(FillRegistry(Command(a[1])) /\ ~proc[Command(a[1])].foreground)
    PROVE  registry'[proc[a].port] = registry[proc[a].port]
<1> DEFINE p == proc[a].port s == a[1] c == Command(s) d == Server(s)
<1>1. /\ s \in Starts /\ StartOK(s) /\ c \in Procs /\ d \in Procs /\ p \in Ports
      /\ (a = c /\ a[2] = "command") \/ (a = d /\ a[2] = "server")
  BY Names DEF Places, TypeOK
<1>2. Using(a) /\ proc[a].foreground
  BY DEF Using, Running, Over, Places, PlaceOK
<1>3. CASE StopRemoves
  BY <1>1, <1>3, RemovedIsOver DEF StopRemoves, TypeOK
<1>4. ASSUME NEW b \in Procs, EmptyRegistry(b) \/ FillRegistry(b) \/ Unregister(b)
      PROVE  registry'[p] = registry[p]
  <2>1. proc[b].pc \in {"register", "registering", "unregister"} /\ b # a
    BY <1>4 DEF EmptyRegistry, FillRegistry, Unregister
  <2>2. Using(b)
    BY <2>1 DEF Using, Running, Over
  <2>3. CASE proc[b].port = p
    <3>1. b[1] = s
      BY <1>2, <2>2, <2>3 DEF Apart
    <3>2. CASE a = c
      <4>1. b = d
        BY <2>1, <3>1, <3>2, Names
      <4> QED
        BY <1>1, <1>2, <2>1, <3>2, <4>1 DEF StartOK
    <3>3. CASE a = d /\ a[2] = "server"
      <4>1. b = c
        BY <2>1, <3>1, <3>3, Names
      <4>2. ~proc[c].foreground
        BY <1>1, <3>3 DEF StartOK
      <4>3. proc'[c].pc \in {"poll", "ok"} /\ ~FillRegistry(c)
        BY <3>3, <4>2
      <4>4. proc'[c].pc \in {"registering", "ended", "failed"}
        BY <1>1, <1>4, <4>1, <4>3 DEF EmptyRegistry, Unregister, Goto, TypeOK
      <4> QED
        BY <4>3, <4>4
    <3> QED
      BY <1>1, <3>2, <3>3
  <2>4. CASE proc[b].port # p
    BY <1>1, <1>4, <2>4 DEF EmptyRegistry, FillRegistry, Unregister, TypeOK
  <2> QED
    BY <2>3, <2>4
<1> QED
  BY <1>3, <1>4, Writers

\* Each step keeps the entries of the servers that serve.
LEMMA EntryStep ==
    TypeOK /\ Places /\ Registered /\ Apart /\ ServerIsRegistered /\ [Next]_vars
      => ServerIsRegistered'
<1> SUFFICES ASSUME TypeOK, Places, Registered, Apart, ServerIsRegistered, [Next]_vars,
                    NEW a \in Procs, proc'[a].pc = "serving",
                    proc'[a].port \notin contested',
                    a[2] = "server" => proc'[Command(a[1])].pc \in {"poll", "ok"}
             PROVE  registry'[proc'[a].port] = a
  BY DEF ServerIsRegistered
<1> DEFINE p == proc[a].port c == Command(a[1])
<1>1. p \in Ports /\ c \in Procs /\ a[1] \in Starts /\ StartOK(a[1])
  BY Names DEF TypeOK, Places
<1>2. CASE FillRegistry(a) /\ proc[a].foreground
  BY <1>1, <1>2 DEF FillRegistry, Goto, TypeOK
<1>3. CASE proc'[a] = proc[a]
  <2>1. proc[a].pc = "serving" /\ p \notin contested
    BY <1>3, Writers
  <2>2. CASE a[2] = "server" /\ FillRegistry(c) /\ ~proc[c].foreground
    <3>1. a = Server(a[1]) /\ c[1] = a[1]
      BY <1>1, <2>2, Names
    <3>2. proc[c].port = p
      BY <1>1, <2>1, <3>1 DEF StartOK
    <3> QED
      BY <1>1, <1>3, <2>2, <3>1, <3>2 DEF FillRegistry, TypeOK
  <2>3. CASE ~(a[2] = "server" /\ FillRegistry(c) /\ ~proc[c].foreground)
    <3>1. a[2] = "server" => proc[c].pc \in {"poll", "ok"}
      BY <1>1, <2>3, ServingIsReached
    <3>2. registry[p] = a
      BY <2>1, <3>1 DEF ServerIsRegistered
    <3>3. registry'[p] = registry[p]
      BY <2>1, <2>3, EntryKept
    <3> QED
      BY <1>3, <3>2, <3>3
  <2> QED
    BY <2>2, <2>3
<1> QED
  BY <1>2, <1>3, ServingIsReached

\* A server that serves on a port nobody contested can be found in the registry and
\* stopped, for any number of starts and ports (write_artifact_server_registry,
\* stop_artifact_server).
THEOREM ServersAreRegistered == Spec => []ServerIsRegistered
<1>1. Init => ServerIsRegistered
  BY Names DEF Init, ServerIsRegistered
<1> QED
  BY <1>1, EntryStep, TypeCorrect, PlacesHold, RegisteredHolds, ApartHolds, PTL DEF Spec
=============================================================================
