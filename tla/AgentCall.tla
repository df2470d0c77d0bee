----------------------------- MODULE AgentCall -----------------------------
(***************************************************************************)
(* The MCP server of auto-debug: one process that reads JSON-RPC messages  *)
(* from its standard input and answers them one after the other; a         *)
(* tools/call of autodbg_action runs a command inside the process, under   *)
(* the request's environment, and is answered with the session directory   *)
(* the command made. Other terminals make sessions in the same directory.  *)
(*                                                                         *)
(* Source: mcp/server.py, agent/contract.py (execute_agent_request and     *)
(* what it calls), session/manager.py, session/contract.py and             *)
(* _create_session_with_loop of cli/main.py.                               *)
(*                                                                         *)
(* A message is one line; the header framing of older clients differs only *)
(* in how the line is found. What a command does with its session is the   *)
(* module SessionCommand. Sessions are numbered in the order of their      *)
(* names, which begin with the time and end in a random suffix.            *)
(***************************************************************************)
EXTENDS Naturals, Sequences, FiniteSets

CONSTANTS
    Vars,           \* names of environment variables a request can set
    Values,         \* their values
    Unset,          \* stands for a variable that is not set
    Unsettable,     \* for a value os.environ refuses, as one with a null character
    Order,          \* the places of the variables in _CONNECTION_ENV_MAP
    StartEnv,       \* the environment the server is started with
    Required,       \* those without which a command cannot do its work
    Messages,       \* what the client may send
    Requests,       \* messages per connection
    Rivals,         \* sessions that other terminals make
    Kills,          \* times the server goes down and is started again
    NestedRetrieved \* retrieved_root lies in artifacts_root

Environments == [Vars -> Values \cup {Unset}]
Overrides    == [Vars -> Values \cup {Unset, Unsettable}]   \* Unset: not named by the request

\* A line: "prepare" asks whether a call has what it needs, "call" runs a command
\* that may make a session, "latest" is the report of the latest session, "refused"
\* a request build_agent_invocation turns down, "nameless" a tools/call without a
\* name, "initialize" the first request, "plain" ping, tools/list and the like, "note"
\* one of the four methods that are never answered, "unknown" a method the server does
\* not have or no method, "garbage" no JSON, "array" JSON that is no object, or whose
\* params are none.
Lines == {"prepare", "call", "latest", "refused", "nameless", "initialize", "plain",
          "note", "unknown", "garbage", "array"}

\* How a call refers to an earlier session: not, by the carry_forward_request of
\* the last response, by its session only, or by a directory without a summary.
Links == {"none", "follow", "bare", "lost"}

ASSUME ConstantsAssumption ==
    /\ Unset \notin Values /\ Unsettable \notin Values \cup {Unset}
    /\ Order \in [Vars -> Nat] /\ \A v, w \in Vars : Order[v] = Order[w] => v = w
    /\ StartEnv \in Environments /\ Required \subseteq Vars
    /\ Messages \subseteq [line : Lines, env : Overrides, link : Links, named : BOOLEAN]
    /\ Requests \in Nat /\ Rivals \in Nat /\ Kills \in Nat
    /\ NestedRetrieved \in BOOLEAN

VARIABLES
    inbox,     \* lines written and not read yet
    sent,      \* number of messages of this connection
    server,    \* the process
    env,       \* its os.environ
    outbox,    \* responses of this connection, oldest first
    done,      \* messages dealt with on this connection, oldest first
    dirs,      \* the directories two levels below artifacts_root
    loops,     \* session -> the loop block of its summary
    rivals, restarts

vars == <<inbox, sent, server, env, outbox, done, dirs, loops, rivals, restarts>>

NoSession == 0
Numbers   == Nat \ {0}
Sessions  == Numbers \cup {NoSession}

\* A day of the retrieved files, if retrieved_root lies in artifacts_root; its
\* path "retrieved/<day>" sorts after that of every session, "<day>/<time>": no
\* message, and nothing that another terminal does, makes more than one session.
Retrieved == (Kills + 1) * Requests + Rivals + 1

Loops == [iteration : Nat \ {0}, root : Numbers, parent : Sessions, rival : BOOLEAN]
\* The id 0 is null: none was given, or none could be read.
Inputs == [line : Lines, env : Overrides, id : 0..Requests, prev : Sessions,
           iteration : Nat]
Responses == [id : 0..Requests, line : Lines, session : Sessions,
              failed : BOOLEAN, env : Overrides, ready : BOOLEAN, own : Sessions,
              before : SUBSET Numbers, newest : Sessions]
Pcs == {"read", "begin", "command", "working", "restore", "after", "down", "ended"}

-----------------------------------------------------------------------------
(* Sessions and their loop blocks *)

Newest(S) == CHOOSE x \in S \cup {NoSession} : \A y \in S : y <= x

\* max by the path relative to artifacts_root, of latest_session_dir and of the agent.
Latest(S) == Newest(S)

NextNumber == Cardinality(dirs \ {Retrieved}) + 1

\* SessionManager.create makes the session and its directory for retrieved files.
Created(n) == dirs \cup {n} \cup (IF NestedRetrieved THEN {Retrieved} ELSE {})

\* build_next_iteration_request of a session's summary.
NextIteration(s) == loops[s].iteration + 1

\* Mutant of LoopOf.
LoopWithoutIncrement(n, parent, iteration) ==
    [iteration |-> IF iteration # 0 THEN iteration
                   ELSE IF parent = NoSession THEN 1 ELSE loops[parent].iteration,
     root      |-> IF parent = NoSession THEN n ELSE loops[parent].root,
     parent    |-> parent,
     rival     |-> FALSE]

\* _resolve_loop_context: an iteration that is given wins.
LoopOf(n, parent, iteration) ==
    [iteration |-> IF iteration # 0 THEN iteration
                   ELSE IF parent = NoSession THEN 1 ELSE loops[parent].iteration + 1,
     root      |-> IF parent = NoSession THEN n ELSE loops[parent].root,
     parent    |-> parent,
     rival     |-> FALSE]

WithLoop(n, loop) == [s \in DOMAIN loops \cup {n} |-> IF s = n THEN loop ELSE loops[s]]

-----------------------------------------------------------------------------
(* The client *)

\* The session of the last response that has one with a summary.
LastTold ==
    Newest({s \in DOMAIN loops : \E i \in DOMAIN outbox : outbox[i].session = s})

Send(m) ==
    /\ sent < Requests
    /\ server.pc \notin {"down", "ended"}
    /\ m.link \in {"follow", "bare"} => LastTold # NoSession
    /\ sent' = sent + 1
    /\ inbox' = Append(inbox,
          [line      |-> m.line,
           env       |-> m.env,
           id        |-> IF m.named /\ m.line # "garbage" THEN sent + 1 ELSE 0,
           prev      |-> CASE m.link = "none" -> NoSession
                           [] m.link = "lost" -> Retrieved
                           [] OTHER           -> LastTold,
           iteration |-> IF m.link = "follow" THEN NextIteration(LastTold) ELSE 0])
    /\ UNCHANGED <<server, env, outbox, done, dirs, loops, rivals, restarts>>

-----------------------------------------------------------------------------
(* The server loop *)

\* build_agent_intake_plan: what the request does not name is taken from os.environ.
Ready(m) ==
    m.line = "prepare" /\ \A v \in Required : m.env[v] # Unset \/ env[v] # Unset

Answer(m, session) ==
    [id |-> m.id, line |-> m.line, session |-> session, failed |-> FALSE,
     env |-> m.env, ready |-> Ready(m),
     own |-> server.own, before |-> server.before, newest |-> Newest(dirs \ {Retrieved})]

Respond(answer) == outbox' = Append(outbox, answer)

\* What dispatch_mcp_request returns nothing for: the four methods, with an id or without,
\* and an initialize without one. Whatever else has no id is answered with a null id.
Ignored(m) == m.line = "note" \/ (m.line = "initialize" /\ m.id = 0)

\* _read_mcp_message and the branches of dispatch_mcp_request that need no tool,
\* or a tools/call that is turned down.
AnswerAtOnce ==
    /\ server.pc = "read" /\ inbox # <<>>
    /\ Head(inbox).line \in {"prepare", "initialize", "plain", "unknown", "nameless",
                             "refused", "garbage"}
    /\ ~Ignored(Head(inbox))
    /\ Respond(Answer(Head(inbox), NoSession))
    /\ inbox' = Tail(inbox)
    /\ done' = Append(done, Head(inbox))
    /\ UNCHANGED <<sent, server, env, dirs, loops, rivals, restarts>>

\* Mutant of Ignore.
AnswerIgnored ==
    /\ server.pc = "read" /\ inbox # <<>>
    /\ Ignored(Head(inbox))
    /\ Respond(Answer(Head(inbox), NoSession))
    /\ inbox' = Tail(inbox)
    /\ done' = Append(done, Head(inbox))
    /\ UNCHANGED <<sent, server, env, dirs, loops, rivals, restarts>>

\* Mutant of Ignore.
KeepIgnored ==
    /\ server.pc = "read" /\ inbox # <<>>
    /\ Ignored(Head(inbox))
    /\ UNCHANGED vars

Ignore ==
    /\ server.pc = "read" /\ inbox # <<>>
    /\ Ignored(Head(inbox))
    /\ inbox' = Tail(inbox)
    /\ done' = Append(done, Head(inbox))
    /\ UNCHANGED <<sent, server, env, outbox, dirs, loops, rivals, restarts>>

\* message.get of something that is no object: nobody catches the AttributeError.
DieOfArray ==
    /\ server.pc = "read" /\ inbox # <<>>
    /\ Head(inbox).line = "array"
    /\ server' = [server EXCEPT !.pc = "down"]
    /\ UNCHANGED <<inbox, sent, env, outbox, done, dirs, loops, rivals, restarts>>

\* A call that was understood: list_session_dirs for the first time.
BeginCall ==
    /\ server.pc = "read" /\ inbox # <<>>
    /\ Head(inbox).line \in {"call", "latest"}
    /\ server' = [server EXCEPT !.pc = "begin", !.msg = Head(inbox), !.before = dirs,
                                !.own = NoSession]
    /\ inbox' = Tail(inbox)
    /\ UNCHANGED <<sent, env, outbox, done, dirs, loops, rivals, restarts>>

Overridden(e, o) == [v \in Vars |-> IF o[v] = Unset THEN e[v] ELSE o[v]]

Settable(o) == \A v \in Vars : o[v] # Unsettable

\* The variables that are set before one that cannot be.
Reached(o, v) ==
    /\ o[v] \notin {Unset, Unsettable}
    /\ \A w \in Vars : o[w] = Unsettable => Order[v] < Order[w]

\* temporary_agent_environment keeps what it overrides ...
SetEnvironment ==
    /\ server.pc = "begin"
    /\ Settable(server.msg.env)
    /\ server' = [server EXCEPT !.pc = "command", !.saved = env]
    /\ env' = Overridden(env, server.msg.env)
    /\ UNCHANGED <<inbox, sent, outbox, done, dirs, loops, rivals, restarts>>

\* The variables are set one by one before the try: a ValueError leaves those before it
\* as they are, and call_mcp_tool answers with an error.
SetEnvironmentFails ==
    /\ server.pc = "begin"
    /\ ~Settable(server.msg.env)
    /\ env' = [v \in Vars |-> IF Reached(server.msg.env, v) THEN server.msg.env[v] ELSE env[v]]
    /\ Respond([Answer(server.msg, NoSession) EXCEPT !.failed = TRUE])
    /\ done' = Append(done, server.msg)
    /\ server' = [server EXCEPT !.pc = "read"]
    /\ UNCHANGED <<inbox, sent, dirs, loops, rivals, restarts>>

\* Mutant of RestoreEnvironment.
RestoreByUnsetting ==
    /\ server.pc = "restore"
    /\ env' = [v \in Vars |-> IF server.msg.env[v] = Unset THEN env[v] ELSE Unset]
    /\ server' = [server EXCEPT !.pc = "after"]
    /\ UNCHANGED <<inbox, sent, outbox, done, dirs, loops, rivals, restarts>>

\* ... and puts it back, whichever way the command ended.
RestoreEnvironment ==
    /\ server.pc = "restore"
    /\ env' = [v \in Vars |-> IF server.msg.env[v] = Unset THEN env[v] ELSE server.saved[v]]
    /\ server' = [server EXCEPT !.pc = "after"]
    /\ UNCHANGED <<inbox, sent, outbox, done, dirs, loops, rivals, restarts>>

\* The command makes its session; with a prev_session that cannot be read it ends
\* here, with a directory and no summary.
CreateSession ==
    /\ server.pc = "command" /\ server.msg.line = "call"
    /\ LET n == NextNumber IN
          /\ dirs' = Created(n)
          /\ IF server.msg.prev = Retrieved
                THEN /\ server' = [server EXCEPT !.pc = "restore", !.own = n]
                     /\ loops' = loops
                ELSE /\ server' = [server EXCEPT !.pc = "working", !.own = n]
                     /\ loops' = WithLoop(n, LoopOf(n, server.msg.prev, server.msg.iteration))
    /\ UNCHANGED <<inbox, sent, env, outbox, done, rivals, restarts>>

\* The command ends with its session, or without one: the parser, a profile or
\* the action itself, and every way to read the latest report.
EndCommand ==
    /\ server.pc \in {"command", "working"}
    /\ server' = [server EXCEPT !.pc = "restore"]
    /\ UNCHANGED <<inbox, sent, env, outbox, done, dirs, loops, rivals, restarts>>

\* Mutant of Detected.
NewestOfAll(line) == Latest(dirs)

\* list_session_dirs for the second time: the newest directory that was not there;
\* a report of the latest session without one names the newest there is.
Detected(line) ==
    LET new == dirs \ server.before IN
    IF line = "latest" /\ new = {} THEN Latest(dirs) ELSE Latest(new)

AnswerCall ==
    /\ server.pc = "after"
    /\ Respond(Answer(server.msg, Detected(server.msg.line)))
    /\ done' = Append(done, server.msg)
    /\ server' = [server EXCEPT !.pc = "read"]
    /\ UNCHANGED <<inbox, sent, env, dirs, loops, rivals, restarts>>

\* The summary is being written by another terminal, its own or a record of an
\* intervention: json.loads raises, and the answer is an error without a session.
AnswerTorn ==
    /\ server.pc = "after"
    /\ Detected(server.msg.line) \in DOMAIN loops
    /\ Respond([Answer(server.msg, NoSession) EXCEPT !.failed = TRUE])
    /\ done' = Append(done, server.msg)
    /\ server' = [server EXCEPT !.pc = "read"]
    /\ UNCHANGED <<inbox, sent, env, dirs, loops, rivals, restarts>>

\* The end of the input.
EndInput ==
    /\ server.pc = "read" /\ inbox = <<>> /\ sent = Requests
    /\ server' = [server EXCEPT !.pc = "ended"]
    /\ UNCHANGED <<inbox, sent, env, outbox, done, dirs, loops, rivals, restarts>>

-----------------------------------------------------------------------------
(* Other terminals, and the death of the server *)

OtherTerminal ==
    /\ rivals < Rivals
    /\ LET n == NextNumber IN
          /\ dirs' = Created(n)
          /\ loops' = WithLoop(n, [LoopOf(n, NoSession, 0) EXCEPT !.rival = TRUE])
    /\ rivals' = rivals + 1
    /\ UNCHANGED <<inbox, sent, server, env, outbox, done, restarts>>

Kill ==
    /\ server.pc \notin {"down", "ended"}
    /\ restarts < Kills
    /\ server' = [server EXCEPT !.pc = "down"]
    /\ UNCHANGED <<inbox, sent, env, outbox, done, dirs, loops, rivals, restarts>>

Idle == [line |-> "plain", env |-> [v \in Vars |-> Unset], id |-> 0, prev |-> NoSession,
         iteration |-> 0]
Started == [pc |-> "read", msg |-> Idle, before |-> {}, own |-> NoSession,
            saved |-> StartEnv]

\* The client starts a new server; what it had sent is lost.
Restart ==
    /\ server.pc = "down"
    /\ restarts < Kills
    /\ server' = Started
    /\ env' = StartEnv
    /\ inbox' = <<>> /\ outbox' = <<>> /\ done' = <<>>
    /\ sent' = 0
    /\ restarts' = restarts + 1
    /\ UNCHANGED <<dirs, loops, rivals>>

-----------------------------------------------------------------------------
(* The specification *)

Init ==
    /\ inbox = <<>> /\ outbox = <<>> /\ done = <<>>
    /\ sent = 0
    /\ server = Started
    /\ env = StartEnv
    /\ dirs = {}
    /\ loops = [s \in {} |-> Idle]
    /\ rivals = 0
    /\ restarts = 0

Serve ==
    \/ AnswerAtOnce \/ Ignore \/ DieOfArray \/ BeginCall
    \/ SetEnvironment \/ SetEnvironmentFails \/ CreateSession \/ EndCommand \/ RestoreEnvironment
    \/ AnswerCall \/ AnswerTorn

Next ==
    \/ \E m \in Messages : Send(m)
    \/ Serve \/ EndInput
    \/ OtherTerminal \/ Kill \/ Restart

\* A server that has something to do does it; nobody has to send or to restart.
Fairness == WF_vars(Serve)

Spec == Init /\ [][Next]_vars /\ Fairness

-----------------------------------------------------------------------------
(* Properties *)

\* Type invariant.
TypeOK ==
    /\ inbox \in Seq(Inputs) /\ done \in Seq(Inputs)
    /\ sent \in 0..Requests
    /\ server \in [pc : Pcs, msg : Inputs, before : SUBSET Numbers,
                   own : Sessions, saved : Environments]
    /\ env \in Environments
    /\ outbox \in Seq(Responses)
    /\ dirs \subseteq Numbers
    /\ DOMAIN loops \subseteq Numbers /\ \A s \in DOMAIN loops : loops[s] \in Loops
    /\ rivals \in 0..Rivals /\ restarts \in 0..Kills

\* A call that failed because of a variable that cannot be set has left the variable v.
Leaves(m, v) ==
    m.line \in {"call", "latest"} /\ ~Settable(m.env) /\ Reached(m.env, v)

LeftBy(v) == {i \in DOMAIN done : Leaves(done[i], v)}

\* What a call finds: the environment the server was started with, and of each variable
\* that failed calls have left the last one.
Found ==
    [v \in Vars |->
        IF LeftBy(v) = {}
           THEN StartEnv[v]
           ELSE done[CHOOSE i \in LeftBy(v) : \A j \in LeftBy(v) : j <= i].env[v]]

\* Nothing an earlier call has set counts for what is prepared, unless that call failed.
ReadyIsOwn(r) ==
    r.ready => \A v \in Required :
                  r.env[v] # Unset \/ StartEnv[v] # Unset \/ LeftBy(v) # {}

\* A command runs under the environment that the calls find and the overrides of its
\* own request, between two calls nothing is left of them, and what autodbg_prepare
\* calls ready is so by its own request: no call sees the password or the port of the one
\* before, except those that a call has set before a variable that cannot be set.
EnvironmentIsOwn ==
    /\ server.pc \in {"read", "begin", "after", "ended"} => env = Found
    /\ server.pc \in {"command", "working", "restore"} =>
          env = Overridden(Found, server.msg.env)
    /\ \A i \in DOMAIN outbox : ReadyIsOwn(outbox[i])

\* The messages dealt with that are due an answer.
Due == {i \in DOMAIN done : ~Ignored(done[i])}

Ids(q, I) == {q[i].id : i \in I} \ {0}

\* Every message with an id that the server is through with, and does not ignore, has been
\* answered once, in the order they came, and every other one with a null id: what a
\* message without an id, a refusal, a broken line or one that is ignored does, it does
\* not shift an answer to another request.
AnsweredInOrder ==
    /\ Ids(outbox, DOMAIN outbox) = Ids(done, Due)
    /\ \A i, j \in DOMAIN outbox :
          i < j /\ outbox[j].id # 0 => outbox[i].id < outbox[j].id
    /\ Cardinality({i \in DOMAIN outbox : outbox[i].id = 0})
         = Cardinality({i \in Due : done[i].id = 0})

\* A call is answered with its own session unless another terminal made one while
\* it ran, and with none that was there before; if it made a session, the one it
\* names is not older.
NamesOwnSession ==
    \A i \in DOMAIN outbox :
        LET r == outbox[i] IN
        (r.line = "call" /\ ~r.failed) =>
            /\ r.session = r.own
               \/ \E s \in DOMAIN loops \ r.before : loops[s].rival
            /\ r.session \notin r.before
            /\ r.session # NoSession => r.session >= r.own

\* A session that goes on from another has its root and the number after it, also
\* when requests are sent before the answers to earlier ones are in, and when a
\* call is repeated after a restart; without one it starts a chain.
ChainsCount ==
    \A s \in DOMAIN loops :
        LET loop == loops[s] IN
        IF loop.parent = NoSession
           THEN loop.root = s /\ loop.iteration = 1
           ELSE /\ loop.parent < s
                /\ loop.root = loops[loop.parent].root
                /\ loop.iteration = loops[loop.parent].iteration + 1

Answered(id) == \E i \in DOMAIN outbox : outbox[i].id = id

\* A request is answered as long as the server lives, unless it is of the four methods
\* that are ignored with an id as well.
EveryRequestAnswered ==
    \A id \in 1..Requests :
        (\E i \in DOMAIN inbox : inbox[i].id = id /\ inbox[i].line # "note")
            ~> (Answered(id) \/ server.pc = "down")

\* What the help of --latest says (cli/main.py:787, "Use the latest session under
\* artifacts root"). The code takes the greatest path two levels below it, which
\* is a day of the retrieved files when these are kept there.
LatestIsSession ==
    \A i \in DOMAIN outbox :
        (outbox[i].line = "latest" /\ ~outbox[i].failed) =>
            outbox[i].session = outbox[i].newest
=============================================================================
