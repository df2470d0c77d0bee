--------------------------- MODULE AgentCallProof ---------------------------
(***************************************************************************)
(* What AgentCall promises of types, of the environment of a call, of the  *)
(* order of the answers, of the session each names and of the chains of    *)
(* sessions, for any number of messages, variables, rivals and restarts. A *)
(* message can only go on from a session that has a summary, what a call   *)
(* saved before it overrode the environment is what it has found, sessions *)
(* are numbered without a gap, and the lines that wait have greater        *)
(* numbers than those that were answered.                                  *)
(***************************************************************************)
EXTENDS AgentCall, FiniteSetTheorems, WellFoundedInduction, TLAPS

\* The session a message goes on from has a summary, or is none at all.
Refers(m) == m.prev \in DOMAIN loops \cup {NoSession, Retrieved}

\* There are finitely many directories, those with a summary among them.
Known ==
    /\ IsFiniteSet(dirs) /\ DOMAIN loops \subseteq dirs
    /\ \E n \in Nat : \A s \in dirs : s <= n
    /\ \A i \in DOMAIN inbox : Refers(inbox[i])
    /\ Refers(server.msg)

Processes == [pc : Pcs, msg : Inputs, before : SUBSET Numbers, own : Sessions,
              saved : Environments]

-----------------------------------------------------------------------------
(* Numbers of sessions *)

\* The newest of a set that is bounded is one of it, or there is none.
LEMMA NewestIsMember ==
    ASSUME NEW S \in SUBSET Nat, NEW n \in Nat, \A s \in S : s <= n
    PROVE  Newest(S) \in S \cup {NoSession} /\ \A y \in S : y <= Newest(S)
<1> DEFINE T == S \cup {0}
           D == {d \in 0..n : n - d \in T}
<1>1. PICK d \in D : \A e \in D : <<e, d>> \notin OpToRel(<, Nat)
  <2>1. n \in D /\ D \subseteq Nat
    OBVIOUS
  <2> HIDE DEF D
  <2> QED
    BY <2>1, WFMin, NatLessThanWellFounded
<1>2. ASSUME NEW y \in S PROVE y <= n - d
  <2>1. n - y \in D /\ d \in Nat
    BY <1>2
  <2>2. CASE n - y < d
    <3>1. <<n - y, d>> \in OpToRel(<, Nat)
      BY <2>1, <2>2 DEF OpToRel
    <3> QED
      BY <1>1, <2>1, <3>1
  <2> QED
    BY <2>1, <2>2
<1>3. n - d \in T
  BY <1>1
<1> QED
  BY <1>2, <1>3 DEF Newest, NoSession

\* A day of retrieved files is no session and not none.
LEMMA RetrievedIsNumber == Retrieved \in Numbers /\ NoSession \in Sessions
<1>1. (Kills + 1) * Requests \in Nat
  BY ConstantsAssumption
<1> QED
  BY <1>1, ConstantsAssumption DEF Retrieved, Numbers, Sessions, NoSession

\* Sessions are found among those that are there.
LEMMA NewestTypes ==
    ASSUME TypeOK, Known, NEW S \in SUBSET dirs
    PROVE  Newest(S) \in S \cup {NoSession} /\ Newest(S) \in Sessions
<1>1. PICK n \in Nat : \A s \in dirs : s <= n
  BY DEF Known
<1>2. S \in SUBSET Nat
  BY DEF TypeOK, Numbers
<1>3. Newest(S) \in S \cup {NoSession}
  BY <1>1, <1>2, NewestIsMember
<1> QED
  BY <1>3 DEF TypeOK, Sessions

\* The number of a session that is made.
LEMMA NextNumberTypes == ASSUME TypeOK, Known PROVE NextNumber \in Numbers
<1>1. IsFiniteSet(dirs \ {Retrieved})
  BY FS_RemoveElement DEF Known
<1>2. Cardinality(dirs \ {Retrieved}) \in Nat
  BY <1>1, FS_CardinalityType
<1> QED
  BY <1>2 DEF NextNumber, Numbers

\* What an answer is made of.
LEMMA AnswerTypes ==
    ASSUME TypeOK, Known, NEW m \in Inputs, NEW s \in Sessions
    PROVE  Answer(m, s) \in Responses /\ [Answer(m, s) EXCEPT !.failed = TRUE] \in Responses
<1>1. Newest(dirs \ {Retrieved}) \in Sessions
  BY NewestTypes
<1>2. Ready(m) \in BOOLEAN
  BY DEF Ready
<1>3. server.own \in Sessions /\ server.before \in SUBSET Numbers
  BY DEF TypeOK
<1>4. m.id \in 0..Requests /\ m.line \in Lines /\ m.env \in Overrides
  BY DEF Inputs
<1>5. Answer(m, s) \in Responses
  BY <1>1, <1>2, <1>3, <1>4 DEF Answer, Responses
<1> QED
  BY <1>5 DEF Responses

\* The session a call is told.
LEMMA DetectedTypes == ASSUME TypeOK, Known PROVE Detected(server.msg.line) \in Sessions
<1>1. Newest(dirs) \in Sessions /\ Newest(dirs \ server.before) \in Sessions
  BY NewestTypes
<1> QED
  BY <1>1 DEF Detected, Latest

-----------------------------------------------------------------------------
(* The steps *)

\* A queue with one more.
LEMMA AppendTypes ==
    ASSUME NEW S, NEW q \in Seq(S), NEW y \in S
    PROVE  /\ Append(q, y) \in Seq(S)
           /\ \A i \in DOMAIN Append(q, y) :
                 \/ Append(q, y)[i] = y
                 \/ i \in DOMAIN q /\ Append(q, y)[i] = q[i]
  OBVIOUS

\* Messages that are sent go on from a session of an answer.
LEMMA SendTypes ==
    ASSUME TypeOK, Known, NEW m \in Messages, Send(m) PROVE (TypeOK /\ Known)'
<1> DEFINE S == {s \in DOMAIN loops : \E i \in DOMAIN outbox : outbox[i].session = s}
           link == m.link
           id == IF m.named /\ m.line # "garbage" THEN sent + 1 ELSE 0
           prev == CASE link = "none" -> NoSession
                     [] link = "lost" -> Retrieved
                     [] OTHER         -> LastTold
           iteration == IF link = "follow" THEN NextIteration(LastTold) ELSE 0
           x == [line |-> m.line, env |-> m.env, id |-> id, prev |-> prev,
                 iteration |-> iteration]
<1>1. m.line \in Lines /\ m.env \in Overrides /\ link \in Links
  BY ConstantsAssumption
<1>2. LastTold \in DOMAIN loops \cup {NoSession} /\ LastTold \in Sessions
  <2>1. S \in SUBSET dirs
    BY DEF Known
  <2> QED
    BY <2>1, NewestTypes DEF LastTold
<1>3. prev \in Sessions /\ prev \in DOMAIN loops \cup {NoSession, Retrieved}
  BY <1>1, <1>2, RetrievedIsNumber DEF Links, Sessions
<1>4. id \in 0..Requests /\ sent' \in 0..Requests
  BY ConstantsAssumption DEF Send, TypeOK
<1>5. iteration \in Nat
  <2>1. CASE link = "follow"
    <3>1. LastTold \in DOMAIN loops
      BY <1>2, <2>1 DEF Send
    <3>2. loops[LastTold].iteration \in Nat
      BY <3>1 DEF TypeOK, Loops
    <3> QED
      BY <2>1, <3>2 DEF NextIteration
  <2>2. CASE link # "follow"
    BY <2>2
  <2> QED
    BY <2>1, <2>2
<1>6. inbox' = Append(inbox, x)
  BY DEF Send
<1>7. x \in Inputs
  BY <1>1, <1>3, <1>4, <1>5 DEF Inputs
<1>8. x.prev \in DOMAIN loops' \cup {NoSession, Retrieved}
  BY <1>3 DEF Send
<1> HIDE DEF x, prev, iteration, id
<1>9. inbox' \in Seq(Inputs)
  BY <1>6, <1>7, AppendTypes DEF TypeOK
<1>10. \A i \in DOMAIN inbox' :
          \/ inbox'[i] = x
          \/ i \in DOMAIN inbox /\ inbox'[i] = inbox[i]
  BY <1>6, <1>7, AppendTypes DEF TypeOK
<1>11. TypeOK'
  BY <1>4, <1>9 DEF TypeOK, Send
<1>12. Known'
  BY <1>8, <1>10 DEF Known, Refers, Send
<1> QED
  BY <1>11, <1>12

\* The line that is read.
LEMMA HeadTypes ==
    ASSUME TypeOK, Known, inbox # <<>>
    PROVE  /\ Head(inbox) \in Inputs /\ Tail(inbox) \in Seq(Inputs) /\ Refers(Head(inbox))
           /\ \A i \in DOMAIN Tail(inbox) : Refers(Tail(inbox)[i])
<1>1. inbox \in Seq(Inputs) /\ Len(inbox) > 0 /\ 1 \in DOMAIN inbox
  BY DEF TypeOK
<1>2. \A i \in DOMAIN Tail(inbox) : i + 1 \in DOMAIN inbox /\ Tail(inbox)[i] = inbox[i + 1]
  BY <1>1
<1> QED
  BY <1>1, <1>2 DEF Known

\* Steps of the server that make no session.
LEMMA ServerTypes ==
    ASSUME TypeOK, Known,
           \/ AnswerAtOnce \/ Ignore \/ DieOfArray \/ BeginCall \/ SetEnvironment
           \/ SetEnvironmentFails
           \/ EndCommand \/ RestoreEnvironment \/ AnswerCall \/ AnswerTorn \/ EndInput \/ Kill
    PROVE  (TypeOK /\ Known)'
<1> USE RetrievedIsNumber
<1>a. server \in Processes /\ server.msg \in Inputs /\ server.before \in SUBSET Numbers
      /\ server.saved \in Environments /\ server.msg.env \in Overrides
  BY DEF TypeOK, Processes, Inputs
<1>b. \A v \in Vars : server.msg.env[v] \in Values \cup {Unset, Unsettable}
  BY <1>a DEF Overrides
<1>1. CASE AnswerAtOnce \/ Ignore
  <2>1. Head(inbox) \in Inputs /\ Tail(inbox) \in Seq(Inputs)
        /\ \A i \in DOMAIN Tail(inbox) : Refers(Tail(inbox)[i])
    BY <1>1, HeadTypes DEF AnswerAtOnce, Ignore
  <2>2. Answer(Head(inbox), NoSession) \in Responses
    BY <2>1, AnswerTypes
  <2>3. outbox' \in Seq(Responses) /\ done' \in Seq(Inputs) /\ inbox' = Tail(inbox)
        /\ UNCHANGED <<sent, server, env, dirs, loops, rivals, restarts>>
    <3>1. /\ \A r \in Responses : Append(outbox, r) \in Seq(Responses)
          /\ \A m \in Inputs : Append(done, m) \in Seq(Inputs)
      BY AppendTypes DEF TypeOK
    <3>2. outbox' \in Seq(Responses)
      BY <1>1, <2>2, <3>1 DEF AnswerAtOnce, Ignore, Respond, TypeOK
    <3>3. done' \in Seq(Inputs)
      BY <1>1, <2>1, <3>1 DEF AnswerAtOnce, Ignore
    <3> QED
      BY <1>1, <3>2, <3>3 DEF AnswerAtOnce, Ignore
  <2> QED
    BY <2>1, <2>3 DEF TypeOK, Known, Refers
<1>2. CASE DieOfArray \/ EndInput \/ Kill \/ EndCommand
  <2>1. server' \in Processes /\ server'.msg = server.msg
    BY <1>2, <1>a DEF DieOfArray, EndInput, Kill, EndCommand, Processes, Pcs
  <2> QED
    BY <1>2, <2>1 DEF DieOfArray, EndInput, Kill, EndCommand, TypeOK, Known, Refers, Processes
<1>3. CASE BeginCall
  <2>1. Head(inbox) \in Inputs /\ Tail(inbox) \in Seq(Inputs) /\ Refers(Head(inbox))
        /\ \A i \in DOMAIN Tail(inbox) : Refers(Tail(inbox)[i])
    BY <1>3, HeadTypes DEF BeginCall
  <2>2. server' \in Processes /\ server'.msg = Head(inbox)
    BY <1>3, <1>a, <2>1 DEF BeginCall, Processes, Pcs, TypeOK
  <2> QED
    BY <1>3, <2>1, <2>2 DEF BeginCall, TypeOK, Known, Refers, Processes
<1>4. CASE SetEnvironment \/ RestoreEnvironment
  <2>1. server' \in Processes /\ server'.msg = server.msg
    BY <1>4, <1>a DEF SetEnvironment, RestoreEnvironment, Processes, Pcs, TypeOK
  <2>2. env' \in Environments
    <3>1. CASE SetEnvironment
      BY <1>a, <1>b, <3>1 DEF SetEnvironment, Settable, Overridden, Environments, TypeOK
    <3>2. CASE RestoreEnvironment
      BY <1>a, <3>2 DEF RestoreEnvironment, Environments, TypeOK
    <3> QED
      BY <1>4, <3>1, <3>2
  <2> QED
    BY <1>4, <2>1, <2>2 DEF SetEnvironment, RestoreEnvironment, TypeOK, Known, Refers, Processes
<1>5. CASE AnswerCall \/ AnswerTorn \/ SetEnvironmentFails
  <2>1. Detected(server.msg.line) \in Sessions
    BY DetectedTypes
  <2>2. /\ Answer(server.msg, Detected(server.msg.line)) \in Responses
        /\ [Answer(server.msg, NoSession) EXCEPT !.failed = TRUE] \in Responses
    BY <1>a, <2>1, AnswerTypes
  <2>3. server' \in Processes /\ server'.msg = server.msg
    BY <1>5, <1>a DEF AnswerCall, AnswerTorn, SetEnvironmentFails, Processes, Pcs
  <2>4. outbox' \in Seq(Responses) /\ done' \in Seq(Inputs)
    <3>1. /\ \A r \in Responses : Append(outbox, r) \in Seq(Responses)
          /\ \A m \in Inputs : Append(done, m) \in Seq(Inputs)
      BY AppendTypes DEF TypeOK
    <3>2. outbox' \in Seq(Responses)
      BY <1>5, <2>2, <3>1 DEF AnswerCall, AnswerTorn, SetEnvironmentFails, Respond
    <3>3. done' \in Seq(Inputs)
      BY <1>5, <1>a, <3>1 DEF AnswerCall, AnswerTorn, SetEnvironmentFails
    <3> QED
      BY <3>2, <3>3
  <2>5. env' \in Environments
    <3>1. CASE SetEnvironmentFails
      BY <1>b, <3>1 DEF SetEnvironmentFails, Reached, Environments, TypeOK
    <3> QED
      BY <1>5, <3>1 DEF AnswerCall, AnswerTorn, TypeOK
  <2> QED
    BY <1>5, <2>3, <2>4, <2>5
       DEF AnswerCall, AnswerTorn, SetEnvironmentFails, TypeOK, Known, Refers, Processes
<1> QED
  BY <1>1, <1>2, <1>3, <1>4, <1>5

\* A session that is made, here or by another terminal.
LEMMA MadeTypes ==
    ASSUME TypeOK, Known, dirs' = Created(NextNumber)
    PROVE  /\ dirs' \subseteq Numbers /\ IsFiniteSet(dirs') /\ dirs \subseteq dirs'
           /\ NextNumber \in dirs'
           /\ \E n \in Nat : \A s \in dirs' : s <= n
<1> DEFINE k == NextNumber
<1>1. k \in Numbers
  BY NextNumberTypes
<1>2. IsFiniteSet(dirs \cup {k}) /\ IsFiniteSet((dirs \cup {k}) \cup {Retrieved})
  BY FS_AddElement DEF Known
<1>3. dirs' \in {dirs \cup {k}, (dirs \cup {k}) \cup {Retrieved}}
  BY DEF Created
<1>4. \E n \in Nat : \A s \in dirs' : s <= n
  <2>1. PICK n \in Nat : \A s \in dirs : s <= n
    BY DEF Known
  <2>2. n + k + Retrieved \in Nat /\ k \in Nat /\ Retrieved \in Nat
    BY <1>1, RetrievedIsNumber DEF Numbers
  <2>3. \A s \in dirs' : s <= n + k + Retrieved
    BY <1>3, <2>1, <2>2 DEF TypeOK, Numbers
  <2> QED
    BY <2>2, <2>3
<1> HIDE DEF k
<1>5. dirs' \subseteq Numbers
  BY <1>1, <1>3, RetrievedIsNumber DEF TypeOK
<1> QED
  BY <1>2, <1>3, <1>4, <1>5 DEF k

\* Its loop block.
LEMMA LoopTypes ==
    ASSUME TypeOK, Known, NEW parent \in DOMAIN loops \cup {NoSession}, NEW k \in Nat
    PROVE  LoopOf(NextNumber, parent, k) \in Loops
<1>1. NextNumber \in Numbers
  BY NextNumberTypes
<1>2. parent # NoSession =>
        loops[parent].iteration \in Nat \ {0} /\ loops[parent].root \in Numbers
        /\ parent \in Sessions
  BY DEF TypeOK, Loops, Sessions
<1>3. parent \in Sessions
  BY <1>2, RetrievedIsNumber
<1> QED
  BY <1>1, <1>2, <1>3 DEF LoopOf, Loops

\* Steps that make a session.
LEMMA SessionTypes ==
    ASSUME TypeOK, Known, CreateSession \/ OtherTerminal PROVE (TypeOK /\ Known)'
<1> DEFINE k == NextNumber
<1>1. dirs' = Created(k)
  BY DEF CreateSession, OtherTerminal
<1>2. /\ dirs' \subseteq Numbers /\ IsFiniteSet(dirs') /\ dirs \subseteq dirs' /\ k \in dirs'
      /\ \E n \in Nat : \A s \in dirs' : s <= n
  BY <1>1, MadeTypes
<1>3. loops' = loops \/ \E l \in Loops : loops' = WithLoop(k, l)
  <2>1. CASE CreateSession
    <3>1. CASE server.msg.prev = Retrieved
      BY <2>1, <3>1 DEF CreateSession
    <3>2. CASE server.msg.prev # Retrieved
      <4>1. server.msg.prev \in DOMAIN loops \cup {NoSession} /\ server.msg.iteration \in Nat
        BY <3>2 DEF Known, Refers, TypeOK, Inputs
      <4> QED
        BY <2>1, <3>2, <4>1, LoopTypes DEF CreateSession
    <3> QED
      BY <3>1, <3>2
  <2>2. CASE OtherTerminal
    <3>1. LoopOf(k, NoSession, 0) \in Loops
      BY LoopTypes
    <3>2. [LoopOf(k, NoSession, 0) EXCEPT !.rival = TRUE] \in Loops
      BY <3>1 DEF Loops
    <3> QED
      BY <2>2, <3>2 DEF OtherTerminal
  <2> QED
    BY <2>1, <2>2
<1> HIDE DEF k
<1>4. /\ DOMAIN loops \subseteq DOMAIN loops' /\ DOMAIN loops' \subseteq DOMAIN loops \cup {k}
      /\ \A s \in DOMAIN loops' : loops'[s] \in Loops
  BY <1>3 DEF WithLoop, TypeOK
<1>5. server' \in Processes /\ server'.msg = server.msg
  <2>1. k \in Sessions
    BY NextNumberTypes DEF k, Sessions
  <2> QED
    BY <2>1 DEF CreateSession, OtherTerminal, TypeOK, Processes, Pcs, k
<1>6. rivals' \in 0..Rivals
  BY ConstantsAssumption DEF CreateSession, OtherTerminal, TypeOK
<1>7. UNCHANGED <<inbox, sent, env, outbox, done, restarts>>
  BY DEF CreateSession, OtherTerminal
<1>8. TypeOK'
  BY <1>2, <1>4, <1>5, <1>6, <1>7 DEF TypeOK, Known, Processes
<1>9. Known'
  BY <1>2, <1>4, <1>5, <1>7 DEF Known, Refers
<1> QED
  BY <1>8, <1>9

\* A server that starts.
LEMMA StartTypes ==
    /\ Started \in Processes /\ Started.msg.prev = NoSession /\ StartEnv \in Environments
<1>1. Idle \in Inputs
  BY ConstantsAssumption, RetrievedIsNumber DEF Idle, Inputs, Lines, Overrides
<1> QED
  BY <1>1, ConstantsAssumption, RetrievedIsNumber DEF Started, Processes, Pcs, Idle

\* Types, and that a message goes on from a session with a summary, for any number of
\* messages, rivals and restarts.
THEOREM TypeCorrect == Spec => [](TypeOK /\ Known)
<1>1. Init => TypeOK /\ Known
  <2> SUFFICES ASSUME Init PROVE TypeOK /\ Known
    OBVIOUS
  <2>1. TypeOK
    BY StartTypes, ConstantsAssumption DEF Init, TypeOK, Processes
  <2>2. IsFiniteSet({})
    BY FS_EmptySet
  <2>3. Known
    BY <2>2, StartTypes DEF Init, Known, Refers
  <2> QED
    BY <2>1, <2>3
<1>2. TypeOK /\ Known /\ [Next]_vars => (TypeOK /\ Known)'
  <2> SUFFICES ASSUME TypeOK, Known, [Next]_vars PROVE (TypeOK /\ Known)'
    OBVIOUS
  <2>1. CASE \E m \in Messages : Send(m)
    BY <2>1, SendTypes
  <2>2. CASE CreateSession \/ OtherTerminal
    BY <2>2, SessionTypes
  <2>3. CASE Restart
    <3>1. TypeOK'
      BY <2>3, StartTypes, ConstantsAssumption DEF Restart, TypeOK, Processes
    <3>2. Known'
      BY <2>3, StartTypes DEF Restart, Known, Refers
    <3> QED
      BY <3>1, <3>2
  <2>4. CASE UNCHANGED vars
    BY <2>4 DEF vars, TypeOK, Known, Refers
  <2> QED
    BY <2>1, <2>2, <2>3, <2>4, ServerTypes DEF Next, Serve
<1> QED
  BY <1>1, <1>2, PTL DEF Spec

-----------------------------------------------------------------------------
(* The environment *)

\* What a call has saved is what it has found, and it got past setting its variables.
SavedIsFound ==
    /\ server.pc \in {"command", "working", "restore"} => server.saved = Found
    /\ server.pc \in {"command", "working", "restore", "after"} => Settable(server.msg.env)
    /\ server.pc = "begin" => server.msg.line \in {"call", "latest"}

\* The parts of EnvironmentIsOwn: where the environment is whose, and what was said
\* of requests.
PlaceOwn ==
    /\ server.pc \in {"read", "begin", "after", "ended"} => env = Found
    /\ server.pc \in {"command", "working", "restore"} =>
          env = Overridden(Found, server.msg.env)
AnswersOwn == \A i \in DOMAIN outbox : ReadyIsOwn(outbox[i])

\* The last of some places.
LEMMA LastIs ==
    ASSUME NEW n \in Nat, NEW S \in SUBSET (1..n), S # {}
    PROVE  (CHOOSE i \in S : \A j \in S : j <= i) \in S
<1>1. S \in SUBSET Nat /\ \A s \in S : s <= n /\ s # 0
  OBVIOUS
<1>2. Newest(S) \in S \cup {0} /\ \A y \in S : y <= Newest(S)
  BY <1>1, NewestIsMember DEF NoSession
<1>3. Newest(S) \in S
  <2>1. PICK s \in S : TRUE
    OBVIOUS
  <2>2. s \in Nat /\ s # 0 /\ s <= Newest(S)
    BY <1>1, <1>2
  <2>3. Newest(S) # 0
    BY <2>2
  <2> QED
    BY <1>2, <2>3
<1> QED
  BY <1>2, <1>3

\* What is found is of each variable.
LEMMA FoundIs == Found = [v \in Vars |-> Found[v]]
  BY DEF Found

\* What a message that is dealt with changes in what the next call finds: the variables it
\* leaves, and none of the others.
LEMMA FoundStep ==
    ASSUME TypeOK, NEW m \in Inputs, done' = Append(done, m)
    PROVE  /\ \A v \in Vars : LeftBy(v) \subseteq LeftBy(v)'
           /\ Found' = [v \in Vars |-> IF Leaves(m, v) THEN m.env[v] ELSE Found[v]]
<1> DEFINE q == Len(done)
<1>1. /\ q \in Nat /\ DOMAIN done = 1..q /\ DOMAIN done' = 1..(q + 1)
      /\ done'[q + 1] = m /\ \A i \in 1..q : done'[i] = done[i]
  BY DEF TypeOK
<1> HIDE DEF q
<1>2. ASSUME NEW v \in Vars
      PROVE  /\ LeftBy(v) \subseteq 1..q
             /\ LeftBy(v)' = LeftBy(v) \cup (IF Leaves(m, v) THEN {q + 1} ELSE {})
  BY <1>1 DEF LeftBy, Leaves
<1>3. ASSUME NEW v \in Vars
      PROVE  Found'[v] = IF Leaves(m, v) THEN m.env[v] ELSE Found[v]
  <2> DEFINE S == LeftBy(v)
             T == LeftBy(v)'
  <2>a. Found[v] = IF S = {} THEN StartEnv[v]
                   ELSE done[CHOOSE i \in S : \A j \in S : j <= i].env[v]
    BY DEF Found
  <2>b. Found'[v] = IF T = {} THEN StartEnv[v]
                    ELSE done'[CHOOSE i \in T : \A j \in T : j <= i].env[v]
    BY DEF Found
  <2>c. S \in SUBSET (1..q) /\ T = S \cup (IF Leaves(m, v) THEN {q + 1} ELSE {})
    BY <1>2
  <2> HIDE DEF S, T
  <2>1. CASE Leaves(m, v)
    <3>1. T # {} /\ q + 1 \in T /\ \A j \in T : j <= q + 1
      BY <1>1, <2>1, <2>c
    <3>2. \A i \in T : (\A j \in T : j <= i) => i = q + 1
      BY <1>1, <2>1, <2>c, <3>1
    <3>3. (CHOOSE i \in T : \A j \in T : j <= i) = q + 1
      BY <3>1, <3>2
    <3> QED
      BY <1>1, <2>1, <2>b, <3>1, <3>3
  <2>2. CASE ~Leaves(m, v)
    <3>1. T = S
      BY <2>2, <2>c
    <3>2. S # {} => (CHOOSE i \in S : \A j \in S : j <= i) \in 1..q
      BY <1>1, <2>c, LastIs
    <3> QED
      BY <1>1, <2>2, <2>a, <2>b, <3>1, <3>2
  <2> QED
    BY <2>1, <2>2
<1>4. (Found = [v \in Vars |-> Found[v]])'
  BY FoundIs, PTL
<1> QED
  BY <1>2, <1>3, <1>4

\* What a message that sets nothing, or all it names, leaves is nothing.
LEMMA FoundKept ==
    ASSUME TypeOK, NEW m \in Inputs, done' = Append(done, m),
           m.line \in {"call", "latest"} => Settable(m.env)
    PROVE  Found' = Found
<1>1. \A v \in Vars : ~Leaves(m, v)
  BY DEF Leaves
<1>2. Found = [v \in Vars |-> Found[v]]
  BY DEF Found
<1> QED
  BY <1>1, <1>2, FoundStep

\* An answer is given between two calls, when only the request can make it ready.
LEMMA AnswersStep ==
    ASSUME TypeOK, Known, PlaceOwn, AnswersOwn, [Next]_vars PROVE AnswersOwn'
<1>1. ASSUME NEW m \in Inputs, NEW s \in Sessions, env = Found, done' = Append(done, m),
             NEW y \in {Answer(m, s), [Answer(m, s) EXCEPT !.failed = TRUE]}, Respond(y)
      PROVE  AnswersOwn'
  <2>1. y \in Responses
    BY <1>1, AnswerTypes
  <2>2. y.ready = Ready(m) /\ y.env = m.env
    BY <1>1, <2>1 DEF Answer
  <2>3. \A v \in Vars : Found[v] # Unset => StartEnv[v] # Unset \/ LeftBy(v) # {}
    BY DEF Found
  <2>4. ReadyIsOwn(y)
    BY <1>1, <2>2, <2>3, ConstantsAssumption DEF Ready, ReadyIsOwn
  <2>5. \A i \in DOMAIN outbox' :
           \/ outbox'[i] = y
           \/ i \in DOMAIN outbox /\ outbox'[i] = outbox[i]
    BY <1>1, <2>1, AppendTypes DEF Respond, TypeOK
  <2>6. \A v \in Vars : LeftBy(v) \subseteq LeftBy(v)'
    BY <1>1, FoundStep
  <2>7. \A i \in DOMAIN outbox' : ReadyIsOwn(outbox'[i])
    BY <2>4, <2>5 DEF AnswersOwn
  <2>8. ASSUME NEW i \in DOMAIN outbox' PROVE ReadyIsOwn(outbox[i])'
    BY <2>6, <2>7, ConstantsAssumption DEF ReadyIsOwn
  <2> QED
    BY <2>8 DEF AnswersOwn
<1>a. server.msg \in Inputs /\ NoSession \in Sessions
  BY DEF TypeOK, Processes, Sessions
<1>2. CASE AnswerAtOnce
  <2>1. Head(inbox) \in Inputs /\ env = Found
    BY <1>2, HeadTypes DEF AnswerAtOnce, PlaceOwn
  <2>2. Respond(Answer(Head(inbox), NoSession)) /\ done' = Append(done, Head(inbox))
    BY <1>2 DEF AnswerAtOnce
  <2> QED
    BY <1>1, <1>a, <2>1, <2>2
<1>3. CASE AnswerCall
  <2>1. Detected(server.msg.line) \in Sessions /\ env = Found
    BY <1>3, DetectedTypes DEF AnswerCall, PlaceOwn
  <2>2. /\ Respond(Answer(server.msg, Detected(server.msg.line)))
        /\ done' = Append(done, server.msg)
    BY <1>3 DEF AnswerCall
  <2> QED
    BY <1>1, <1>a, <2>1, <2>2
<1>4. CASE AnswerTorn \/ SetEnvironmentFails
  <2>1. /\ env = Found /\ done' = Append(done, server.msg)
        /\ Respond([Answer(server.msg, NoSession) EXCEPT !.failed = TRUE])
    BY <1>4 DEF AnswerTorn, SetEnvironmentFails, PlaceOwn
  <2> QED
    BY <1>1, <1>a, <2>1
<1>5. CASE Restart
  BY <1>5 DEF Restart, AnswersOwn
<1>6. CASE Ignore
  <2>1. Head(inbox) \in Inputs /\ done' = Append(done, Head(inbox)) /\ outbox' = outbox
    BY <1>6, HeadTypes DEF Ignore
  <2>2. \A v \in Vars : LeftBy(v) \subseteq LeftBy(v)'
    BY <2>1, FoundStep
  <2> QED
    BY <2>1, <2>2, ConstantsAssumption DEF AnswersOwn, ReadyIsOwn
<1>7. CASE UNCHANGED <<outbox, done>>
  BY <1>7 DEF AnswersOwn, ReadyIsOwn, LeftBy
<1> QED
  BY <1>2, <1>3, <1>4, <1>5, <1>6, <1>7
     DEF Next, Serve, Send, OtherTerminal, vars, DieOfArray, Kill, BeginCall, EndInput,
         SetEnvironment, CreateSession, EndCommand, RestoreEnvironment

\* Each step leaves the environment as the place of the server says.
LEMMA EnvironmentStep ==
    ASSUME TypeOK, Known, PlaceOwn, SavedIsFound, [Next]_vars
    PROVE  (PlaceOwn /\ SavedIsFound)'
<1> USE DEF PlaceOwn, SavedIsFound
<1>a. server \in Processes /\ server.msg \in Inputs
  BY DEF TypeOK, Processes
<1>b. UNCHANGED done => Found' = Found
  BY DEF Found, LeftBy
<1>1. CASE (\E m \in Messages : Send(m)) \/ OtherTerminal \/ UNCHANGED vars
  BY <1>1, <1>b DEF Send, OtherTerminal, vars
<1>2. CASE AnswerAtOnce \/ Ignore
  <2>1. /\ Head(inbox) \in Inputs /\ done' = Append(done, Head(inbox))
        /\ Head(inbox).line \notin {"call", "latest"}
        /\ UNCHANGED <<server, env>> /\ server.pc = "read"
    BY <1>2, HeadTypes DEF AnswerAtOnce, Ignore, Ignored
  <2>2. Found' = Found
    BY <2>1, FoundKept
  <2> QED
    BY <2>1, <2>2
<1>3. CASE DieOfArray \/ Kill \/ BeginCall \/ EndInput
  BY <1>3, <1>a, <1>b DEF DieOfArray, Kill, BeginCall, EndInput, Processes
<1>4. CASE AnswerCall \/ AnswerTorn
  <2>1. /\ done' = Append(done, server.msg) /\ Settable(server.msg.env)
        /\ server'.pc = "read" /\ env' = env /\ env = Found
    BY <1>4, <1>a DEF AnswerCall, AnswerTorn, Processes
  <2>2. Found' = Found
    BY <1>a, <2>1, FoundKept
  <2> QED
    BY <2>1, <2>2
<1>5. CASE SetEnvironment
  BY <1>5, <1>a, <1>b DEF SetEnvironment, Processes
<1>6. CASE SetEnvironmentFails
  <2>1. /\ done' = Append(done, server.msg) /\ ~Settable(server.msg.env)
        /\ server.msg.line \in {"call", "latest"} /\ env = Found
        /\ server'.pc = "read"
    BY <1>6, <1>a DEF SetEnvironmentFails, Processes
  <2>2. \A v \in Vars : Leaves(server.msg, v) <=> Reached(server.msg.env, v)
    BY <2>1 DEF Leaves
  <2>3. Found' = [v \in Vars |-> IF Reached(server.msg.env, v) THEN server.msg.env[v]
                                                             ELSE env[v]]
    BY <1>a, <2>1, <2>2, FoundStep
  <2>4. env' = Found'
    BY <1>6, <2>3 DEF SetEnvironmentFails
  <2> QED
    BY <2>1, <2>4
<1>7. CASE CreateSession \/ EndCommand
  BY <1>7, <1>a, <1>b DEF CreateSession, EndCommand, Processes
<1>8. CASE RestoreEnvironment
  <2>1. server'.pc = "after" /\ env = Overridden(Found, server.msg.env)
        /\ server.saved = Found /\ server'.msg = server.msg /\ UNCHANGED done
        /\ Settable(server.msg.env)
    BY <1>8, <1>a DEF RestoreEnvironment, Processes
  <2>2. \A v \in Vars : env'[v] = Found[v]
    BY <1>8, <2>1 DEF RestoreEnvironment, Overridden
  <2>3. env' = [v \in Vars |-> env'[v]] /\ Found = [v \in Vars |-> Found[v]]
    BY <1>8 DEF RestoreEnvironment, Found
  <2> QED
    BY <1>b, <2>1, <2>2, <2>3
<1>9. CASE Restart
  <2>1. \A v \in Vars : LeftBy(v)' = {}
    BY <1>9 DEF Restart, LeftBy
  <2>2. Found' = [v \in Vars |-> StartEnv[v]]
    BY <2>1 DEF Found
  <2>3. StartEnv = [v \in Vars |-> StartEnv[v]]
    BY ConstantsAssumption DEF Environments
  <2> QED
    BY <1>9, <2>2, <2>3 DEF Restart, Started
<1> QED
  BY <1>1, <1>2, <1>3, <1>4, <1>5, <1>6, <1>7, <1>8, <1>9 DEF Next, Serve

\* A command runs under the environment it finds and its own overrides, and nothing is
\* left of them afterwards but what a call has set before a variable that cannot be set,
\* for any variables and values (temporary_agent_environment).
THEOREM EnvironmentsAreOwn == Spec => []EnvironmentIsOwn
<1>1. Init => PlaceOwn /\ AnswersOwn /\ SavedIsFound
  <2> SUFFICES ASSUME Init PROVE PlaceOwn /\ AnswersOwn /\ SavedIsFound
    OBVIOUS
  <2>1. \A v \in Vars : LeftBy(v) = {}
    BY DEF Init, LeftBy
  <2>2. Found = [v \in Vars |-> StartEnv[v]]
    BY <2>1 DEF Found
  <2>3. StartEnv = [v \in Vars |-> StartEnv[v]]
    BY ConstantsAssumption DEF Environments
  <2> QED
    BY <2>2, <2>3 DEF Init, Started, PlaceOwn, AnswersOwn, SavedIsFound
<1>2. PlaceOwn /\ AnswersOwn => EnvironmentIsOwn
  BY DEF PlaceOwn, AnswersOwn, EnvironmentIsOwn
<1> QED
  BY <1>1, <1>2, EnvironmentStep, AnswersStep, TypeCorrect, PTL DEF Spec

-----------------------------------------------------------------------------
(* Sessions and their chains *)

\* Lines of which a session can still be made.
ToMake == Len(inbox) + (IF server.pc \in {"begin", "command"} THEN 1 ELSE 0)

\* Sessions are numbered without a gap, and there are not more of them than lines that
\* were sent and calls of other terminals.
Numbering(k) ==
    /\ dirs \ {Retrieved} = 1..k
    /\ DOMAIN loops \subseteq 1..k
    /\ k + ToMake <= restarts * Requests + sent + rivals

Numbered == \E k \in Nat : Numbering(k)

\* An iteration that is given is the one after that of the session it is given with.
Follows(m) ==
    m.iteration # 0 =>
        m.prev \in DOMAIN loops /\ m.iteration = loops[m.prev].iteration + 1

Following == Follows(server.msg) /\ \A i \in DOMAIN inbox : Follows(inbox[i])

\* The number of the next session, as long as not all are made.
LEMMA NextNumberIs ==
    ASSUME TypeOK, NEW k \in Nat, Numbering(k), ToMake > 0 \/ rivals < Rivals,
           server.pc \in Pcs, sent \in 0..Requests
    PROVE  NextNumber = k + 1 /\ k + 1 # Retrieved /\ k + 1 \notin dirs
<1>1. NextNumber = k + 1
  <2>1. Cardinality(1..k) = k
    BY FS_Interval
  <2> QED
    BY <2>1 DEF NextNumber, Numbering
<1>2. k + 1 < Retrieved
  <2> DEFINE x == restarts * Requests
  <2>1. x \in Nat /\ x <= Kills * Requests /\ Kills * Requests \in Nat
    BY ConstantsAssumption DEF TypeOK
  <2>2. (Kills + 1) * Requests = Kills * Requests + Requests
    BY ConstantsAssumption
  <2>3. ToMake \in Nat
    BY DEF ToMake, TypeOK
  <2>4. k + ToMake <= x + sent + rivals
    BY DEF Numbering
  <2> HIDE DEF x
  <2> DEFINE y == Kills * Requests
  <2>5. Retrieved = y + Requests + Rivals + 1
    BY <2>2 DEF Retrieved
  <2> HIDE DEF y
  <2> QED
    BY <2>1, <2>3, <2>4, <2>5, ConstantsAssumption DEF TypeOK, y
<1> QED
  BY <1>1, <1>2 DEF Numbering

\* What a step that makes no session keeps of the numbers.
LEMMA NumberedKept ==
    ASSUME TypeOK, Numbered, UNCHANGED <<dirs, loops, rivals>>,
           \/ /\ UNCHANGED restarts /\ sent' \in Nat /\ ToMake' \in Nat
              /\ ToMake' - sent' <= ToMake - sent
           \/ Restart
    PROVE  Numbered'
<1>1. PICK k \in Nat : Numbering(k)
  BY DEF Numbered
<1>2. ToMake \in Nat
  BY DEF ToMake, TypeOK
<1> DEFINE x == restarts * Requests
<1>3. x \in Nat
  BY ConstantsAssumption DEF TypeOK
<1>4. k + ToMake <= x + sent + rivals
  BY <1>1 DEF Numbering
<1>5. CASE Restart
  <2>1. ToMake' = 0 /\ sent' = 0
    BY <1>5 DEF Restart, ToMake, Started
  <2>2. restarts' * Requests = x + Requests
    BY <1>5, ConstantsAssumption DEF Restart, TypeOK
  <2>3. k + ToMake' <= restarts' * Requests + sent' + rivals'
    <3> HIDE DEF x
    <3> QED
      BY <1>2, <1>3, <1>4, <2>1, <2>2, ConstantsAssumption DEF TypeOK
  <2> QED
    BY <1>1, <2>3 DEF Numbering, Numbered, Retrieved
<1>6. CASE /\ UNCHANGED restarts /\ sent' \in Nat /\ ToMake' \in Nat
           /\ ToMake' - sent' <= ToMake - sent
  <2>1. restarts' * Requests = x
    BY <1>6
  <2>2. \A h, i, j, m, n, r \in Nat :
           k + i <= h + m + r /\ j - n <= i - m => k + j <= h + n + r
    OBVIOUS
  <2>3. sent \in Nat /\ rivals' = rivals /\ rivals \in Nat
    BY ConstantsAssumption DEF TypeOK
  <2>4. k + ToMake' <= x + sent' + rivals
    <3> HIDE DEF x
    <3> QED
      BY <1>2, <1>3, <1>4, <1>6, <2>2, <2>3
  <2>5. k + ToMake' <= restarts' * Requests + sent' + rivals'
    BY <2>1, <2>3, <2>4
  <2> QED
    BY <1>1, <2>5 DEF Numbering, Numbered, Retrieved
<1> QED
  BY <1>5, <1>6

\* The length of the inbox after a line was written or read.
LEMMA Lengths ==
    ASSUME TypeOK
    PROVE  /\ Len(inbox) \in Nat
           /\ inbox # <<>> => Len(Tail(inbox)) = Len(inbox) - 1 /\ Len(inbox) > 0
           /\ \A x \in Inputs : Len(Append(inbox, x)) = Len(inbox) + 1
  BY DEF TypeOK

\* A session is made by a call that was under way, or by another terminal.
LEMMA MadeNumbers ==
    ASSUME TypeOK, Known, CreateSession \/ OtherTerminal, NEW k \in Nat, Numbering(k)
    PROVE  /\ Numbering(k + 1)'
           /\ NextNumber = k + 1 /\ k + 1 \notin dirs
           /\ dirs' = Created(k + 1)
<1>1. NextNumber = k + 1 /\ k + 1 # Retrieved /\ k + 1 \notin dirs
  <2>1. ToMake > 0 \/ rivals < Rivals
    BY Lengths DEF CreateSession, OtherTerminal, ToMake
  <2> QED
    BY <2>1, NextNumberIs DEF TypeOK
<1>2. dirs' = Created(k + 1)
  BY <1>1 DEF CreateSession, OtherTerminal
<1>3. dirs' \ {Retrieved} = 1..(k + 1)
  <2>1. dirs' \ {Retrieved} = (dirs \ {Retrieved}) \cup {k + 1}
    BY <1>1, <1>2 DEF Created
  <2>2. (1..k) \cup {k + 1} = 1..(k + 1)
    OBVIOUS
  <2> QED
    BY <2>1, <2>2 DEF Numbering
<1>4. DOMAIN loops' \subseteq 1..(k + 1)
  BY <1>1 DEF CreateSession, OtherTerminal, WithLoop, Numbering
<1>5. (k + 1) + ToMake' <= restarts' * Requests + sent' + rivals'
  <2> DEFINE x == restarts * Requests
  <2>1. /\ UNCHANGED <<inbox, sent, restarts>>
        /\ x \in Nat /\ k + ToMake <= x + sent + rivals
    BY ConstantsAssumption DEF CreateSession, OtherTerminal, TypeOK, Numbering
  <2>2. restarts' * Requests = x
    BY <2>1
  <2>3. \/ ToMake' = ToMake /\ rivals' = rivals + 1
        \/ ToMake' = ToMake - 1 /\ rivals' = rivals
    <3>1. CASE OtherTerminal
      BY <3>1 DEF OtherTerminal, ToMake
    <3>2. CASE CreateSession
      <4>1. server.pc = "command" /\ server'.pc \in {"restore", "working"} /\ inbox' = inbox
            /\ rivals' = rivals
        BY <3>2 DEF CreateSession, TypeOK
      <4> QED
        BY <4>1, Lengths DEF ToMake
    <3> QED
      BY <3>1, <3>2
  <2>4. ToMake \in Nat /\ rivals \in Nat /\ sent \in Nat
    BY Lengths, ConstantsAssumption DEF ToMake, TypeOK
  <2>5. (k + 1) + ToMake' <= x + sent + rivals'
    <3> HIDE DEF x
    <3> QED
      BY <2>1, <2>3, <2>4
  <2> QED
    BY <2>1, <2>2, <2>5
<1>6. Retrieved' = Retrieved
  BY DEF Retrieved
<1> QED
  BY <1>1, <1>2, <1>3, <1>4, <1>5, <1>6 DEF Numbering

\* Each step keeps the numbers.
LEMMA NumberedStep == TypeOK /\ Known /\ Numbered /\ [Next]_vars => Numbered'
<1> SUFFICES ASSUME TypeOK, Known, Numbered, [Next]_vars PROVE Numbered'
  OBVIOUS
<1> DEFINE Fewer == sent' \in Nat /\ ToMake' \in Nat /\ ToMake' - sent' <= ToMake - sent
<1>a. sent \in Nat
  BY ConstantsAssumption DEF TypeOK
<1>1. CASE CreateSession \/ OtherTerminal
  <2>1. PICK k \in Nat : Numbering(k)
    BY DEF Numbered
  <2>2. k + 1 \in Nat /\ Numbering(k + 1)'
    BY <1>1, <2>1, MadeNumbers
  <2> QED
    BY <2>2 DEF Numbered
<1>2. ASSUME NEW m \in Messages, Send(m) PROVE Fewer
  <2>1. \E x : inbox' = Append(inbox, x)
    BY <1>2 DEF Send
  <2>2. Len(inbox') = Len(inbox) + 1
    <3>1. inbox' \in Seq(Inputs)
      BY <1>2, SendTypes DEF TypeOK
    <3> QED
      BY <2>1, <3>1 DEF TypeOK
  <2>3. sent' = sent + 1 /\ server' = server
    BY <1>2 DEF Send
  <2> QED
    BY <1>a, <2>2, <2>3, Lengths DEF ToMake
<1>3. ASSUME AnswerAtOnce \/ Ignore \/ BeginCall PROVE Fewer
  <2>1. inbox # <<>> /\ inbox' = Tail(inbox) /\ sent' = sent /\ server.pc = "read"
    BY <1>3 DEF AnswerAtOnce, Ignore, BeginCall
  <2> QED
    BY <1>a, <2>1, Lengths DEF ToMake
<1>4. ASSUME \/ DieOfArray \/ SetEnvironment \/ EndCommand \/ RestoreEnvironment
             \/ AnswerCall \/ AnswerTorn \/ SetEnvironmentFails \/ EndInput \/ Kill
             \/ UNCHANGED vars
      PROVE  Fewer
  <2>1. /\ inbox' = inbox /\ sent' = sent
        /\ server'.pc \in {"begin", "command"} => server.pc \in {"begin", "command"}
    BY <1>4 DEF DieOfArray, SetEnvironment, SetEnvironmentFails, EndCommand,
       RestoreEnvironment, AnswerCall,
       AnswerTorn, EndInput, Kill, vars, TypeOK
  <2> QED
    BY <1>a, <2>1, Lengths DEF ToMake
<1>5. ~CreateSession /\ ~OtherTerminal /\ ~Restart
        => UNCHANGED <<dirs, loops, rivals, restarts>>
  BY DEF Next, Serve, Send, AnswerAtOnce, Ignore, BeginCall, DieOfArray, SetEnvironment,
     SetEnvironmentFails,
     EndCommand, RestoreEnvironment, AnswerCall, AnswerTorn, EndInput, Kill, vars
<1>6. CASE Restart
  <2>1. UNCHANGED <<dirs, loops, rivals>>
    BY <1>6 DEF Restart
  <2> QED
    BY <1>6, <2>1, NumberedKept
<1> QED
  BY <1>1, <1>2, <1>3, <1>4, <1>5, <1>6, NumberedKept DEF Next, Serve

\* Numbers have no gap at any time.
LEMMA NumberedHolds == Spec => []Numbered
<1>1. Init => Numbered
  <2> SUFFICES ASSUME Init PROVE Numbering(0)
    BY DEF Numbered
  <2>1. 1..0 = {} /\ 0 * Requests = 0
    BY ConstantsAssumption
  <2>2. ToMake = 0
    BY DEF Init, Started, ToMake
  <2> QED
    BY <2>1, <2>2 DEF Init, Numbering
<1> QED
  BY <1>1, NumberedStep, TypeCorrect, PTL DEF Spec

\* The step that makes a session makes no other, and leaves the earlier as they are.
LEMMA LoopsGrow ==
    ASSUME TypeOK, Known, Numbered, [Next]_vars
    PROVE  /\ DOMAIN loops \subseteq DOMAIN loops'
           /\ \A s \in DOMAIN loops : loops'[s] = loops[s]
           /\ ~CreateSession /\ ~OtherTerminal => loops' = loops /\ dirs' = dirs
<1>1. CASE CreateSession \/ OtherTerminal
  <2>1. PICK k \in Nat : Numbering(k)
    BY DEF Numbered
  <2>2. NextNumber \notin DOMAIN loops
    BY <1>1, <2>1, MadeNumbers DEF Known
  <2> QED
    BY <1>1, <2>2 DEF CreateSession, OtherTerminal, WithLoop
<1>2. CASE ~CreateSession /\ ~OtherTerminal
  <2>1. loops' = loops /\ dirs' = dirs
    BY <1>2 DEF Next, Serve, Send, AnswerAtOnce, Ignore, BeginCall, DieOfArray,
       SetEnvironment, SetEnvironmentFails, EndCommand, RestoreEnvironment, AnswerCall,
       AnswerTorn, EndInput,
       Kill, Restart, vars
  <2> QED
    BY <2>1
<1> QED
  BY <1>1, <1>2

\* The lines that wait, and the one that is dealt with, were read or written once.
LEMMA MessagesStep ==
    ASSUME TypeOK, Known, [Next]_vars
    PROVE  /\ \/ \E m \in Messages : Send(m)
              \/ \A i \in DOMAIN inbox' : \E j \in DOMAIN inbox : inbox'[i] = inbox[j]
           /\ \/ server'.msg = server.msg \/ Restart
              \/ BeginCall /\ \E j \in DOMAIN inbox : server'.msg = inbox[j]
<1>1. CASE AnswerAtOnce \/ Ignore \/ BeginCall
  <2>1. inbox # <<>> /\ inbox' = Tail(inbox) /\ inbox \in Seq(Inputs)
    BY <1>1 DEF AnswerAtOnce, Ignore, BeginCall, TypeOK
  <2>2. /\ \A i \in DOMAIN Tail(inbox) :
              i + 1 \in DOMAIN inbox /\ Tail(inbox)[i] = inbox[i + 1]
        /\ 1 \in DOMAIN inbox /\ Head(inbox) = inbox[1]
    BY <2>1
  <2>3. CASE AnswerAtOnce \/ Ignore
    BY <2>1, <2>2, <2>3 DEF AnswerAtOnce, Ignore
  <2>4. CASE BeginCall
    <3>1. server'.msg = Head(inbox)
      BY <2>4 DEF BeginCall, TypeOK
    <3> QED
      BY <2>1, <2>2, <2>4, <3>1
  <2> QED
    BY <1>1, <2>3, <2>4
<1>2. CASE \E m \in Messages : Send(m)
  BY <1>2 DEF Send
<1>3. CASE Restart
  BY <1>3 DEF Restart
<1>4. CASE \/ DieOfArray \/ SetEnvironment \/ EndCommand \/ RestoreEnvironment
           \/ AnswerCall \/ AnswerTorn \/ SetEnvironmentFails \/ EndInput \/ Kill
           \/ UNCHANGED vars
           \/ CreateSession \/ OtherTerminal
  <2>1. inbox' = inbox /\ server'.msg = server.msg
    BY <1>4 DEF DieOfArray, SetEnvironment, SetEnvironmentFails, EndCommand,
       RestoreEnvironment, AnswerCall,
       AnswerTorn, EndInput, Kill, vars, CreateSession, OtherTerminal, TypeOK
  <2> QED
    BY <2>1
<1> QED
  BY <1>1, <1>2, <1>3, <1>4 DEF Next, Serve

\* A line that is written follows the last session that was told.
LEMMA SendFollows ==
    ASSUME TypeOK, Known, Following, NEW m \in Messages, Send(m) PROVE Following'
<1> DEFINE S == {s \in DOMAIN loops : \E i \in DOMAIN outbox : outbox[i].session = s}
           link == m.link
           id == IF m.named /\ m.line # "garbage" THEN sent + 1 ELSE 0
           prev == CASE link = "none" -> NoSession
                     [] link = "lost" -> Retrieved
                     [] OTHER         -> LastTold
           iteration == IF link = "follow" THEN NextIteration(LastTold) ELSE 0
           x == [line |-> m.line, env |-> m.env, id |-> id, prev |-> prev,
                 iteration |-> iteration]
<1>1. link = "follow" => LastTold \in DOMAIN loops
  <2>1. S \in SUBSET dirs
    BY DEF Known
  <2>2. LastTold \in DOMAIN loops \cup {NoSession}
    BY <2>1, NewestTypes DEF LastTold
  <2> QED
    BY <2>2 DEF Send
<1>2. iteration # 0 => prev \in DOMAIN loops /\ iteration = loops[prev].iteration + 1
  BY <1>1 DEF NextIteration
<1>3. inbox' = Append(inbox, x) /\ UNCHANGED <<server, loops>>
  BY DEF Send
<1>4. x.prev = prev /\ x.iteration = iteration
  OBVIOUS
<1> HIDE DEF x, prev, iteration, id
<1>5. inbox' \in Seq(Inputs) /\ inbox \in Seq(Inputs)
  BY SendTypes DEF TypeOK
<1>6. \A i \in DOMAIN inbox' : inbox'[i] = x \/ \E j \in DOMAIN inbox : inbox'[i] = inbox[j]
  BY <1>3, <1>5
<1> QED
  BY <1>2, <1>3, <1>4, <1>6 DEF Following, Follows

\* Each step keeps what lines say of iterations.
LEMMA FollowingStep ==
    TypeOK /\ Known /\ Numbered /\ Following /\ [Next]_vars => Following'
<1> SUFFICES ASSUME TypeOK, Known, Numbered, Following, [Next]_vars PROVE Following'
  OBVIOUS
<1>1. ASSUME NEW m, Follows(m) PROVE Follows(m)'
  BY <1>1, LoopsGrow DEF Follows
<1>2. Follows(Idle)'
  BY DEF Follows, Idle
<1>3. CASE \E m \in Messages : Send(m)
  BY <1>3, SendFollows
<1>4. CASE ~\E m \in Messages : Send(m)
  <2>1. ASSUME NEW i \in DOMAIN inbox' PROVE Follows(inbox[i])'
    <3>1. PICK j \in DOMAIN inbox : inbox'[i] = inbox[j]
      BY <1>4, <2>1, MessagesStep
    <3>2. Follows(inbox[j])
      BY DEF Following
    <3> QED
      BY <3>1, <3>2, LoopsGrow DEF Follows
  <2>2. Follows(server.msg)'
    <3>1. CASE Restart
      BY <3>1 DEF Restart, Started, Idle, Follows
    <3>2. CASE server'.msg = server.msg
      BY <3>2, LoopsGrow DEF Follows, Following
    <3>3. CASE \E j \in DOMAIN inbox : server'.msg = inbox[j]
      BY <3>3, LoopsGrow DEF Follows, Following
    <3> QED
      BY <3>1, <3>2, <3>3, MessagesStep
  <2> QED
    BY <2>1, <2>2 DEF Following
<1> QED
  BY <1>3, <1>4

\* A line that names an iteration names the right one at any time.
LEMMA FollowingHolds == Spec => []Following
<1>1. Init => Following
  BY DEF Init, Started, Idle, Following, Follows
<1> QED
  BY <1>1, FollowingStep, TypeCorrect, NumberedHolds, PTL DEF Spec

\* The place of one session in its chain.
Placed(s) ==
    LET loop == loops[s] IN
    IF loop.parent = NoSession
       THEN loop.root = s /\ loop.iteration = 1
       ELSE /\ loop.parent \in DOMAIN loops /\ loop.parent < s
            /\ loop.root = loops[loop.parent].root
            /\ loop.iteration = loops[loop.parent].iteration + 1

Chains == \A s \in DOMAIN loops : Placed(s)

\* A session is put at its place in its chain, and no later one moves it.
LEMMA ChainsStep ==
    TypeOK /\ Known /\ Numbered /\ Following /\ Chains /\ [Next]_vars => Chains'
<1> SUFFICES ASSUME TypeOK, Known, Numbered, Following, Chains, [Next]_vars PROVE Chains'
  OBVIOUS
<1>1. ASSUME NEW s \in DOMAIN loops PROVE Placed(s)'
  BY LoopsGrow DEF Chains, Placed
<1>2. ASSUME NEW n, NEW parent \in DOMAIN loops \cup {NoSession}, NEW iteration \in Nat,
             NEW l, n \notin DOMAIN loops, DOMAIN loops \subseteq 1..(n - 1), n \in Nat,
             iteration # 0 => /\ parent \in DOMAIN loops
                              /\ iteration = loops[parent].iteration + 1,
             l.iteration = LoopOf(n, parent, iteration).iteration,
             l.root = LoopOf(n, parent, iteration).root, l.parent = parent,
             loops' = WithLoop(n, l)
      PROVE  Placed(n)'
  <2>1. loops'[n] = l /\ \A s \in DOMAIN loops : loops'[s] = loops[s]
    BY <1>2 DEF WithLoop
  <2>2. NoSession \notin DOMAIN loops
    BY DEF TypeOK, Numbers, NoSession
  <2>3. CASE parent = NoSession
    BY <1>2, <2>1, <2>2, <2>3 DEF LoopOf, Placed
  <2>4. CASE parent \in DOMAIN loops
    <3>1. /\ loops'[n].parent = parent /\ parent # NoSession /\ parent < n
          /\ parent \in DOMAIN loops' /\ loops'[parent] = loops[parent]
      BY <1>2, <2>1, <2>2, <2>4 DEF WithLoop
    <3>2. /\ loops'[n].root = loops[parent].root
          /\ loops'[n].iteration = loops[parent].iteration + 1
      BY <1>2, <2>1, <2>2, <2>4 DEF LoopOf
    <3> QED
      BY <3>1, <3>2 DEF Placed
  <2> QED
    BY <1>2, <2>3, <2>4
<1>3. CASE CreateSession \/ OtherTerminal
  <2>1. PICK k \in Nat : Numbering(k)
    BY DEF Numbered
  <2>2. /\ NextNumber = k + 1 /\ k + 1 \notin DOMAIN loops
        /\ DOMAIN loops \subseteq 1..((k + 1) - 1)
    BY <1>3, <2>1, MadeNumbers DEF Numbering, Known
  <2>3. CASE CreateSession /\ server.msg.prev # Retrieved
    <3>1. server.msg.prev \in DOMAIN loops \cup {NoSession} /\ server.msg.iteration \in Nat
      BY <2>3 DEF Known, Refers, TypeOK, Inputs
    <3>2. loops' = WithLoop(k + 1, LoopOf(k + 1, server.msg.prev, server.msg.iteration))
      BY <2>2, <2>3 DEF CreateSession
    <3>3. Placed(k + 1)'
      BY <1>2, <2>2, <3>1, <3>2 DEF Following, Follows, LoopOf
    <3> QED
      BY <1>1, <3>2, <3>3 DEF Chains, WithLoop
  <2>4. CASE CreateSession /\ server.msg.prev = Retrieved
    <3>1. loops' = loops
      BY <2>4 DEF CreateSession
    <3> QED
      BY <1>1, <3>1 DEF Chains
  <2>5. CASE OtherTerminal
    <3> DEFINE l == [LoopOf(k + 1, NoSession, 0) EXCEPT !.rival = TRUE]
    <3>1. loops' = WithLoop(k + 1, l)
      BY <2>2, <2>5 DEF OtherTerminal
    <3>2. /\ l.iteration = LoopOf(k + 1, NoSession, 0).iteration
          /\ l.root = LoopOf(k + 1, NoSession, 0).root /\ l.parent = NoSession
      BY DEF LoopOf
    <3> HIDE DEF l
    <3>3. Placed(k + 1)'
      <4>1. k + 1 \in Nat /\ 0 \in Nat /\ NoSession \in DOMAIN loops \cup {NoSession}
        OBVIOUS
      <4> QED
        BY <1>2, <2>2, <3>1, <3>2, <4>1
    <3> QED
      BY <1>1, <3>1, <3>3 DEF Chains, WithLoop
  <2> QED
    BY <1>3, <2>3, <2>4, <2>5
<1>4. CASE ~CreateSession /\ ~OtherTerminal
  BY <1>1, <1>4, LoopsGrow DEF Chains
<1> QED
  BY <1>3, <1>4

\* A session that goes on from another has its root and the number after it, and one
\* that does not starts a chain, for any number of messages, other terminals and
\* restarts (_resolve_loop_context, build_next_iteration_request).
THEOREM SessionChainsCount == Spec => []ChainsCount
<1>1. Init => Chains
  BY DEF Init, Chains
<1>2. Chains => ChainsCount
  BY DEF Chains, Placed, ChainsCount
<1> QED
  BY <1>1, <1>2, ChainsStep, FollowingHolds, TypeCorrect, NumberedHolds, PTL DEF Spec

-----------------------------------------------------------------------------
(* The session a call is answered with *)

\* A call that was understood and not answered yet.
InCall == server.pc \in {"begin", "command", "working", "restore", "after"}

\* What came into the artifacts since the call began is its own session, or those
\* that other terminals made.
CallOK ==
    InCall =>
        /\ server.before \subseteq dirs
        /\ server.own = NoSession \/ server.own \in dirs \ server.before
        /\ server.pc \in {"begin", "command"} => server.own = NoSession
        /\ \A s \in dirs \ server.before :
              s = server.own \/ (s \in DOMAIN loops /\ loops[s].rival)

\* What is told of the session of one call, as in NamesOwnSession.
OwnNamed(r) ==
    (r.line = "call" /\ ~r.failed) =>
        /\ r.session = r.own \/ \E s \in DOMAIN loops \ r.before : loops[s].rival
        /\ r.session \notin r.before
        /\ r.session # NoSession => r.session >= r.own

\* A call makes one session; all else that comes is another terminal's.
LEMMA CallStep ==
    ~NestedRetrieved /\ TypeOK /\ Known /\ Numbered /\ CallOK /\ [Next]_vars => CallOK'
<1> SUFFICES ASSUME ~NestedRetrieved, TypeOK, Known, Numbered, CallOK, [Next]_vars, InCall'
             PROVE  /\ server'.before \subseteq dirs'
                    /\ server'.own = NoSession \/ server'.own \in dirs' \ server'.before
                    /\ server'.pc \in {"begin", "command"} => server'.own = NoSession
                    /\ \A s \in dirs' \ server'.before :
                          s = server'.own \/ (s \in DOMAIN loops' /\ loops'[s].rival)
  BY DEF CallOK
<1>a. server \in Processes /\ dirs \subseteq Numbers
  BY DEF TypeOK, Processes
<1>1. CASE BeginCall
  BY <1>1, <1>a DEF BeginCall, Processes
<1>2. CASE CreateSession \/ OtherTerminal
  <2>1. PICK k \in Nat : Numbering(k)
    BY DEF Numbered
  <2>2. dirs' = dirs \cup {k + 1} /\ k + 1 \notin dirs /\ NextNumber = k + 1
    BY <1>2, <2>1, MadeNumbers DEF Created
  <2>3. CASE CreateSession
    <3>1. /\ InCall /\ server.own = NoSession /\ server'.own = k + 1
          /\ server'.before = server.before /\ server'.pc \notin {"begin", "command"}
      <4>1. InCall /\ server.own = NoSession
        BY <2>3 DEF CreateSession, InCall, CallOK
      <4>2. server' \in {[server EXCEPT !.pc = "restore", !.own = k + 1],
                        [server EXCEPT !.pc = "working", !.own = k + 1]}
        BY <2>2, <2>3 DEF CreateSession
      <4> QED
        BY <1>a, <4>1, <4>2 DEF Processes
    <3>2. \A s \in dirs : s # NoSession
      BY <1>a DEF Numbers, NoSession
    <3> QED
      BY <2>2, <3>1, <3>2, LoopsGrow DEF CallOK
  <2>4. CASE OtherTerminal
    <3>1. server' = server /\ InCall
      BY <2>4 DEF OtherTerminal, InCall
    <3> DEFINE l == [LoopOf(k + 1, NoSession, 0) EXCEPT !.rival = TRUE]
    <3>2. loops' = WithLoop(k + 1, l)
      BY <2>2, <2>4 DEF OtherTerminal
    <3>3. l.rival
      BY DEF LoopOf
    <3> HIDE DEF l
    <3>4. k + 1 \in DOMAIN loops' /\ loops'[k + 1].rival
      BY <3>2, <3>3 DEF WithLoop
    <3> QED
      BY <2>2, <3>1, <3>4, LoopsGrow DEF CallOK
  <2> QED
    BY <1>2, <2>3, <2>4
<1>3. CASE SetEnvironment \/ EndCommand \/ RestoreEnvironment
  <2>1. /\ InCall /\ UNCHANGED <<dirs, loops>>
        /\ server'.own = server.own /\ server'.before = server.before
        /\ server'.pc \in {"begin", "command"} => server.pc \in {"begin", "command"}
    BY <1>a, <1>3 DEF SetEnvironment, EndCommand, RestoreEnvironment, InCall, Processes
  <2> QED
    BY <2>1 DEF CallOK
<1>4. CASE UNCHANGED <<server, dirs, loops>>
  BY <1>4 DEF CallOK, InCall
<1>5. CASE \/ DieOfArray \/ AnswerCall \/ AnswerTorn \/ SetEnvironmentFails \/ EndInput
           \/ Kill \/ Restart
  <2>1. server'.pc \in {"down", "read", "ended"}
    BY <1>a, <1>5 DEF DieOfArray, AnswerCall, AnswerTorn, SetEnvironmentFails, EndInput, Kill,
       Restart, Started, Processes
  <2> QED
    BY <2>1 DEF InCall
<1> QED
  BY <1>1, <1>2, <1>3, <1>4, <1>5 DEF Next, Serve, Send, AnswerAtOnce, Ignore, vars

\* The answer of a call names its session or shows the other terminal.
LEMMA AnswerNames ==
    ASSUME TypeOK, Known, CallOK, AnswerCall
    PROVE  OwnNamed(Answer(server.msg, Detected(server.msg.line)))
<1> DEFINE new == dirs \ server.before
           r == Answer(server.msg, Detected(server.msg.line))
<1> SUFFICES ASSUME r.line = "call" PROVE OwnNamed(r)
  BY DEF OwnNamed
<1>1. r.session = Newest(new) /\ r.own = server.own /\ r.before = server.before
  BY DEF Answer, Detected, Latest
<1>2. InCall
  BY DEF AnswerCall, InCall
<1>3. Newest(new) \in new \cup {NoSession} /\ \A y \in new : y <= Newest(new)
  <2>1. PICK n \in Nat : \A s \in dirs : s <= n
    BY DEF Known
  <2>2. new \in SUBSET Nat
    BY DEF TypeOK, Numbers
  <2> QED
    BY <2>1, <2>2, NewestIsMember
<1>4. \A y \in new : y \in Nat /\ y # NoSession
  BY DEF TypeOK, Numbers, NoSession
<1>5. NoSession \notin server.before
  BY DEF TypeOK, Numbers, NoSession
<1> HIDE DEF r
<1>6. server.own = NoSession \/ server.own \in new
  BY <1>2 DEF CallOK
<1>7. Newest(new) = server.own \/ \E s \in DOMAIN loops \ server.before : loops[s].rival
  <2>1. CASE Newest(new) \in new
    BY <1>2, <2>1 DEF CallOK
  <2>2. CASE Newest(new) = NoSession /\ server.own \in new
    BY <1>3, <1>4, <2>2 DEF NoSession
  <2> QED
    BY <1>3, <1>6, <2>1, <2>2
<1>8. Newest(new) # NoSession => Newest(new) >= server.own
  BY <1>3, <1>4, <1>6 DEF NoSession
<1> QED
  BY <1>1, <1>3, <1>5, <1>7, <1>8 DEF OwnNamed

\* What was said of a session stays true when more are made.
LEMMA NamesStep ==
    TypeOK /\ Known /\ Numbered /\ CallOK /\ NamesOwnSession /\ [Next]_vars
      => NamesOwnSession'
<1> SUFFICES ASSUME TypeOK, Known, Numbered, CallOK, NamesOwnSession, [Next]_vars,
                    NEW i \in DOMAIN outbox'
             PROVE  OwnNamed(outbox[i])'
  BY DEF NamesOwnSession, OwnNamed
<1>1. CASE i \in DOMAIN outbox /\ outbox'[i] = outbox[i]
  <2>1. OwnNamed(outbox[i])
    BY <1>1 DEF NamesOwnSession, OwnNamed
  <2> QED
    BY <1>1, <2>1, LoopsGrow DEF OwnNamed
<1>2. ASSUME NEW y \in Responses, Respond(y), UNCHANGED loops, OwnNamed(y)
      PROVE  OwnNamed(outbox[i])'
  <2>1. outbox'[i] = y \/ (i \in DOMAIN outbox /\ outbox'[i] = outbox[i])
    BY <1>2, AppendTypes DEF Respond, TypeOK
  <2> QED
    BY <1>1, <1>2, <2>1 DEF OwnNamed
<1>a. server.msg \in Inputs /\ NoSession \in Sessions
  BY DEF TypeOK, Processes, Sessions
<1>3. CASE AnswerAtOnce
  <2>1. /\ Head(inbox) \in Inputs /\ UNCHANGED loops
        /\ Head(inbox).line # "call" /\ Respond(Answer(Head(inbox), NoSession))
    BY <1>3, HeadTypes DEF AnswerAtOnce
  <2>2. Answer(Head(inbox), NoSession) \in Responses
    BY <1>a, <2>1, AnswerTypes
  <2>3. OwnNamed(Answer(Head(inbox), NoSession))
    BY <2>1 DEF Answer, OwnNamed
  <2> QED
    BY <1>2, <2>1, <2>2, <2>3
<1>4. CASE AnswerCall
  <2>1. Answer(server.msg, Detected(server.msg.line)) \in Responses
    BY <1>a, DetectedTypes, AnswerTypes
  <2> QED
    BY <1>2, <1>4, <2>1, AnswerNames DEF AnswerCall
<1>5. CASE AnswerTorn \/ SetEnvironmentFails
  <2>1. [Answer(server.msg, NoSession) EXCEPT !.failed = TRUE] \in Responses
    BY <1>a, AnswerTypes
  <2>2. OwnNamed([Answer(server.msg, NoSession) EXCEPT !.failed = TRUE])
    BY DEF Answer, OwnNamed
  <2> QED
    BY <1>2, <1>5, <2>1, <2>2 DEF AnswerTorn, SetEnvironmentFails
<1>6. CASE Restart
  BY <1>6 DEF Restart
<1>7. CASE UNCHANGED outbox
  BY <1>1, <1>7
<1> QED
  BY <1>3, <1>4, <1>5, <1>6, <1>7
     DEF Next, Serve, Send, Ignore, OtherTerminal, vars, DieOfArray, Kill, BeginCall, EndInput,
         SetEnvironment, CreateSession, EndCommand, RestoreEnvironment

\* Where the retrieved files are kept outside of the artifacts, a call is answered with
\* its own session unless another terminal made one while it ran, and never with one
\* that was there before (execute_agent_request).
THEOREM OwnSessionsNamed == ~NestedRetrieved => (Spec => []NamesOwnSession)
<1> SUFFICES ASSUME ~NestedRetrieved PROVE Spec => []NamesOwnSession
  OBVIOUS
<1>1. Init => CallOK /\ NamesOwnSession
  BY DEF Init, Started, CallOK, InCall, NamesOwnSession
<1>2. TypeOK /\ Known /\ Numbered /\ CallOK /\ [Next]_vars => CallOK'
  BY CallStep
<1> QED
  BY <1>1, <1>2, NamesStep, TypeCorrect, NumberedHolds, PTL DEF Spec

-----------------------------------------------------------------------------
(* The order of the answers *)

\* The lines that wait are in the order of their numbers ...
Waiting ==
    /\ \A i \in DOMAIN inbox : inbox[i].id <= sent
    /\ \A i, j \in DOMAIN inbox : i < j /\ inbox[j].id # 0 => inbox[i].id < inbox[j].id

\* ... after those that were answered ...
Earlier ==
    \A j \in DOMAIN outbox :
        /\ outbox[j].id <= sent
        /\ \A i \in DOMAIN inbox : inbox[i].id # 0 => outbox[j].id < inbox[i].id

\* ... and between the two is the call that is dealt with.
Dealt ==
    InCall =>
        /\ server.msg.line \in {"call", "latest"}
        /\ server.msg.id <= sent
        /\ \A i \in DOMAIN inbox : inbox[i].id # 0 => server.msg.id < inbox[i].id
        /\ server.msg.id # 0 => \A j \in DOMAIN outbox : outbox[j].id < server.msg.id

Ordered == Waiting /\ Earlier /\ Dealt

\* What is read is the first line, the others follow.
LEMMA TailIs ==
    ASSUME TypeOK, inbox # <<>>
    PROVE  /\ 1 \in DOMAIN inbox /\ Head(inbox) = inbox[1]
           /\ \A i \in DOMAIN Tail(inbox) :
                 /\ i + 1 \in DOMAIN inbox /\ i + 1 > 1
                 /\ Tail(inbox)[i] = inbox[i + 1]
           /\ \A i, j \in DOMAIN Tail(inbox) : i < j => i + 1 < j + 1
  BY DEF TypeOK

\* Numbers are natural.
LEMMA IdsAreNumbers ==
    ASSUME TypeOK
    PROVE  /\ \A i \in DOMAIN inbox : inbox[i].id \in Nat
           /\ \A i \in DOMAIN outbox : outbox[i].id \in Nat
           /\ server.msg.id \in Nat /\ sent \in Nat
<1>1. \A i \in DOMAIN inbox : inbox[i] \in Inputs
  BY DEF TypeOK
<1>2. \A i \in DOMAIN outbox : outbox[i] \in Responses
  BY DEF TypeOK
<1>3. server.msg \in Inputs
  BY DEF TypeOK
<1>4. \A m \in Inputs : m.id \in Nat
  BY ConstantsAssumption DEF Inputs
<1>5. \A r \in Responses : r.id \in Nat
  BY ConstantsAssumption DEF Responses
<1> QED
  BY <1>1, <1>2, <1>3, <1>4, <1>5, ConstantsAssumption DEF TypeOK

\* A line that is written comes last.
LEMMA SendOrdered ==
    ASSUME TypeOK, Known, Ordered, NEW m \in Messages, Send(m) PROVE Ordered'
<1>1. PICK x : /\ inbox' = Append(inbox, x) /\ x.line = m.line
               /\ x.id = IF m.named /\ m.line # "garbage" THEN sent + 1 ELSE 0
  BY DEF Send
<1>2. inbox \in Seq(Inputs) /\ inbox' \in Seq(Inputs) /\ sent \in Nat
  BY SendTypes, IdsAreNumbers DEF TypeOK
<1>3. /\ sent' = sent + 1 /\ UNCHANGED <<server, outbox>>
  BY DEF Send
<1>4. x.id <= sent' /\ x.id \in Nat
      /\ \A n \in Nat : n <= sent /\ x.id # 0 => n < x.id
  BY <1>1, <1>2, <1>3
<1>5. \A i \in DOMAIN inbox' :
         \/ i \in DOMAIN inbox /\ inbox'[i] = inbox[i]
         \/ inbox'[i] = x /\ \A j \in DOMAIN inbox : j < i
  BY <1>1, <1>2
<1>6. \A i, j \in DOMAIN inbox' : i < j => i \in DOMAIN inbox
  BY <1>1, <1>2
<1>7. Waiting'
  <2>1. ASSUME NEW i \in DOMAIN inbox' PROVE inbox'[i].id <= sent'
    BY <1>2, <1>3, <1>4, <1>5, IdsAreNumbers DEF Ordered, Waiting
  <2>2. ASSUME NEW i \in DOMAIN inbox', NEW j \in DOMAIN inbox', i < j, inbox'[j].id # 0
        PROVE  inbox'[i].id < inbox'[j].id
    <3>1. i \in DOMAIN inbox /\ inbox'[i] = inbox[i]
      BY <1>1, <1>2, <1>6, <2>2
    <3> QED
      BY <1>4, <1>5, <2>2, <3>1, IdsAreNumbers DEF Ordered, Waiting
  <2> QED
    BY <2>1, <2>2 DEF Waiting
<1>8. Earlier'
  BY <1>2, <1>3, <1>4, <1>5, IdsAreNumbers DEF Ordered, Earlier
<1>9. Dealt'
  BY <1>2, <1>3, <1>4, <1>5, IdsAreNumbers DEF Ordered, Dealt, InCall
<1> QED
  BY <1>7, <1>8, <1>9 DEF Ordered

\* Each step keeps the order.
LEMMA OrderedStep == TypeOK /\ Known /\ Ordered /\ [Next]_vars => Ordered'
<1> SUFFICES ASSUME TypeOK, Known, Ordered, [Next]_vars PROVE Ordered'
  OBVIOUS
<1>a. server \in Processes
  BY DEF TypeOK, Processes
<1>1. ASSUME inbox # <<>>, inbox' = Tail(inbox), sent' = sent PROVE Waiting'
  BY <1>1, TailIs DEF Ordered, Waiting
<1>2. ASSUME NEW y \in Responses, Respond(y), y.id <= sent', sent' = sent,
             \A i \in DOMAIN inbox' : inbox'[i].id # 0 => y.id < inbox'[i].id,
             \A i \in DOMAIN inbox' : \E j \in DOMAIN inbox : inbox'[i] = inbox[j]
      PROVE  Earlier'
  <2>1. \A j \in DOMAIN outbox' :
           outbox'[j] = y \/ (j \in DOMAIN outbox /\ outbox'[j] = outbox[j])
    BY <1>2, AppendTypes DEF Respond, TypeOK
  <2> QED
    BY <1>2, <2>1 DEF Ordered, Earlier
<1>3. CASE AnswerAtOnce
  <2>1. /\ inbox # <<>> /\ inbox' = Tail(inbox) /\ UNCHANGED <<sent, server>>
        /\ Respond(Answer(Head(inbox), NoSession)) /\ server.pc = "read"
    BY <1>3 DEF AnswerAtOnce
  <2>2. Answer(Head(inbox), NoSession) \in Responses
    BY <2>1, HeadTypes, AnswerTypes DEF Sessions
  <2>3. Answer(Head(inbox), NoSession).id = inbox[1].id
    BY <2>1, TailIs DEF Answer
  <2>4. \A i \in DOMAIN inbox' : inbox'[i].id # 0 => inbox[1].id < inbox'[i].id
    BY <2>1, TailIs DEF Ordered, Waiting
  <2>5. \A i \in DOMAIN inbox' : \E j \in DOMAIN inbox : inbox'[i] = inbox[j]
    BY <2>1, TailIs
  <2>6. inbox[1].id <= sent
    BY <2>1, TailIs DEF Ordered, Waiting
  <2>7. Earlier'
    BY <1>2, <2>1, <2>2, <2>3, <2>4, <2>5, <2>6
  <2> QED
    BY <1>1, <2>1, <2>7 DEF Ordered, Dealt, InCall
<1>4. CASE Ignore \/ BeginCall
  <2>1. /\ inbox # <<>> /\ inbox' = Tail(inbox) /\ UNCHANGED <<sent, outbox>>
        /\ server.pc = "read"
    BY <1>4 DEF Ignore, BeginCall
  <2>2. Earlier'
    BY <2>1, TailIs DEF Ordered, Earlier
  <2>3. Dealt'
    <3>1. CASE Ignore
      BY <2>1, <3>1 DEF Ignore, Dealt, InCall
    <3>2. CASE BeginCall
      <4>1. server'.msg = inbox[1] /\ inbox[1].line \in {"call", "latest"}
        BY <1>a, <2>1, <3>2, TailIs DEF BeginCall, Processes
      <4>2. inbox[1].id <= sent
        BY <2>1, <4>1, TailIs DEF Ordered, Waiting
      <4>3. inbox[1].id # 0 => \A j \in DOMAIN outbox : outbox[j].id < inbox[1].id
        BY <2>1, <4>2, TailIs DEF Ordered, Earlier
      <4>4. \A i \in DOMAIN inbox' : inbox'[i].id # 0 => inbox[1].id < inbox'[i].id
        BY <2>1, TailIs DEF Ordered, Waiting
      <4> QED
        BY <2>1, <4>1, <4>2, <4>3, <4>4 DEF Dealt
    <3> QED
      BY <1>4, <3>1, <3>2
  <2> QED
    BY <1>1, <2>1, <2>2, <2>3 DEF Ordered
<1>5. CASE AnswerCall \/ AnswerTorn \/ SetEnvironmentFails
  <2>1. PICK y \in Responses : Respond(y) /\ y.id = server.msg.id
    <3>1. server.msg \in Inputs /\ Detected(server.msg.line) \in Sessions
          /\ NoSession \in Sessions
      BY DetectedTypes DEF TypeOK, Sessions
    <3>2. /\ Answer(server.msg, Detected(server.msg.line)) \in Responses
          /\ [Answer(server.msg, NoSession) EXCEPT !.failed = TRUE] \in Responses
      BY <3>1, AnswerTypes
    <3>3. /\ Answer(server.msg, Detected(server.msg.line)).id = server.msg.id
          /\ [Answer(server.msg, NoSession) EXCEPT !.failed = TRUE].id = server.msg.id
      BY DEF Answer
    <3> QED
      BY <1>5, <3>2, <3>3 DEF AnswerCall, AnswerTorn, SetEnvironmentFails
  <2>2. UNCHANGED <<inbox, sent>> /\ InCall /\ server'.pc = "read"
    BY <1>a, <1>5 DEF AnswerCall, AnswerTorn, SetEnvironmentFails, InCall, Processes
  <2>3. Earlier'
    BY <1>2, <2>1, <2>2 DEF Ordered, Dealt
  <2> QED
    BY <2>2, <2>3 DEF Ordered, Waiting, Dealt, InCall
<1>6. CASE \/ SetEnvironment \/ CreateSession \/ EndCommand \/ RestoreEnvironment
           \/ OtherTerminal \/ DieOfArray \/ EndInput \/ Kill \/ UNCHANGED vars
  <2>1. UNCHANGED <<inbox, sent, outbox>>
    BY <1>6 DEF SetEnvironment, CreateSession, EndCommand, RestoreEnvironment,
       OtherTerminal, DieOfArray, EndInput, Kill, vars
  <2>2. InCall' => InCall /\ server'.msg = server.msg
    BY <1>a, <1>6 DEF SetEnvironment, CreateSession, EndCommand, RestoreEnvironment,
       OtherTerminal, DieOfArray, EndInput, Kill, vars, InCall, Processes
  <2>3. Dealt'
    BY <2>1, <2>2 DEF Ordered, Dealt
  <2> QED
    BY <2>1, <2>3 DEF Ordered, Waiting, Earlier
<1>7. CASE Restart
  BY <1>7 DEF Restart, Started, Ordered, Waiting, Earlier, Dealt, InCall
<1> QED
  BY <1>3, <1>4, <1>5, <1>6, <1>7, SendOrdered DEF Next, Serve

\* The lines are in order at any time.
LEMMA OrderedHolds == Spec => []Ordered
<1>1. Init => Ordered
  BY DEF Init, Started, Ordered, Waiting, Earlier, Dealt, InCall
<1> QED
  BY <1>1, OrderedStep, TypeCorrect, PTL DEF Spec

\* The answers with a null id, and the lines that are due one.
Nulls == {i \in DOMAIN outbox : outbox[i].id = 0}
Broken == {i \in Due : done[i].id = 0}

\* A set of places of a sequence with one place more.
LEMMA OneMore ==
    ASSUME NEW n \in Nat, NEW S \in SUBSET (1..n)
    PROVE  Cardinality(S \cup {n + 1}) = Cardinality(S) + 1
<1>1. IsFiniteSet(S)
  <2>1. IsFiniteSet(1..n)
    BY FS_Interval
  <2> QED
    BY <2>1, FS_Subset
<1>2. n + 1 \notin S
  OBVIOUS
<1> QED
  BY <1>1, <1>2, FS_AddElement

\* A line that is answered adds its number to those that are dealt with and to those
\* that are answered.
LEMMA AnswerInOrder ==
    ASSUME TypeOK, AnsweredInOrder, NEW m \in Inputs, NEW y \in Responses,
           Respond(y), done' = Append(done, m), y.id = m.id,
           m.id # 0 => \A i \in DOMAIN outbox : outbox[i].id < m.id,
           ~Ignored(m)
    PROVE  AnsweredInOrder'
<1> DEFINE p == Len(outbox)
           q == Len(done)
<1>1. /\ p \in Nat /\ q \in Nat /\ DOMAIN outbox = 1..p /\ DOMAIN done = 1..q
      /\ DOMAIN outbox' = 1..(p + 1) /\ DOMAIN done' = 1..(q + 1)
      /\ outbox'[p + 1] = y /\ done'[q + 1] = m
      /\ \A i \in 1..p : outbox'[i] = outbox[i]
      /\ \A i \in 1..q : done'[i] = done[i]
  BY DEF TypeOK, Respond
<1> HIDE DEF p, q
<1>2. 1..(p + 1) = (1..p) \cup {p + 1} /\ 1..(q + 1) = (1..q) \cup {q + 1}
  BY <1>1
<1>b. Due' = Due \cup {q + 1} /\ Due \subseteq 1..q
  BY <1>1, <1>2 DEF Due, Ignored
<1>3. /\ Ids(outbox, DOMAIN outbox)' = Ids(outbox, DOMAIN outbox) \cup ({y.id} \ {0})
      /\ Ids(done, Due)' = Ids(done, Due) \cup ({m.id} \ {0})
  <2> HIDE DEF Due
  <2>1. Ids(outbox, DOMAIN outbox)' = {outbox'[i].id : i \in DOMAIN outbox'} \ {0}
        /\ Ids(done, Due)' = {done'[i].id : i \in Due'} \ {0}
    BY DEF Ids
  <2> QED
    BY <1>1, <1>2, <1>b, <2>1 DEF Ids
<1>4. ASSUME NEW i \in DOMAIN outbox', NEW j \in DOMAIN outbox', i < j, outbox'[j].id # 0
      PROVE  outbox'[i].id < outbox'[j].id
  <2>1. CASE j = p + 1
    BY <1>1, <1>4, <2>1
  <2>2. CASE j # p + 1
    BY <1>1, <1>2, <1>4, <2>2 DEF AnsweredInOrder
  <2> QED
    BY <2>1, <2>2
<1>5. Cardinality(Nulls') = Cardinality(Broken')
  <2>1. Nulls \in SUBSET (1..p) /\ Broken \in SUBSET (1..q)
    BY <1>1, <1>b DEF Nulls, Broken
  <2>2. Cardinality(Nulls) = Cardinality(Broken)
    BY DEF AnsweredInOrder, Nulls, Broken
  <2>3. CASE m.id = 0
    <3>1. Nulls' = Nulls \cup {p + 1} /\ Broken' = Broken \cup {q + 1}
      BY <1>1, <1>2, <1>b, <2>3, ZenonT(30) DEF Nulls, Broken
    <3> QED
      BY <1>1, <2>1, <2>2, <3>1, OneMore
  <2>4. CASE m.id # 0
    <3>1. Nulls' = Nulls /\ Broken' = Broken
      BY <1>1, <1>2, <1>b, <2>4 DEF Nulls, Broken
    <3> QED
      BY <2>2, <3>1
  <2> QED
    BY <2>3, <2>4
<1> QED
  BY <1>3, <1>4, <1>5 DEF AnsweredInOrder, Nulls, Broken

\* Each step answers the line that is next, or none.
LEMMA InOrderStep ==
    TypeOK /\ Known /\ Ordered /\ AnsweredInOrder /\ [Next]_vars => AnsweredInOrder'
<1> SUFFICES ASSUME TypeOK, Known, Ordered, AnsweredInOrder, [Next]_vars
             PROVE  AnsweredInOrder'
  OBVIOUS
<1>1. CASE AnswerAtOnce
  <2> DEFINE m == Head(inbox)
  <2>1. /\ inbox # <<>> /\ done' = Append(done, m) /\ Respond(Answer(m, NoSession))
        /\ ~Ignored(m)
    BY <1>1 DEF AnswerAtOnce
  <2>2. m \in Inputs /\ m = inbox[1] /\ 1 \in DOMAIN inbox
    BY <2>1, HeadTypes, TailIs
  <2>3. m.id # 0 => \A i \in DOMAIN outbox : outbox[i].id < m.id
    BY <2>1, <2>2 DEF Ordered, Waiting, Earlier
  <2>4. Answer(m, NoSession) \in Responses /\ Answer(m, NoSession).id = m.id
    BY <2>2, AnswerTypes DEF Answer, Sessions
  <2> HIDE DEF m
  <2> QED
    BY <2>1, <2>2, <2>3, <2>4, AnswerInOrder
<1>2. CASE Ignore
  <2> DEFINE m == Head(inbox)
             q == Len(done)
  <2>1. /\ inbox # <<>> /\ done' = Append(done, m) /\ UNCHANGED outbox /\ Ignored(m)
    BY <1>2 DEF Ignore
  <2>2. m \in Inputs
    BY <2>1, HeadTypes
  <2>3. /\ DOMAIN done = 1..q /\ DOMAIN done' = 1..(q + 1) /\ done'[q + 1] = m
        /\ q \in Nat /\ \A i \in 1..q : done'[i] = done[i]
    BY <2>1, <2>2 DEF TypeOK
  <2> HIDE DEF m, q
  <2>4. 1..(q + 1) = (1..q) \cup {q + 1}
    BY <2>3
  <2>5. Due' = Due /\ Due \subseteq 1..q
    BY <2>1, <2>2, <2>3, <2>4 DEF Due, Ignored
  <2>6. Ids(done, Due)' = Ids(done, Due) /\ Broken' = Broken
    BY <2>3, <2>5 DEF Ids, Broken
  <2> QED
    BY <2>1, <2>6 DEF AnsweredInOrder, Broken, Ids
<1>3. CASE AnswerCall \/ AnswerTorn \/ SetEnvironmentFails
  <2>1. PICK y \in Responses :
              Respond(y) /\ y.id = server.msg.id /\ done' = Append(done, server.msg)
    <3>1. server.msg \in Inputs /\ Detected(server.msg.line) \in Sessions
          /\ NoSession \in Sessions
      BY DetectedTypes DEF TypeOK, Sessions
    <3>2. /\ Answer(server.msg, Detected(server.msg.line)) \in Responses
          /\ [Answer(server.msg, NoSession) EXCEPT !.failed = TRUE] \in Responses
      BY <3>1, AnswerTypes
    <3>3. /\ Answer(server.msg, Detected(server.msg.line)).id = server.msg.id
          /\ [Answer(server.msg, NoSession) EXCEPT !.failed = TRUE].id = server.msg.id
      BY DEF Answer
    <3> QED
      BY <1>3, <3>2, <3>3 DEF AnswerCall, AnswerTorn, SetEnvironmentFails
  <2>2. server.msg \in Inputs /\ InCall
    BY <1>3 DEF AnswerCall, AnswerTorn, SetEnvironmentFails, InCall, TypeOK
  <2>3. /\ server.msg.id # 0 => \A i \in DOMAIN outbox : outbox[i].id < server.msg.id
        /\ ~Ignored(server.msg)
    BY <2>2 DEF Ordered, Dealt, Ignored
  <2> QED
    BY <2>1, <2>2, <2>3, AnswerInOrder
<1>4. CASE Restart
  <2>1. outbox' = <<>> /\ done' = <<>>
    BY <1>4 DEF Restart
  <2>2. Nulls' = Broken'
    BY <2>1 DEF Nulls, Broken, Due
  <2>3. Ids(outbox, DOMAIN outbox)' = Ids(done, Due)'
    BY <2>1 DEF Ids, Due
  <2>4. \A i, j \in DOMAIN outbox' : FALSE
    BY <2>1
  <2>5. Cardinality(Nulls') = Cardinality(Broken')
    BY <2>2
  <2> QED
    BY <2>3, <2>4, <2>5 DEF AnsweredInOrder, Nulls, Broken
<1>5. CASE UNCHANGED <<outbox, done>>
  BY <1>5 DEF AnsweredInOrder, Ids, Due
<1> QED
  BY <1>1, <1>2, <1>3, <1>4, <1>5
     DEF Next, Serve, Send, OtherTerminal, vars, DieOfArray, Kill, BeginCall, EndInput,
         SetEnvironment, CreateSession, EndCommand, RestoreEnvironment

\* Each request the server is through with and does not ignore is answered once and in
\* the order they came, and each one without an id with a null id, for any number of them
\* (serve_stdio, dispatch_mcp_request).
THEOREM AnswersInOrder == Spec => []AnsweredInOrder
<1>1. Init => AnsweredInOrder
  <2> SUFFICES ASSUME Init PROVE AnsweredInOrder
    OBVIOUS
  <2>1. outbox = <<>> /\ done = <<>>
    BY DEF Init
  <2>2. {i \in DOMAIN outbox : outbox[i].id = 0}
          = {i \in Due : done[i].id = 0}
    BY <2>1 DEF Due
  <2> QED
    BY <2>1, <2>2 DEF AnsweredInOrder, Ids, Due
<1> QED
  BY <1>1, InOrderStep, OrderedHolds, TypeCorrect, PTL DEF Spec
=============================================================================
