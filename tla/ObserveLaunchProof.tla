------------------------- MODULE ObserveLaunchProof -------------------------
(***************************************************************************)
(* What ObserveLaunch promises of the marker of a launch, for any number   *)
(* of callers, launches and crashes. The argument: only a claim replaces a *)
(* marker, and it does so when the marker is dead; whoever removes one has *)
(* the token of it and ends its call in the same step.                     *)
(***************************************************************************)
EXTENDS ObserveLaunch, TLAPS

Tokens == [token : Launches, launcher : Callers, window : Launches \cup {None},
           aged : BOOLEAN]

\* A marker of a launch has its token, and the absence of one has none.
LEMMA MarkerKinds ==
    /\ NoMarker.token = None /\ None \notin Launches /\ NoMarker \notin Tokens
    /\ \A m \in Tokens : m.token \in Launches
  BY NamesDiffer DEF NoMarker, Tokens

\* The absence of a marker stays so when no window is written into it.
LEMMA NoWindow == [NoMarker EXCEPT !.window = None] = NoMarker
<1> DEFINE R == [token : {None}, launcher : {None}, window : {None}, aged : {FALSE}]
<1>1. NoMarker \in R
  BY DEF NoMarker
<1>2. ASSUME NEW m \in R PROVE m = NoMarker
  <2>1. m.token = None /\ m.launcher = None /\ m.window = None /\ m.aged = FALSE
    OBVIOUS
  <2>2. m = [token |-> m.token, launcher |-> m.launcher, window |-> m.window,
             aged |-> m.aged]
    OBVIOUS
  <2> QED
    BY <2>1, <2>2 DEF NoMarker
<1>3. [NoMarker EXCEPT !.window = None] \in R
  BY <1>1
<1> QED
  BY <1>2, <1>3

\* The end of a call.
LEMMA EndsTypes ==
    ASSUME TypeOK, NEW c \in Callers, NEW from \in PCs, Ends(c, from)
    PROVE  /\ pc' \in [Callers -> PCs] /\ follows' \in [Callers -> Launches \cup {None}]
           /\ ours' \subseteq Callers /\ snapshot' \subseteq Callers
  BY DEF TypeOK, Ends, Goto, PCs

\* A step of a call.
LEMMA GotoTypes ==
    ASSUME TypeOK, NEW c \in Callers, NEW from \in PCs, NEW to \in PCs, Goto(c, from, to)
    PROVE  pc' \in [Callers -> PCs]
  BY DEF TypeOK, Goto

\* The release of a marker.
LEMMA ReleaseTypes ==
    ASSUME TypeOK, NEW c \in Callers, ReleaseOurs(c)
    PROVE  marker' \in Tokens \cup {NoMarker}
  BY DEF TypeOK, ReleaseOurs, Release, Tokens

\* A call keeps the types.
LEMMA ContinueTypes ==
    ASSUME TypeOK, NEW c \in Callers, Call(c) \/ Continue(c) \/ Exit(c) PROVE TypeOK'
<1> DEFINE here == {"idle", "look", "claim", "launch", "update", "wait", "status", "check",
                    "relook", "closed", "late", "dead"}
<1> USE DEF windows, locals
<1>a. \A x \in here : x \in PCs
  BY DEF PCs
<1>1. CASE Call(c)
  BY <1>1, <1>a, GotoTypes DEF Call, TypeOK
<1>2. CASE Look(c)
  BY <1>2, <1>a, GotoTypes, EndsTypes DEF Look, TypeOK
<1>3. CASE ClaimFollows(c)
  <2>1. marker.token \in Launches
    BY <1>3, MarkerKinds DEF ClaimFollows, MarkerLive, TypeOK, Tokens
  <2> QED
    BY <1>3, <1>a, <2>1, GotoTypes DEF ClaimFollows, TypeOK
<1>4. CASE ClaimMakes(c)
  <2>1. PICK l \in Launches :
          /\ marker' = [token |-> l, launcher |-> c, window |-> None, aged |-> FALSE]
          /\ win' = [win EXCEPT ![l] = "none"]
          /\ status' = status \ {l}
          /\ follows' = [follows EXCEPT ![c] = l]
          /\ ours' = ours \cup {c}
          /\ UNCHANGED <<broker, protected, snapshot, crashes>>
    BY <1>4 DEF ClaimMakes, Launch
  <2>2. pc' \in [Callers -> PCs]
    BY <1>4, <1>a, GotoTypes DEF ClaimMakes
  <2> QED
    BY <2>1, <2>2 DEF TypeOK, WinStates
<1>5. CASE Open(c)
  <2>1. win' \in [Launches -> WinStates]
    BY <1>5 DEF Open, TypeOK, WinStates
  <2> QED
    BY <1>5, <1>a, <2>1, GotoTypes DEF Open, TypeOK
<1>6. CASE OpenFails(c)
  BY <1>6, <1>a, EndsTypes, ReleaseTypes DEF OpenFails, TypeOK, Tokens
<1>7. CASE Update(c)
  <2>1. marker' \in Tokens \cup {NoMarker}
    <3>1. CASE marker.token = follows[c] /\ marker \in Tokens
      <4>1. follows[c] \in Launches
        BY <3>1, MarkerKinds
      <4> QED
        BY <1>7, <3>1, <4>1 DEF Update, Tokens
    <3>2. CASE marker.token = follows[c] /\ marker = NoMarker
      <4>1. marker' = [NoMarker EXCEPT !.window = None]
        BY <1>7, <3>2, MarkerKinds DEF Update
      <4> QED
        BY <4>1, NoWindow
    <3>3. CASE marker.token # follows[c]
      BY <1>7, <3>3 DEF Update, TypeOK, Tokens
    <3> QED
      BY <3>1, <3>2, <3>3 DEF TypeOK, Tokens
  <2> QED
    BY <1>7, <1>a, <2>1, GotoTypes DEF Update, TypeOK, Tokens
<1>8. CASE WaitDone(c)
  BY <1>8, <1>a, EndsTypes, ReleaseTypes DEF WaitDone, TypeOK, Tokens
<1>9. CASE WaitLooks(c)
  BY <1>9, <1>a, GotoTypes DEF WaitLooks, TypeOK
<1>10. CASE StatusFails(c)
  BY <1>10, <1>a, EndsTypes, ReleaseTypes DEF StatusFails, TypeOK, Tokens
<1>11. CASE StatusEmpty(c)
  BY <1>11, <1>a, GotoTypes DEF StatusEmpty, TypeOK
<1>12. CASE CheckGone(c)
  BY <1>12, <1>a, EndsTypes, ReleaseTypes DEF CheckGone, TypeOK, Tokens
<1>13. CASE CheckAbandoned(c)
  BY <1>13, <1>a, GotoTypes DEF CheckAbandoned, TypeOK
<1>14. CASE CheckAgain(c)
  BY <1>14, <1>a, GotoTypes DEF CheckAgain, TypeOK
<1>15. CASE Relook(c)
  BY <1>15, <1>a, GotoTypes, EndsTypes DEF Relook, TypeOK
<1>16. CASE RaiseClosed(c)
  BY <1>16, <1>a, EndsTypes DEF RaiseClosed, TypeOK
<1>17. CASE Late(c)
  BY <1>17, <1>a, EndsTypes DEF Late, TypeOK
<1>18. CASE Exit(c)
  BY <1>18, Bounds DEF Exit, TypeOK, PCs
<1> QED
  BY <1>1, <1>2, <1>3, <1>4, <1>5, <1>6, <1>7, <1>8, <1>9, <1>10, <1>11, <1>12, <1>13,
     <1>14, <1>15, <1>16, <1>17, <1>18 DEF Continue

\* The windows keep them, too.
LEMMA WindowTypes ==
    ASSUME TypeOK,
           \/ \E l \in Launches : WindowServes(l) \/ WindowFails(l) \/ WindowEnds(l)
           \/ PlainEnds \/ Age
    PROVE  TypeOK'
<1> USE DEF TypeOK, locals, windows, WinStates
<1>1. ASSUME NEW l \in Launches, WindowServes(l) PROVE TypeOK'
  BY <1>1 DEF WindowServes
<1>2. ASSUME NEW l \in Launches, WindowFails(l) PROVE TypeOK'
  BY <1>2 DEF WindowFails
<1>3. ASSUME NEW l \in Launches, WindowEnds(l) PROVE TypeOK'
  BY <1>3 DEF WindowEnds
<1>4. CASE PlainEnds
  BY <1>4 DEF PlainEnds
<1>5. CASE Age
  BY <1>5 DEF Age
<1> QED
  BY <1>1, <1>2, <1>3, <1>4, <1>5

\* Types, for any number of callers, launches and crashes.
THEOREM TypeCorrect == Spec => []TypeOK
<1>1. Init => TypeOK
  <2> SUFFICES ASSUME Init PROVE TypeOK
    OBVIOUS
  <2>1. /\ win \in [Launches -> WinStates] /\ pc \in [Callers -> PCs]
        /\ follows \in [Callers -> Launches \cup {None}]
    BY DEF Init, WinStates, PCs
  <2>2. marker = NoMarker /\ status \subseteq Launches /\ ours \subseteq Callers
        /\ snapshot \subseteq Callers /\ crashes \in 0..MaxCrashes
    BY Bounds DEF Init
  <2>3. broker \in Launches \cup {Plain, None} /\ protected \in BOOLEAN
    BY DEF Init
  <2> QED
    BY <2>1, <2>2, <2>3 DEF TypeOK
<1>2. TypeOK /\ [Next]_vars => TypeOK'
  <2>1. CASE UNCHANGED vars
    BY <2>1 DEF vars, TypeOK
  <2>2. TypeOK /\ Next => TypeOK'
    BY ContinueTypes, WindowTypes DEF Next
  <2> QED
    BY <2>1, <2>2
<1> QED
  BY <1>1, <1>2, PTL DEF Spec

\* The step of a call that changes the token of a live marker ends the call that made it.
LEMMA CallerReleases ==
    ASSUME TypeOK, NEW c \in Callers, Continue(c), marker'.token # marker.token, MarkerLive
    PROVE  c \in ours /\ follows[c] = marker.token /\ pc'[c] = "idle"
<1>1. CASE OpenFails(c) \/ WaitDone(c) \/ StatusFails(c) \/ CheckGone(c)
  BY <1>1 DEF OpenFails, WaitDone, StatusFails, CheckGone, Ends, Goto, ReleaseOurs, Release,
     TypeOK
<1>2. CASE Update(c)
  <2>1. marker'.token = marker.token
    BY <1>2, MarkerKinds DEF Update, TypeOK, Tokens, NoMarker
  <2> QED
    BY <2>1
<1>3. ~ClaimMakes(c)
  BY DEF ClaimMakes
<1> QED
  BY <1>1, <1>2, <1>3 DEF Continue, Look, ClaimFollows, Open, WaitLooks, StatusEmpty,
     CheckAbandoned, CheckAgain, Relook, RaiseClosed, Late

\* The marker of a launch that is under way is removed by the call that made it and by
\* nobody else, for any number of callers (_release_observe_launch,
\* _claim_observe_launch).
THEOREM MarkersAreLaunchers == Spec => MarkerIsLaunchers
<1>1. TypeOK /\ [Next]_vars =>
        [marker'.token # marker.token /\ MarkerLive =>
            \E c \in ours : follows[c] = marker.token /\ pc'[c] = "idle"]_vars
  <2> SUFFICES ASSUME TypeOK, Next, marker'.token # marker.token, MarkerLive
               PROVE  \E c \in ours : follows[c] = marker.token /\ pc'[c] = "idle"
    OBVIOUS
  <2>1. CASE \E c \in Callers : Continue(c)
    BY <2>1, CallerReleases
  <2>2. CASE \E c \in Callers : Call(c) \/ Exit(c)
    BY <2>2 DEF Call, Exit
  <2>3. CASE \E l \in Launches : WindowServes(l) \/ WindowFails(l) \/ WindowEnds(l)
    BY <2>3 DEF WindowServes, WindowFails, WindowEnds
  <2>4. CASE PlainEnds
    BY <2>4 DEF PlainEnds
  <2>5. CASE Age
    <3>1. marker'.token = marker.token
      BY <2>5 DEF Age, TypeOK, NoMarker
    <3> QED
      BY <3>1
  <2> QED
    BY <2>1, <2>2, <2>3, <2>4, <2>5 DEF Next
<1> QED
  BY <1>1, TypeCorrect, PTL DEF Spec, MarkerIsLaunchers
=============================================================================
