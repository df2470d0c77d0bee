--------------------------- MODULE ObserveLaunch ---------------------------
(***************************************************************************)
(* How commands that need a serial port get an observe window for it        *)
(* (serial/runtime.py, ensure_observe_serial_broker).  The first command    *)
(* claims the launch with a marker file and opens the window, later ones     *)
(* wait for it.  Decisions about the marker are made under an OS file lock   *)
(* and are single steps; the window, its broker and its status file change   *)
(* on their own between any two looks of a waiting command.                  *)
(***************************************************************************)
EXTENDS Naturals, FiniteSets

CONSTANTS Callers,        \* processes that call ensure_observe_serial_broker
          Launches,       \* launches, each with its token, window and status file
          None,           \* no launch, no process
          Plain,          \* a broker nobody protects, started by hand
          SlowStarts,     \* TRUE: a window may take more than 300 s to start
          MaxCrashes      \* bound: callers that die in the middle of a call

ASSUME NamesDiffer == None \notin Callers \cup Launches \cup {Plain} /\ Plain \notin Launches
ASSUME SlowIsFlag  == SlowStarts \in BOOLEAN
ASSUME Bounds      == MaxCrashes \in Nat

VARIABLES
    marker,     \* the .launching file: [token, launcher, window, aged]
    win,        \* the window of each launch
    status,     \* launches whose window wrote its status file
    broker,     \* the registered broker: a launch's window, Plain, None
    protected,  \* its registry entry is an observe session's
    pc,         \* where each caller is
    follows,    \* the launch a caller made or waits for
    ours,       \* callers that made the launch they follow
    snapshot,   \* waiters whose copy of the marker has the window's pid
    crashes     \* for the bound

vars == <<marker, win, status, broker, protected,
          pc, follows, ours, snapshot, crashes>>
windows  == <<win, status, broker, protected>>
locals   == <<follows, ours, snapshot>>

WinStates == {"none", "starting", "serving", "attached", "failed", "gone"}
PCs == {"idle", "look", "claim", "launch", "update", "wait", "status", "check",
        "relook", "closed", "late", "dead"}

\* The file does not exist.
NoMarker == [token |-> None, launcher |-> None, window |-> None, aged |-> FALSE]

TypeOK ==
    /\ marker \in [token : Launches, launcher : Callers, window : Launches \cup {None},
                  aged : BOOLEAN] \cup {NoMarker}
    /\ win \in [Launches -> WinStates]
    /\ status \subseteq Launches
    /\ broker \in Launches \cup {Plain, None}
    /\ protected \in BOOLEAN
    /\ pc \in [Callers -> PCs]
    /\ follows \in [Callers -> Launches \cup {None}]
    /\ ours \subseteq Callers
    /\ snapshot \subseteq Callers
    /\ crashes \in 0..MaxCrashes

Init ==
    /\ marker = NoMarker
    /\ win = [l \in Launches |-> "none"]
    /\ status = {}
    /\ broker \in {None, Plain} /\ protected = FALSE
    /\ pc = [c \in Callers |-> "idle"]
    /\ follows = [c \in Callers |-> None]
    /\ ours = {} /\ snapshot = {}
    /\ crashes = 0

----------------------------------------------------------------------------
Observed == broker # None /\ protected      \* is_observe_serial_broker

WindowRuns(l) == win[l] \in {"starting", "serving", "attached", "failed"}
CallerRuns(c) == pc[c] # "dead"

\* _observe_launch_is_live, of the marker or of an earlier copy of it: it is
\* young, and the process it names is there.
Live(withWindow) ==
    /\ ~marker.aged
    /\ IF withWindow THEN WindowRuns(marker.token) ELSE CallerRuns(marker.launcher)

Goto(c, from, to) == pc[c] = from /\ pc' = [pc EXCEPT ![c] = to]

\* The call is over: it returns a registry or raises.
Ends(c, from) ==
    /\ Goto(c, from, "idle")
    /\ follows' = [follows EXCEPT ![c] = None]
    /\ ours' = ours \ {c}
    /\ snapshot' = snapshot \ {c}

\* Mutant of Release: the token is not compared.
ReleaseAny(l) == marker' = NoMarker

\* The marker there is keeps other calls from launching.
MarkerLive == IF marker = NoMarker THEN FALSE ELSE Live(marker.window # None)

\* _release_observe_launch: only the marker of this launch is removed.
Release(l) == marker' = IF marker.token = l THEN NoMarker ELSE marker

ReleaseOurs(c) == IF c \in ours THEN Release(follows[c]) ELSE UNCHANGED marker

\* A launch of the past, whose name serves for the next one: its window is
\* gone, and no marker and no call knows its token.
Unused(l) ==
    /\ win[l] \in {"none", "gone"}
    /\ marker.token # l
    /\ \A c \in Callers : follows[c] # l

----------------------------------------------------------------------------
(* Callers *)

\* Bound: a call starts while there is a launch left for it and for each call
\* that may still make one.
Call(c) ==
    /\ Goto(c, "idle", "look")
    /\ Cardinality({d \in Callers : pc[d] \in {"look", "claim"}})
         < Cardinality({l \in Launches : Unused(l)})
    /\ UNCHANGED <<marker, windows, locals, crashes>>

Look(c) ==
    /\ IF Observed THEN Ends(c, "look")
                   ELSE Goto(c, "look", "claim") /\ UNCHANGED locals
    /\ UNCHANGED <<marker, windows, crashes>>

\* _claim_observe_launch finds a launch under way ...
ClaimFollows(c) ==
    /\ Goto(c, "claim", "wait")
    /\ MarkerLive
    /\ follows' = [follows EXCEPT ![c] = marker.token]
    /\ snapshot' = IF marker.window # None THEN snapshot \cup {c} ELSE snapshot
    /\ UNCHANGED <<marker, windows, ours, crashes>>

\* A new token, its window not yet open, and the marker that names it.
Launch(c) == \E l \in Launches :
    /\ Unused(l)
    /\ marker' = [token |-> l, launcher |-> c, window |-> None, aged |-> FALSE]
    /\ win' = [win EXCEPT ![l] = "none"]
    /\ status' = status \ {l}
    /\ follows' = [follows EXCEPT ![c] = l]
    /\ ours' = ours \cup {c}
    /\ UNCHANGED <<broker, protected, snapshot, crashes>>

\* ... or none, and makes one.
ClaimMakes(c) ==
    /\ Goto(c, "claim", "launch")
    /\ ~MarkerLive
    /\ Launch(c)

\* _launch_observe_serial_window starts a process, or raises ...
Open(c) ==
    /\ Goto(c, "launch", "update")
    /\ win' = [win EXCEPT ![follows[c]] = "starting"]
    /\ UNCHANGED <<marker, status, broker, protected, locals, crashes>>

OpenFails(c) ==
    /\ Ends(c, "launch")
    /\ ReleaseOurs(c)
    /\ UNCHANGED <<windows, crashes>>

\* ... and _update_observe_launch puts the window's pid into the marker.
Update(c) ==
    /\ Goto(c, "update", "wait")
    /\ marker' = IF marker.token = follows[c] THEN [marker EXCEPT !.window = follows[c]] ELSE marker
    /\ UNCHANGED <<windows, locals, crashes>>

\* One round of the wait loop: an observe session is registered, ...
WaitDone(c) ==
    /\ Observed
    /\ Ends(c, "wait")
    /\ ReleaseOurs(c)
    /\ status' = IF c \in ours THEN status \ {follows[c]} ELSE status
    /\ UNCHANGED <<win, broker, protected, crashes>>

WaitLooks(c) ==
    /\ ~Observed
    /\ Goto(c, "wait", "status")
    /\ UNCHANGED <<marker, windows, locals, crashes>>

\* ... the window wrote why it failed, ...
StatusFails(c) ==
    /\ Ends(c, "status")
    /\ follows[c] \in status
    /\ ReleaseOurs(c)
    /\ UNCHANGED <<windows, crashes>>

StatusEmpty(c) ==
    /\ Goto(c, "status", "check")
    /\ follows[c] \notin status
    /\ UNCHANGED <<marker, windows, locals, crashes>>

\* ... our window is gone without a word, ...
CheckGone(c) ==
    /\ Ends(c, "check")
    /\ c \in ours /\ ~WindowRuns(follows[c])
    /\ ReleaseOurs(c)
    /\ UNCHANGED <<windows, crashes>>

Abandoned(c) == marker.token = follows[c] => ~Live(c \in snapshot)

\* ... another's launch is over: look once more, ...
CheckAbandoned(c) ==
    /\ Goto(c, "check", "relook")
    /\ c \notin ours /\ Abandoned(c)
    /\ UNCHANGED <<marker, windows, locals, crashes>>

\* Mutant of CheckAgain: the wait has no deadline.
CheckForever(c) ==
    /\ Goto(c, "check", "wait")
    /\ IF c \in ours THEN WindowRuns(follows[c]) ELSE ~Abandoned(c)
    /\ UNCHANGED <<marker, windows, locals, crashes>>

\* ... or it goes on, until the deadline.
CheckAgain(c) ==
    /\ Goto(c, "check", "wait") \/ Goto(c, "check", "late")
    /\ IF c \in ours THEN WindowRuns(follows[c]) ELSE ~Abandoned(c)
    /\ UNCHANGED <<marker, windows, locals, crashes>>

\* The second look at the registry, before the call gives up.
Relook(c) ==
    /\ IF Observed \/ follows[c] \in status
       THEN Ends(c, "relook")
       ELSE Goto(c, "relook", "closed") /\ UNCHANGED locals
    /\ UNCHANGED <<marker, windows, crashes>>

\* "... closed before opening the port."
RaiseClosed(c) ==
    /\ Ends(c, "closed")
    /\ UNCHANGED <<marker, windows, crashes>>

\* The deadline: protect_serial_broker_registry makes do with the broker there
\* is; with none the call raises "still starting" and leaves marker and window.
Late(c) ==
    /\ Ends(c, "late")
    /\ protected' = (broker # None)
    /\ UNCHANGED <<marker, win, status, broker, crashes>>

\* A command exits, or dies in the middle of its call.
Exit(c) ==
    /\ pc[c] # "dead"
    /\ pc[c] = "idle" \/ crashes < MaxCrashes
    /\ pc' = [pc EXCEPT ![c] = "dead"]
    /\ crashes' = IF pc[c] = "idle" THEN crashes ELSE crashes + 1
    /\ follows' = [follows EXCEPT ![c] = None]
    /\ ours' = ours \ {c} /\ snapshot' = snapshot \ {c}
    /\ UNCHANGED <<marker, windows>>

----------------------------------------------------------------------------
(* Windows: observe-serial.ps1 running watch-serial for a human *)

\* It starts a protected broker, or finds one and protects it.
WindowServes(l) ==
    /\ win[l] = "starting"
    /\ IF broker = None
       THEN broker' = l /\ win' = [win EXCEPT ![l] = "serving"]
       ELSE win' = [win EXCEPT ![l] = "attached"] /\ UNCHANGED broker
    /\ protected' = TRUE
    /\ UNCHANGED <<marker, status, pc, locals, crashes>>

\* It cannot open the port: record_observe_start_error, and the script keeps
\* the window for the user to read.
WindowFails(l) ==
    /\ win[l] = "starting" /\ broker = None
    /\ win' = [win EXCEPT ![l] = "failed"]
    /\ status' = status \cup {l}
    /\ UNCHANGED <<marker, broker, protected, pc, locals, crashes>>

\* It ends: the script writes its exit code and keeps the window for the user,
\* or it closes at once, or is killed before it writes anything.
WindowEnds(l) ==
    /\ WindowRuns(l)
    /\ \/ win' = [win EXCEPT ![l] = "failed"] /\ status' = status \cup {l}
       \/ win' = [win EXCEPT ![l] = "gone"] /\ status' \in {status, status \cup {l}}
    /\ IF broker = l THEN broker' = None /\ protected' = FALSE
                     ELSE UNCHANGED <<broker, protected>>
    /\ UNCHANGED <<marker, pc, locals, crashes>>

PlainEnds ==
    /\ broker = Plain
    /\ broker' = None /\ protected' = FALSE
    /\ UNCHANGED <<marker, win, status, pc, locals, crashes>>

\* 300 s go by.
Age ==
    /\ SlowStarts /\ marker # NoMarker /\ ~marker.aged
    /\ marker' = [marker EXCEPT !.aged = TRUE]
    /\ UNCHANGED <<windows, pc, locals, crashes>>

Continue(c) ==
    \/ Look(c) \/ ClaimFollows(c) \/ ClaimMakes(c)
    \/ Open(c) \/ OpenFails(c) \/ Update(c)
    \/ WaitDone(c) \/ WaitLooks(c) \/ StatusFails(c) \/ StatusEmpty(c)
    \/ CheckGone(c) \/ CheckAbandoned(c) \/ CheckAgain(c)
    \/ Relook(c) \/ RaiseClosed(c) \/ Late(c)

Next ==
    \/ \E c \in Callers : Call(c) \/ Continue(c) \/ Exit(c)
    \/ \E l \in Launches : WindowServes(l) \/ WindowFails(l) \/ WindowEnds(l)
    \/ PlainEnds \/ Age

Spec == Init /\ [][Next]_vars

\* A call goes on, and every call has a deadline.
FairSpec ==
    /\ Spec
    /\ \A c \in Callers :
        /\ WF_vars(Continue(c))
        /\ SF_vars(CheckAgain(c) /\ pc'[c] = "late")

----------------------------------------------------------------------------
\* The marker of a launch that is under way is removed by the call that made
\* it and by nobody else (_release_observe_launch, _claim_observe_launch).
MarkerIsLaunchers == [][
    marker'.token # marker.token /\ MarkerLive =>
        \E c \in ours : follows[c] = marker.token /\ pc'[c] = "idle"]_vars

\* Every call ends, whatever happens to windows and to other calls.
CallEnds == \A c \in Callers : pc[c] = "look" ~> pc[c] \in {"idle", "dead"}
=============================================================================
