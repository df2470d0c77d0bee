----------------------------- MODULE SerialLink -----------------------------
(***************************************************************************)
(* The COM port inside a broker (serial/broker.py): the reader thread, the  *)
(* handler threads that write for clients and the thread that stops the     *)
(* broker share one handle, self._serial.  _serial_lock covers the moments  *)
(* it is swapped, not its use, its closing or what is said about it.        *)
(***************************************************************************)
EXTENDS Integers, FiniteSets

CONSTANTS Reader,         \* the reader thread
          Writers,        \* handler threads in SerialBroker.write
          Handles,        \* open serial ports; a closed one's name is used again
          None,           \* no handle
          Exclusive,      \* TRUE: the system opens a COM port once at a time
          MaxUnplugs      \* bound: how often the device goes away

ASSUME ReaderIsNoWriter == Reader \notin Writers
ASSUME NoneIsNoHandle   == None \notin Handles
ASSUME ExclusiveIsFlag  == Exclusive \in BOOLEAN
ASSUME UnplugsBound     == MaxUnplugs \in Nat

Threads == {Reader} \cup Writers

VARIABLES
    serial,     \* self._serial
    open,       \* handles that are open in the process
    lost,       \* handles whose device went away: reads and writes on them fail
    plugged,    \* the device is there
    unplugs,    \* for the bound
    pc,         \* where each thread is
    local,      \* the handle each thread took from self._serial
    said,       \* SERIAL_CONNECTED events less SERIAL_UNAVAILABLE ones
    spc         \* where stop() is

vars == <<serial, open, lost, plugged, unplugs, pc, local, said, spc>>
device   == <<plugged, unplugs>>

PCs == {"rest", "ensure", "opening", "announce", "use", "mark", "close", "report", "done"}
StopPCs == {"running", "joining", "checking", "closing", "forgetting", "unlocking",
            "stopped", "failed"}

TypeOK ==
    /\ serial \in Handles \cup {None}
    /\ open \subseteq Handles
    /\ lost \subseteq Handles
    /\ plugged \in BOOLEAN
    /\ unplugs \in 0..MaxUnplugs
    /\ pc \in [Threads -> PCs]
    /\ local \in [Threads -> Handles \cup {None}]
    /\ \A t \in Threads : pc[t] = "close" => local[t] # None
    /\ said \in Int
    /\ spc \in StopPCs

\* The broker has started: the port is open, its lock is held.
Init ==
    /\ serial \in Handles /\ open = {serial} /\ lost = {}
    /\ plugged = TRUE /\ unplugs = 0
    /\ pc = [t \in Threads |-> "rest"]
    /\ local = [t \in Threads |-> None]
    /\ said = 1
    /\ spc = "running"

----------------------------------------------------------------------------
Works(h) == h \in open /\ h \notin lost

Goto(t, from, to) == pc[t] = from /\ pc' = [pc EXCEPT ![t] = to]

\* A handle nobody has, for the next open.
Free == Handles \ (open \cup {local[t] : t \in Threads})

CanOpen == plugged /\ (Exclusive => open = {}) /\ Free # {}

\* A client's line reaches its handler, which calls SerialBroker.write; the
\* reader begins another round until the stop event is set.
BeginUse(t) ==
    /\ Goto(t, "rest", "ensure")
    /\ t = Reader => spc = "running"
    /\ UNCHANGED <<serial, open, lost, device, local, said, spc>>

ReaderEnds ==
    /\ Goto(Reader, "rest", "done")
    /\ spc # "running"
    /\ UNCHANGED <<serial, open, lost, device, local, said, spc>>

\* _get_serial_handle: there is a handle, use it ...
TakeHandle(t) ==
    /\ Goto(t, "ensure", "use")
    /\ serial # None
    /\ local' = [local EXCEPT ![t] = serial]
    /\ UNCHANGED <<serial, open, lost, device, said, spc>>

\* Mutant of TryOpen: a dropped port waits for the next write.
TryOpenOnWrite(t) ==
    /\ Goto(t, "ensure", "opening")
    /\ serial = None /\ t # Reader
    /\ UNCHANGED <<serial, open, lost, device, local, said, spc>>

\* ... or there is none, and the thread tries to open the port.
TryOpen(t) ==
    /\ Goto(t, "ensure", "opening")
    /\ serial = None
    /\ UNCHANGED <<serial, open, lost, device, local, said, spc>>

\* The reader leaves it for later while its backoff lasts (ReconnectBackoff).
NotYet ==
    /\ Goto(Reader, "ensure", "rest")
    /\ serial = None
    /\ UNCHANGED <<serial, open, lost, device, local, said, spc>>

\* What _ensure_serial_connection returns is what write uses; the reader, in
\* _reconnect_when_due, ignores it and begins another round.
Opened(t, from) ==
    /\ Goto(t, from, IF t = Reader THEN "rest" ELSE "use")
    /\ local' = [local EXCEPT ![t] = IF t = Reader THEN None ELSE serial]

\* _ensure_serial_connection under _serial_lock: another thread was faster ...
OpenedByOther(t) ==
    /\ Opened(t, "opening")
    /\ serial # None
    /\ UNCHANGED <<serial, open, lost, device, said, spc>>

\* Mutant of OpenPort: self._serial is not looked at again under the lock.
OpenPortAgain(t) ==
    /\ Goto(t, "opening", "announce")
    /\ CanOpen
    /\ \E h \in Free :
        /\ serial' = h
        /\ open' = open \cup {h}
        /\ lost' = lost \ {h}
    /\ UNCHANGED <<device, local, said, spc>>

\* ... or this one opens it ...
OpenPort(t) ==
    /\ Goto(t, "opening", "announce")
    /\ serial = None /\ CanOpen
    /\ \E h \in Free :
        /\ serial' = h
        /\ open' = open \cup {h}
        /\ lost' = lost \ {h}
    /\ UNCHANGED <<device, local, said, spc>>

\* ... or fails to.
OpenFails(t) ==
    /\ Goto(t, "opening", "rest")
    /\ serial = None /\ ~CanOpen
    /\ UNCHANGED <<serial, open, lost, device, local, said, spc>>

\* SERIAL_CONNECTED is traced and broadcast after the lock is released, and
\* self._serial read once more for the caller: it may be None again.
Announce(t) ==
    /\ Opened(t, "announce")
    /\ said' = said + 1
    /\ UNCHANGED <<serial, open, lost, device, spc>>

\* A writer keeps _write_lock until it has reported the failure of its write.
MayUse(t) == t \in Writers =>
    \A w \in Writers \ {t} : pc[w] \notin {"mark", "close", "report"}

\* readline, or write and flush, on the handle taken before.
UseWorks(t) ==
    /\ Goto(t, "use", "rest") /\ MayUse(t)
    /\ Works(local[t])
    /\ local' = [local EXCEPT ![t] = None]
    /\ UNCHANGED <<serial, open, lost, device, said, spc>>

UseFails(t) ==
    /\ Goto(t, "use", "mark") /\ MayUse(t)
    /\ ~Works(local[t])
    /\ local' = [local EXCEPT ![t] = None]
    /\ UNCHANGED <<serial, open, lost, device, said, spc>>

\* _mark_serial_unavailable under _serial_lock takes whatever handle there is
\* now, not the one that failed; ...
MarkUnavailable(t) ==
    /\ Goto(t, "mark", "close")
    /\ serial # None
    /\ local' = [local EXCEPT ![t] = serial]
    /\ serial' = None
    /\ UNCHANGED <<open, lost, device, said, spc>>

\* Mutant of MarkNothing: a loss that was reported is reported again.
MarkAndReport(t) ==
    /\ Goto(t, "mark", "report")
    /\ serial = None
    /\ UNCHANGED <<serial, open, lost, device, local, said, spc>>

MarkNothing(t) ==
    /\ Goto(t, "mark", "rest")
    /\ serial = None
    /\ UNCHANGED <<serial, open, lost, device, local, said, spc>>

\* ... closes it without the lock, ...
CloseDropped(t) ==
    /\ Goto(t, "close", "report")
    /\ open' = open \ {local[t]}
    /\ local' = [local EXCEPT ![t] = None]
    /\ UNCHANGED <<serial, lost, device, said, spc>>

\* ... and traces and broadcasts SERIAL_UNAVAILABLE.
Report(t) ==
    /\ Goto(t, "report", "rest")
    /\ said' = said - 1
    /\ UNCHANGED <<serial, open, lost, device, local, spc>>

----------------------------------------------------------------------------
\* stop() sets the stop event and waits a second for the reader, which may be
\* stuck (in a client's sendall); it waits for no handler thread.
StopBegins ==
    /\ spc = "running" /\ spc' = "joining"
    /\ UNCHANGED <<serial, open, lost, device, pc, local, said>>

StopJoins ==
    /\ spc = "joining" /\ spc' = "checking"
    /\ UNCHANGED <<serial, open, lost, device, pc, local, said>>

\* "if self._serial is not None": without _serial_lock.
StopChecks ==
    /\ spc = "checking"
    /\ spc' = IF serial = None THEN "unlocking" ELSE "closing"
    /\ UNCHANGED <<serial, open, lost, device, pc, local, said>>

\* self._serial.close(): an AttributeError if a handler dropped it meanwhile,
\* and then the lock file is left to whoever finds it stale.
StopCloses ==
    /\ spc = "closing"
    /\ IF serial = None
       THEN spc' = "failed" /\ UNCHANGED open
       ELSE spc' = "forgetting" /\ open' = open \ {serial}
    /\ UNCHANGED <<serial, lost, device, pc, local, said>>

StopForgets ==
    /\ spc = "forgetting" /\ spc' = "unlocking"
    /\ serial' = None
    /\ UNCHANGED <<open, lost, device, pc, local, said>>

StopUnlocks ==
    /\ spc = "unlocking" /\ spc' = "stopped"
    /\ UNCHANGED <<serial, open, lost, device, pc, local, said>>

Stop == StopJoins \/ StopChecks \/ StopCloses \/ StopForgets \/ StopUnlocks

----------------------------------------------------------------------------
\* The device reboots or its cable is pulled.
Unplug ==
    /\ plugged /\ unplugs < MaxUnplugs
    /\ plugged' = FALSE /\ unplugs' = unplugs + 1
    /\ lost' = lost \cup open
    /\ UNCHANGED <<serial, open, pc, local, said, spc>>

Plug ==
    /\ ~plugged /\ plugged' = TRUE
    /\ UNCHANGED <<serial, open, lost, unplugs, pc, local, said, spc>>

Continue(t) ==
    \/ TakeHandle(t) \/ OpenedByOther(t)
    \/ OpenPort(t) \/ OpenFails(t) \/ Announce(t)
    \/ UseWorks(t) \/ UseFails(t)
    \/ MarkUnavailable(t) \/ MarkNothing(t) \/ CloseDropped(t) \/ Report(t)

Next ==
    \/ \E t \in Threads : BeginUse(t) \/ TryOpen(t) \/ Continue(t)
    \/ NotYet \/ ReaderEnds
    \/ StopBegins \/ Stop
    \/ Unplug \/ Plug

Spec == Init /\ [][Next]_vars

\* Threads run; the reader loops while the broker runs, and its backoff always
\* lets it try the port again in the end.
FairSpec ==
    /\ Spec
    /\ \A t \in Threads : WF_vars(Continue(t))
    /\ WF_vars(BeginUse(Reader))
    /\ SF_vars(TryOpen(Reader))
    /\ WF_vars(ReaderEnds) /\ WF_vars(Stop)

----------------------------------------------------------------------------
\* No open port gets lost: until the broker stops, a handle that is open is
\* the current one or about to be closed by the thread that dropped it
\* (_ensure_serial_connection, _mark_serial_unavailable).
NoHandleLeaks == spc = "running" =>
    \A h \in open : h = serial \/ \E t \in Threads : pc[t] = "close" /\ local[t] = h

\* A device that is back is read again, without a client writing to it
\* (_serial_reader_loop, _reconnect_when_due).
Reconnects == <>[]plugged => []<>(Works(serial) \/ spc # "running")

At(places) == Cardinality({t \in Threads : pc[t] \in places})

\* Each loss of the port and each reconnection is announced once, though not
\* always in their order: what has been said, and what threads are about to say,
\* adds up to what there is (_ensure_serial_connection, _mark_serial_unavailable).
EachChangeAnnounced ==
    spc = "running" =>
        said + At({"announce"}) - At({"close", "report"}) = IF serial = None THEN 0 ELSE 1
=============================================================================
