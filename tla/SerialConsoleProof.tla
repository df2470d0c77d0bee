------------------------ MODULE SerialConsoleProof -------------------------
(***************************************************************************)
(* What holds of a serial port: of the handle that the threads of a broker *)
(* share, and of the shell that a controller uses at its other end. First  *)
(* the handle, for any number of handler threads and reconnections, also   *)
(* where the system lets a port be opened twice: none is lost, and each    *)
(* loss and reconnection is announced once. Then the shell, for any number *)
(* of commands, lines, boots, users and noises: the result and the output  *)
(* of a call are those of its own command, and the output is complete.     *)
(* SerialLink and ShellControl share no variable; the proofs do not either.*)
(***************************************************************************)
EXTENDS SerialLink, ShellControl, FiniteSetTheorems, SequenceTheorems, TLAPS

\* The threads' steps keep the types.
LEMMA TypeStep == TypeOK /\ [Next]_vars => TypeOK'
<1> SUFFICES ASSUME TypeOK, [Next]_vars PROVE TypeOK'
  OBVIOUS
<1> USE UnplugsBound DEF TypeOK, PCs, StopPCs, Threads, device, Goto
<1>1. CASE UNCHANGED vars
  BY <1>1 DEF vars
<1>2. ASSUME NEW t \in Threads, BeginUse(t) \/ TryOpen(t) PROVE TypeOK'
  BY <1>2 DEF BeginUse, TryOpen
<1>3. ASSUME NotYet \/ ReaderEnds PROVE TypeOK'
  BY <1>3 DEF NotYet, ReaderEnds
<1>4. ASSUME NEW t \in Threads, TakeHandle(t) \/ OpenedByOther(t) \/ Announce(t) PROVE TypeOK'
  <2>1. CASE TakeHandle(t)
    BY <2>1 DEF TakeHandle
  <2>2. CASE t = Reader /\ (OpenedByOther(t) \/ Announce(t))
    BY <2>2 DEF OpenedByOther, Announce, Opened
  <2>3. CASE t # Reader /\ (OpenedByOther(t) \/ Announce(t))
    BY <2>3 DEF OpenedByOther, Announce, Opened
  <2> QED
    BY <1>4, <2>1, <2>2, <2>3
<1>5. ASSUME NEW t \in Threads, OpenPort(t) PROVE TypeOK'
  BY <1>5 DEF OpenPort, Free
<1>6. ASSUME NEW t \in Threads, OpenFails(t) \/ UseWorks(t) \/ UseFails(t) PROVE TypeOK'
  BY <1>6 DEF OpenFails, UseWorks, UseFails
<1>7. ASSUME NEW t \in Threads, MarkUnavailable(t) \/ MarkNothing(t) PROVE TypeOK'
  BY <1>7 DEF MarkUnavailable, MarkNothing
<1>8. ASSUME NEW t \in Threads, CloseDropped(t) \/ Report(t) PROVE TypeOK'
  BY <1>8 DEF CloseDropped, Report
<1>9. ASSUME StopBegins \/ StopJoins \/ StopChecks PROVE TypeOK'
  BY <1>9 DEF StopBegins, StopJoins, StopChecks
<1>10. ASSUME StopCloses PROVE TypeOK'
  BY <1>10 DEF StopCloses
<1>11. ASSUME StopForgets \/ StopUnlocks PROVE TypeOK'
  BY <1>11 DEF StopForgets, StopUnlocks
<1>12. ASSUME Unplug \/ Plug PROVE TypeOK'
  <2>1. unplugs' \in 0..MaxUnplugs
    BY <1>12 DEF Unplug, Plug
  <2>2. plugged' \in BOOLEAN
    BY <1>12 DEF Unplug, Plug
  <2> QED
    BY <1>12, <2>1, <2>2 DEF Unplug, Plug
<1> QED
  BY <1>1, <1>2, <1>3, <1>4, <1>5, <1>6, <1>7, <1>8, <1>9, <1>10, <1>11, <1>12
     DEF Next, Continue, Stop

\* The threads and the handles have their types in every reachable state.
THEOREM TypeCorrect == Spec => []TypeOK
<1>1. Init => TypeOK
  <2> SUFFICES ASSUME Init PROVE TypeOK
    OBVIOUS
  <2>1. 0 \in 0..MaxUnplugs
    BY UnplugsBound
  <2>2. plugged \in BOOLEAN
    BY DEF Init
  <2> QED
    BY <2>1, <2>2 DEF Init, TypeOK, PCs, StopPCs
<1> QED
  BY <1>1, TypeStep, PTL DEF Spec

----------------------------------------------------------------------------
\* The thread that dropped the handle h is about to close it.
Dropped(h) == \E t \in Threads : pc[t] = "close" /\ local[t] = h

\* A handle leaves self._serial only into the hands of the thread that closes it.
LEMMA LeakStep == TypeOK /\ NoHandleLeaks /\ [Next]_vars => NoHandleLeaks'
<1> SUFFICES ASSUME TypeOK, NoHandleLeaks, [Next]_vars,
                    spc' = "running", NEW h \in open', h # serial'
             PROVE  Dropped(h)'
  BY DEF NoHandleLeaks, Dropped
<1>r. spc = "running"
  BY DEF Next, vars, Continue, Stop, device, BeginUse, TryOpen, NotYet, ReaderEnds,
     TakeHandle, Opened, OpenedByOther, OpenPort, OpenFails, Announce, UseWorks, UseFails,
     MarkUnavailable, MarkNothing, CloseDropped, Report, StopBegins, StopJoins, StopChecks,
     StopCloses, StopForgets, StopUnlocks, Unplug, Plug
\* Steps that leave the dropping threads and the handles alone.
<1>q. ASSUME NEW t \in Threads, pc[t] # "close", h \in open, h # serial,
             \A u \in Threads \ {t} : pc'[u] = pc[u] /\ local'[u] = local[u]
      PROVE  Dropped(h)'
  BY <1>q, <1>r DEF NoHandleLeaks, Dropped
<1> USE <1>r DEF TypeOK, Goto, device
<1>1. CASE UNCHANGED vars
  BY <1>1 DEF vars, NoHandleLeaks, Dropped
<1>2. ASSUME NEW t \in Threads, BeginUse(t) \/ TryOpen(t) PROVE Dropped(h)'
  BY <1>2, <1>q DEF BeginUse, TryOpen
<1>3. ASSUME NotYet \/ ReaderEnds PROVE Dropped(h)'
  BY <1>3, <1>q DEF NotYet, ReaderEnds, Threads
<1>4. ASSUME NEW t \in Threads, TakeHandle(t) \/ OpenedByOther(t) \/ Announce(t)
      PROVE Dropped(h)'
  BY <1>4, <1>q DEF TakeHandle, OpenedByOther, Announce, Opened
<1>5. ASSUME NEW t \in Threads, OpenPort(t) PROVE Dropped(h)'
  <2>1. h \in open /\ h # serial
    BY <1>5, NoneIsNoHandle DEF OpenPort
  <2> QED
    BY <1>5, <1>q, <2>1 DEF OpenPort
<1>6. ASSUME NEW t \in Threads, OpenFails(t) \/ UseWorks(t) \/ UseFails(t) PROVE Dropped(h)'
  BY <1>6, <1>q DEF OpenFails, UseWorks, UseFails
<1>7. ASSUME NEW t \in Threads, MarkUnavailable(t) PROVE Dropped(h)'
  <2>1. CASE h = serial
    BY <1>7, <2>1 DEF MarkUnavailable, Dropped
  <2>2. CASE h # serial
    BY <1>7, <1>q, <2>2 DEF MarkUnavailable
  <2> QED
    BY <2>1, <2>2
<1>8. ASSUME NEW t \in Threads, MarkNothing(t) \/ Report(t) PROVE Dropped(h)'
  BY <1>8, <1>q DEF MarkNothing, Report
<1>9. ASSUME NEW t \in Threads, CloseDropped(t) PROVE Dropped(h)'
  BY <1>9 DEF CloseDropped, NoHandleLeaks, Dropped
<1>10. ASSUME Unplug \/ Plug PROVE Dropped(h)'
  BY <1>10 DEF Unplug, Plug, NoHandleLeaks, Dropped
<1>11. ~StopBegins /\ ~Stop
  BY DEF StopBegins, Stop, StopJoins, StopChecks, StopCloses, StopForgets, StopUnlocks
<1> QED
  BY <1>1, <1>2, <1>3, <1>4, <1>5, <1>6, <1>7, <1>8, <1>9, <1>10, <1>11 DEF Next, Continue

\* While the broker runs every open handle is the current one or on its way to
\* be closed (_ensure_serial_connection, _mark_serial_unavailable).
THEOREM HandlesKept == Spec => []NoHandleLeaks
<1>1. Init => NoHandleLeaks
  BY DEF Init, NoHandleLeaks
<1> QED
  BY <1>1, LeakStep, TypeCorrect, PTL DEF Spec

----------------------------------------------------------------------------
\* The threads that are at one of these places.
Those(places) == {t \in Threads : pc[t] \in places}

\* Who is about to say that the port is there, and who that it is gone.
Coming == {"announce"}
Going  == {"close", "report"}

\* Their numbers are finite, however many handler threads there are.
Announced ==
    spc = "running" =>
        /\ IsFiniteSet(Those(Coming)) /\ IsFiniteSet(Those(Going))
        /\ said + Cardinality(Those(Coming)) - Cardinality(Those(Going))
              = IF serial = None THEN 0 ELSE 1

\* A thread that goes from one place to another is counted where it is.
LEMMA OneMoves ==
    ASSUME TypeOK, NEW t \in Threads, NEW from, NEW to, Goto(t, from, to), NEW places,
           IsFiniteSet(Those(places))
    PROVE  /\ IsFiniteSet(Those(places)')
           /\ Cardinality(Those(places)) \in Nat
           /\ (from \in places <=> to \in places) => Those(places)' = Those(places)
           /\ from \notin places /\ to \in places =>
                 Cardinality(Those(places)') = Cardinality(Those(places)) + 1
           /\ from \in places /\ to \notin places =>
                 Cardinality(Those(places)') = Cardinality(Those(places)) - 1
<1>1. Cardinality(Those(places)) \in Nat
  BY FS_CardinalityType
<1>2. ASSUME from \in places <=> to \in places PROVE Those(places)' = Those(places)
  BY <1>2 DEF Those, Goto, TypeOK
<1>3. ASSUME from \notin places, to \in places
      PROVE  Those(places)' = Those(places) \cup {t} /\ t \notin Those(places)
  BY <1>3 DEF Those, Goto, TypeOK
<1>4. ASSUME from \in places, to \notin places
      PROVE  Those(places)' = Those(places) \ {t} /\ t \in Those(places)
  BY <1>4 DEF Those, Goto, TypeOK
<1> QED
  BY <1>1, <1>2, <1>3, <1>4, FS_AddElement, FS_RemoveElement

\* What a thread does to the port, to what was said and to its own place fits together.
LEMMA AnnouncedStep == TypeOK /\ Announced /\ [Next]_vars => Announced'
<1> SUFFICES ASSUME TypeOK, Announced, [Next]_vars, spc' = "running"
             PROVE  /\ IsFiniteSet(Those(Coming)') /\ IsFiniteSet(Those(Going)')
                    /\ said' + Cardinality(Those(Coming)') - Cardinality(Those(Going)')
                          = IF serial' = None THEN 0 ELSE 1
  BY DEF Announced
<1> DEFINE Goal == /\ IsFiniteSet(Those(Coming)') /\ IsFiniteSet(Those(Going)')
                   /\ said' + Cardinality(Those(Coming)') - Cardinality(Those(Going)')
                         = IF serial' = None THEN 0 ELSE 1
<1>r. spc = "running"
  BY DEF Next, vars, Continue, Stop, device, BeginUse, TryOpen, NotYet, ReaderEnds,
     TakeHandle, Opened, OpenedByOther, OpenPort, OpenFails, Announce, UseWorks, UseFails,
     MarkUnavailable, MarkNothing, CloseDropped, Report, StopBegins, StopJoins, StopChecks,
     StopCloses, StopForgets, StopUnlocks, Unplug, Plug
<1>i. /\ IsFiniteSet(Those(Coming)) /\ IsFiniteSet(Those(Going))
      /\ said + Cardinality(Those(Coming)) - Cardinality(Those(Going))
            = IF serial = None THEN 0 ELSE 1
      /\ said \in Int
  BY <1>r DEF Announced, TypeOK
\* Steps to and from places where nothing is about to be said.
<1>q. ASSUME NEW t \in Threads, NEW from, NEW to, Goto(t, from, to),
             from \in Coming <=> to \in Coming, from \in Going <=> to \in Going,
             serial' = serial, said' = said
      PROVE  Goal
  BY <1>q, <1>i, OneMoves
<1>1. CASE UNCHANGED <<pc, serial, said>>
  <2>1. \A places : Those(places)' = Those(places)
    BY <1>1 DEF Those
  <2> QED
    BY <1>1, <1>i, <2>1
<1>2. ASSUME NEW t \in Threads, BeginUse(t) \/ TryOpen(t) PROVE Goal
  <2>1. \E from, to \in {"rest", "ensure", "opening"} : Goto(t, from, to)
    BY <1>2 DEF BeginUse, TryOpen
  <2> QED
    BY <1>2, <1>q, <2>1 DEF BeginUse, TryOpen, Coming, Going
<1>3. ASSUME NotYet \/ ReaderEnds PROVE Goal
  <2>1. \E from, to \in {"rest", "ensure", "done"} : Goto(Reader, from, to)
    BY <1>3 DEF NotYet, ReaderEnds
  <2> QED
    BY <1>3, <1>q, <2>1 DEF NotYet, ReaderEnds, Threads, Coming, Going
<1>4. ASSUME NEW t \in Threads, TakeHandle(t) \/ OpenedByOther(t) PROVE Goal
  <2>1. \E from, to \in {"rest", "ensure", "opening", "use"} : Goto(t, from, to)
    BY <1>4 DEF TakeHandle, OpenedByOther, Opened
  <2> QED
    BY <1>4, <1>q, <2>1 DEF TakeHandle, OpenedByOther, Coming, Going
<1>5. ASSUME NEW t \in Threads, OpenPort(t) PROVE Goal
  <2>1. Goto(t, "opening", "announce") /\ serial = None /\ serial' # None /\ said' = said
    BY <1>5, NoneIsNoHandle DEF OpenPort, Free
  <2> QED
    BY <1>i, <2>1, OneMoves DEF Coming, Going
<1>6. ASSUME NEW t \in Threads, OpenFails(t) \/ UseWorks(t) \/ UseFails(t) PROVE Goal
  <2>1. \E from, to \in {"rest", "opening", "use", "mark"} : Goto(t, from, to)
    BY <1>6 DEF OpenFails, UseWorks, UseFails
  <2> QED
    BY <1>6, <1>q, <2>1 DEF OpenFails, UseWorks, UseFails, Coming, Going
<1>7. ASSUME NEW t \in Threads, Announce(t) PROVE Goal
  <2>1. /\ \E to \in {"rest", "use"} : Goto(t, "announce", to)
        /\ serial' = serial /\ said' = said + 1
    BY <1>7 DEF Announce, Opened
  <2> QED
    BY <1>i, <2>1, OneMoves DEF Coming, Going
<1>8. ASSUME NEW t \in Threads, MarkUnavailable(t) PROVE Goal
  <2>1. /\ Goto(t, "mark", "close") /\ serial # None /\ serial' = None /\ said' = said
    BY <1>8 DEF MarkUnavailable
  <2> QED
    BY <1>i, <2>1, OneMoves DEF Coming, Going
<1>9. ASSUME NEW t \in Threads, MarkNothing(t) PROVE Goal
  BY <1>9, <1>q DEF MarkNothing, Coming, Going
<1>10. ASSUME NEW t \in Threads, CloseDropped(t) PROVE Goal
  BY <1>10, <1>q DEF CloseDropped, Coming, Going
<1>11. ASSUME NEW t \in Threads, Report(t) PROVE Goal
  <2>1. Goto(t, "report", "rest") /\ serial' = serial /\ said' = said - 1
    BY <1>11 DEF Report
  <2> QED
    BY <1>i, <2>1, OneMoves DEF Coming, Going
<1>12. ~StopBegins /\ ~Stop
  BY <1>r DEF StopBegins, Stop, StopJoins, StopChecks, StopCloses, StopForgets, StopUnlocks
<1>13. ASSUME Unplug \/ Plug \/ UNCHANGED vars PROVE Goal
  BY <1>1, <1>13 DEF Unplug, Plug, vars
<1> HIDE DEF Goal
<1>14. Goal
  BY <1>2, <1>3, <1>4, <1>5, <1>6, <1>7, <1>8, <1>9, <1>10, <1>11, <1>12, <1>13
     DEF Next, Continue
<1> QED
  BY <1>14 DEF Goal

\* Each loss of the port and each reconnection of a running broker is announced once
\* (_ensure_serial_connection, _mark_serial_unavailable).
THEOREM ChangesAnnounced == Spec => []EachChangeAnnounced
<1>1. Init => Announced
  <2> SUFFICES ASSUME Init PROVE Announced
    OBVIOUS
  <2>1. Those(Coming) = {} /\ Those(Going) = {} /\ said = 1 /\ serial # None
    BY NoneIsNoHandle DEF Init, Those, Coming, Going
  <2> QED
    BY <2>1, FS_EmptySet DEF Announced
<1>2. Announced => EachChangeAnnounced
  BY DEF Announced, EachChangeAnnounced, At, Those, Coming, Going
<1> QED
  BY <1>1, <1>2, AnnouncedStep, TypeCorrect, PTL DEF Spec

-----------------------------------------------------------------------------
(* The shell on the console *)

Ends == {"end", "badend"}
Marks == {"echo", "begin", "out"} \cup Ends

\* The lines that are marked are those of a command, and so is what is typed.
MarkedLines(s) == \A i \in DOMAIN s : s[i].kind \in Marks <=> s[i].cmd # 0
MarkedKeys(s)  == \A i \in DOMAIN s : s[i].kind = "command" <=> s[i].cmd # 0

Marked ==
    /\ MarkedLines(rx) /\ MarkedLines(host.output) /\ MarkedKeys(typed)
    /\ console.state = "run" => console.cmd # 0

ShellTypeInv == ShellTypeOK /\ Marked

\* The call of the command c has typed it, unless it gave up before.
SentBy(h, c) ==
    \/ c < h.cmd
    \/ c = h.cmd /\ h.pc \in {"collect", "done"}

\* Commands are typed and run in the order of the calls, each at most once, ...
TypedOrder ==
    /\ \A i, j \in DOMAIN typed : i < j /\ typed[j].cmd # 0 => typed[i].cmd < typed[j].cmd
    /\ \A i \in DOMAIN typed : typed[i].cmd # 0 =>
          console.cmd < typed[i].cmd /\ SentBy(host, typed[i].cmd)

\* ... and what comes of them comes in that order.
RxOrder ==
    /\ \A i \in DOMAIN rx : rx[i].cmd <= console.cmd
    /\ \A i, j \in DOMAIN rx : i < j /\ rx[j].cmd # 0 => rx[i].cmd <= rx[j].cmd

CallOrder == TypedOrder /\ RxOrder /\ (console.cmd # 0 => SentBy(host, console.cmd))

\* An end of the command c has its exit code; a broken one may have lost it, or a digit.
TrueEnd(runs, broken, c, exit) ==
    /\ runs[c] = <<Codes[c]>>
    /\ c \notin broken => exit = Codes[c]
    /\ exit # NoCode => (exit = 0 <=> Codes[c] = 0)

\* A command ends once, and before that there is no end of it.
EndsOnce ==
    /\ \A c \in Commands : /\ ended[c] = <<>> \/ ended[c] = <<Codes[c]>>
                           /\ console.cmd < c => ended[c] = <<>>
    /\ console.state = "run" => ended[console.cmd] = <<>>
    /\ \A i \in DOMAIN rx : rx[i].kind \in Ends =>
          TrueEnd(ended, spoilt, rx[i].cmd, ExitOf(rx[i]))

\* Nor does a call return with an end before.
ResultsTrue ==
    \A c \in Commands : results[c].how = "ended" => TrueEnd(ended, spoilt, c, results[c].exit)

\* A call collects after the begin of its own command only, so that nothing of an
\* earlier one can come any more.
CaptureInv ==
    /\ host.pc = "login" => ~host.capture
    /\ host.pc \in {"login", "collect"} /\ ~host.capture => host.output = <<>>
    /\ host.pc = "collect" /\ host.capture =>
          /\ console.cmd = host.cmd
          /\ \A i \in DOMAIN rx : rx[i].cmd \in {0, host.cmd}
    /\ host.pc = "collect" => \A i \in Own(host.output) : host.output[i].cmd = host.cmd
    /\ OutputIsOwn

\* Where the lines of the command c are that are still to come.
Ahead(s, c) == {i \in DOMAIN s : s[i].kind = "out" /\ s[i].cmd = c}

\* Of the command c that prints its line n next, what was printed and counts as output
\* is in the output or is to come, in order and before the end.
Whole(output, s, c, n) ==
    /\ \A i \in Own(output) : output[i].n \in Kept(c) /\ output[i].n < n
    /\ \A i \in Ahead(s, c) : 1 <= s[i].n /\ s[i].n < n
    /\ \A m \in Kept(c) : m < n =>
          \/ \E i \in Own(output) : output[i].n = m
          \/ \E i \in Ahead(s, c) : s[i].n = m
    /\ \A i, j \in Own(output) : i < j => output[i].n < output[j].n
    /\ \A i, j \in Ahead(s, c) : i < j => s[i].n < s[j].n
    /\ \A i \in Own(output), j \in Ahead(s, c) : output[i].n < s[j].n
    /\ \A i \in DOMAIN s : s[i].kind \in Ends /\ s[i].cmd = c =>
          n = Count(c) + 1 /\ \A j \in Ahead(s, c) : j < i

\* The begin of the command c is still to come, before its lines and its end.
Begun(s, c) ==
    \E p \in DOMAIN s :
        /\ s[p].kind = "begin" /\ s[p].cmd = c
        /\ \A i \in DOMAIN s : s[i].cmd = c /\ s[i].kind \in {"out"} \cup Ends => p < i

\* Of the command that the call waits for no output is lost, unless a line broke.
WholeInv ==
    /\ console.cmd # 0 => 1 <= console.next /\ console.next <= Count(console.cmd) + 1
    /\ host.pc = "collect" /\ console.cmd = host.cmd /\ host.cmd \notin spoilt =>
          /\ Whole(host.output, rx, host.cmd, console.next)
          /\ ~host.capture => Begun(rx, host.cmd)
    /\ OutputComplete
-----------------------------------------------------------------------------
(* Sequences *)

\* t is s with more at its end.
Extends(s, t) ==
    /\ DOMAIN s \subseteq DOMAIN t
    /\ \A i \in DOMAIN s : t[i] = s[i]
    /\ \A i \in DOMAIN s, k \in DOMAIN t \ DOMAIN s : i < k

\* What the places of a sequence are.
LEMMA Places ==
    ASSUME NEW S, NEW s \in Seq(S)
    PROVE  /\ DOMAIN s = 1..Len(s) /\ Len(s) \in Nat /\ DOMAIN s \subseteq Nat
           /\ \A i \in DOMAIN s : s[i] \in S
<1>1. DOMAIN s = 1..Len(s) /\ Len(s) \in Nat
  BY LenProperties
<1> QED
  BY <1>1, ElementOfSeq

\* One element more.
MoreBy(s, t, a) ==
    /\ Extends(s, t)
    /\ \E p \in DOMAIN t : p \notin DOMAIN s /\ DOMAIN t = DOMAIN s \cup {p} /\ t[p] = a
    /\ \A k \in DOMAIN t \ DOMAIN s : t[k] = a

\* An element is appended.
LEMMA OneMore ==
    ASSUME NEW S, NEW s \in Seq(S), NEW a \in S
    PROVE  Append(s, a) \in Seq(S) /\ MoreBy(s, Append(s, a), a)
<1> DEFINE t == Append(s, a)
           m == Len(s)
<1>1. /\ t \in Seq(S) /\ Len(t) = m + 1 /\ t[m + 1] = a
      /\ \A i \in 1..m : t[i] = s[i]
  BY AppendProperties
<1> HIDE DEF t
<1>2. DOMAIN s = 1..m /\ m \in Nat /\ DOMAIN t = 1..(m + 1)
  BY <1>1, Places
<1> HIDE DEF m
<1>3. 1..(m + 1) = (1..m) \cup {m + 1} /\ m + 1 \notin 1..m /\ m + 1 \in 1..(m + 1)
      /\ \A i \in 1..m : i < m + 1
  BY <1>2
<1>4. Extends(s, t)
  BY <1>1, <1>2, <1>3 DEF Extends
<1>5. MoreBy(s, t, a)
  BY <1>1, <1>2, <1>3, <1>4 DEF MoreBy
<1> QED
  BY <1>1, <1>5 DEF t

\* The same, as a concatenation.
LEMMA OneAdded ==
    ASSUME NEW S, NEW s \in Seq(S), NEW a \in S
    PROVE  s \o <<a>> \in Seq(S) /\ MoreBy(s, s \o <<a>>, a)
<1>1. Append(s, a) = s \o <<a>>
  BY AppendIsConcat
<1> QED
  BY <1>1, OneMore, Zenon

\* b is an element of t.
Contains(t, b) == \E k \in DOMAIN t : t[k] = b

\* Two elements are added.
LEMMA TwoMore ==
    ASSUME NEW S, NEW s \in Seq(S), NEW a \in S, NEW b \in S, NEW t, t = s \o <<a, b>>
    PROVE  /\ t \in Seq(S) /\ Extends(s, t) /\ Contains(t, b)
           /\ \A k \in DOMAIN t \ DOMAIN s : t[k] \in {a, b}
<1> DEFINE u == <<a, b>>
           m == Len(s)
<1>1. u \in Seq(S) /\ Len(u) = 2 /\ u[1] = a /\ u[2] = b
  OBVIOUS
<1>2. t = s \o u
  OBVIOUS
<1> HIDE DEF u
<1>3. /\ t \in Seq(S) /\ Len(t) = m + 2
      /\ \A i \in 1..(m + 2) : t[i] = IF i <= m THEN s[i] ELSE u[i - m]
  BY <1>1, <1>2, ConcatProperties
<1>4. /\ m \in Nat /\ DOMAIN s = 1..m /\ DOMAIN t = 1..(m + 2)
  BY <1>3, Places
<1> HIDE DEF m
<1>5. /\ m + 1 \in 1..(m + 2) /\ m + 2 \in 1..(m + 2) /\ m + 1 \notin 1..m /\ m + 2 \notin 1..m
      /\ m + 1 < m + 2 /\ 1..(m + 2) = (1..m) \cup {m + 1, m + 2}
      /\ (m + 1) - m = 1 /\ (m + 2) - m = 2 /\ ~(m + 1 <= m) /\ ~(m + 2 <= m)
      /\ \A i \in 1..m : i <= m /\ i < m + 1 /\ i < m + 2 /\ i \in 1..(m + 2)
  BY <1>4
<1>6. t[m + 1] = a /\ t[m + 2] = b
  BY <1>1, <1>3, <1>5
<1>7. \A i \in 1..m : t[i] = s[i]
  BY <1>3, <1>5
<1>8. Extends(s, t)
  BY <1>4, <1>5, <1>7 DEF Extends
<1>9. Contains(t, b)
  BY <1>4, <1>5, <1>6 DEF Contains
<1> QED
  BY <1>3, <1>4, <1>5, <1>6, <1>8, <1>9

\* One element less.
LEMMA OneLess ==
    ASSUME NEW S, NEW s \in Seq(S), s # <<>>
    PROVE  /\ Tail(s) \in Seq(S) /\ Head(s) \in S
           /\ 1 \in DOMAIN s /\ Head(s) = s[1] /\ \A i \in DOMAIN s : i # 1 => 1 < i
           /\ \A k \in DOMAIN Tail(s) : k + 1 \in DOMAIN s /\ Tail(s)[k] = s[k + 1] /\ 1 < k + 1
           /\ \A i \in DOMAIN s : i # 1 => i - 1 \in DOMAIN Tail(s) /\ Tail(s)[i - 1] = s[i]
<1> DEFINE t == Tail(s)
           m == Len(s)
<1>1. /\ t \in Seq(S) /\ Head(s) \in S /\ Len(t) = m - 1 /\ Head(s) = s[1]
      /\ \A i \in 1..Len(t) : t[i] = s[i + 1]
  BY HeadTailProperties
<1>2. m \in Nat \ {0}
  BY EmptySeq
<1>3. DOMAIN s = 1..m /\ DOMAIN t = 1..(m - 1) /\ \A i \in 1..(m - 1) : t[i] = s[i + 1]
  BY <1>1, Places
<1> HIDE DEF t, m
<1>4. /\ 1 \in 1..m
      /\ \A i \in 1..m : i # 1 => 1 < i /\ i - 1 \in 1..(m - 1) /\ (i - 1) + 1 = i
      /\ \A k \in 1..(m - 1) : k + 1 \in 1..m /\ 1 < k + 1
  BY <1>2
<1>5. \A i \in 1..m : i # 1 => t[i - 1] = s[i]
  BY <1>3, <1>4
<1>6. \A k \in DOMAIN t : k + 1 \in DOMAIN s /\ t[k] = s[k + 1] /\ 1 < k + 1
  BY <1>3, <1>4
<1> QED
  BY <1>1, <1>3, <1>4, <1>5, <1>6 DEF t

\* Where the element k comes from if the element i is replaced by m elements.
Source(k, i, m) == IF k < i THEN k ELSE IF k < i + m THEN i ELSE k - m + 1

\* The places around the one that is replaced: from where each comes.
LEMMA Shift ==
    ASSUME NEW n \in Nat, NEW i \in 1..n, NEW m \in {1, 2}
    PROVE  /\ i \in Nat /\ i - 1 \in Nat /\ n - i \in Nat /\ m \in Nat /\ n + m - 1 \in Nat
           /\ 1 \in Int /\ i - 1 \in Int /\ i + 1 \in Int /\ n \in Int
           /\ ((i - 1) + m) + (n - i) = n + m - 1
           /\ i - 1 = (i - 1) - 1 + 1 /\ i - 1 = (IF 1 <= i - 1 THEN (i - 1) - 1 + 1 ELSE 0)
           /\ n - i = n - (i + 1) + 1
           /\ n - i = (IF i + 1 <= n THEN n - (i + 1) + 1 ELSE 0)
           /\ \A j \in 1..(i - 1) : j \in 1..n /\ 1 + j - 1 = j
           /\ \A j \in (i + 1)..n : j \in 1..n
           /\ \A j \in 1..(n - i) : (i + 1) + j - 1 = i + j
<1>1. n - i \in Nat /\ i \in Nat
  OBVIOUS
<1> QED
  BY <1>1

\* Where one place comes from.
LEMMA ShiftEach ==
    ASSUME NEW n \in Nat, NEW i \in 1..n, NEW m \in {1, 2}, NEW k \in 1..(n + m - 1)
    PROVE  /\ k < i => /\ k <= (i - 1) + m /\ k \in 1..((i - 1) + m)
                       /\ k <= i - 1 /\ k \in 1..(i - 1) /\ k \in 1..n
           /\ (~(k < i) /\ k < i + m) =>
                       /\ k <= (i - 1) + m /\ k \in 1..((i - 1) + m)
                       /\ ~(k <= i - 1) /\ (k = i => k - (i - 1) = 1)
                       /\ (k # i => m = 2 /\ k - (i - 1) = 2)
           /\ (~(k < i) /\ ~(k < i + m)) =>
                       /\ ~(k <= (i - 1) + m) /\ k - ((i - 1) + m) \in 1..(n - i)
                       /\ i + (k - ((i - 1) + m)) = k - m + 1
                       /\ k - m + 1 \in 1..n /\ k - m + 1 # i
OBVIOUS

\* The places keep their order.
LEMMA ShiftMonotone ==
    ASSUME NEW n \in Nat, NEW i \in 1..n, NEW m \in {1, 2},
           NEW k \in 1..(n + m - 1), NEW l \in 1..(n + m - 1), k < l
    PROVE  \/ Source(k, i, m) < Source(l, i, m)
           \/ Source(k, i, m) = i /\ Source(l, i, m) = i /\ l # i
BY DEF Source

\* Every other place is still there.
LEMMA ShiftOnto ==
    ASSUME NEW n \in Nat, NEW i \in 1..n, NEW m \in {1, 2}, NEW j \in 1..n, j # i
    PROVE  \E k \in 1..(n + m - 1) : Source(k, i, m) = j
<1>1. CASE j < i
  BY <1>1 DEF Source
<1>2. CASE j > i
  <2>1. j + m - 1 \in 1..(n + m - 1) /\ ~(j + m - 1 < i) /\ ~(j + m - 1 < i + m)
        /\ (j + m - 1) - m + 1 = j
    BY <1>2
  <2> QED
    BY <2>1 DEF Source
<1> QED
  BY <1>1, <1>2

\* The elements before the one that is replaced.
LEMMA PartBefore ==
    ASSUME NEW S, NEW s, NEW i \in Nat, i # 0, \A j \in 1..(i - 1) : s[j] \in S
    PROVE  /\ SubSeq(s, 1, i - 1) \in Seq(S) /\ Len(SubSeq(s, 1, i - 1)) = i - 1
           /\ \A j \in 1..(i - 1) : SubSeq(s, 1, i - 1)[j] = s[j]
<1> DEFINE p == i - 1
<1>1. p \in Int /\ 1 \in Int /\ \A j \in 1..p : s[j] \in S
  OBVIOUS
<1>2. p >= 0
  OBVIOUS
<1> HIDE DEF p
<1>3. /\ SubSeq(s, 1, p) \in Seq(S)
      /\ Len(SubSeq(s, 1, p)) = IF 1 <= p THEN p - 1 + 1 ELSE 0
      /\ \A j \in 1..(p - 1 + 1) : SubSeq(s, 1, p)[j] = s[1 + j - 1]
  BY <1>1, SubSeqProperties
<1>4. p - 1 + 1 = p /\ (IF 1 <= p THEN p - 1 + 1 ELSE 0) = p /\ \A j \in 1..p : 1 + j - 1 = j
  BY <1>1, <1>2
<1>5. /\ SubSeq(s, 1, p) \in Seq(S) /\ Len(SubSeq(s, 1, p)) = p
      /\ \A j \in 1..p : SubSeq(s, 1, p)[j] = s[j]
  BY <1>3, <1>4
<1> QED
  BY <1>5 DEF p

\* The elements after it.
LEMMA PartAfter ==
    ASSUME NEW S, NEW s, NEW i \in Nat, NEW n \in Nat, i <= n, \A j \in (i + 1)..n : s[j] \in S
    PROVE  /\ SubSeq(s, i + 1, n) \in Seq(S) /\ Len(SubSeq(s, i + 1, n)) = n - i
           /\ \A j \in 1..(n - i) : SubSeq(s, i + 1, n)[j] = s[i + j]
<1> DEFINE p == i + 1
<1>1. p \in Int /\ n \in Int /\ \A j \in p..n : s[j] \in S
  OBVIOUS
<1>2. n - p + 1 = n - i /\ (IF p <= n THEN n - p + 1 ELSE 0) = n - i
      /\ \A j \in 1..(n - i) : p + j - 1 = i + j
  OBVIOUS
<1> HIDE DEF p
<1>3. /\ SubSeq(s, p, n) \in Seq(S)
      /\ Len(SubSeq(s, p, n)) = IF p <= n THEN n - p + 1 ELSE 0
      /\ \A j \in 1..(n - p + 1) : SubSeq(s, p, n)[j] = s[p + j - 1]
  BY <1>1, SubSeqProperties
<1>4. /\ SubSeq(s, p, n) \in Seq(S) /\ Len(SubSeq(s, p, n)) = n - i
      /\ \A j \in 1..(n - i) : SubSeq(s, p, n)[j] = s[i + j]
  BY <1>2, <1>3
<1> QED
  BY <1>4 DEF p

\* s with its element i replaced by the elements of u; at says from where each comes.
Splice(s, i, u) == SubSeq(s, 1, i - 1) \o u \o SubSeq(s, i + 1, Len(s))

ComesFrom(s, i, u, t, at) ==
    /\ \A k \in DOMAIN t :
          /\ at[k] # i => t[k] = s[at[k]]
          /\ at[k] = i => (t[k] = u[1] \/ (Len(u) = 2 /\ t[k] = u[2]))
    /\ \A k, l \in DOMAIN t :
          k < l => (at[k] < at[l] \/ (at[k] = i /\ at[l] = i /\ Len(u) = 2 /\ t[l] = u[2]))
    /\ \A j \in DOMAIN s : j # i => \E k \in DOMAIN t : at[k] = j

\* A replaced element leaves the others where they were among each other.
LEMMA Replaced ==
    ASSUME NEW S, NEW s \in Seq(S), NEW i \in DOMAIN s, NEW u \in Seq(S), Len(u) \in {1, 2}
    PROVE  /\ Splice(s, i, u) \in Seq(S)
           /\ \E at \in [DOMAIN Splice(s, i, u) -> DOMAIN s] : ComesFrom(s, i, u, Splice(s, i, u), at)
<1> DEFINE n == Len(s)
           m == Len(u)
           x == SubSeq(s, 1, i - 1)
           z == SubSeq(s, i + 1, n)
           w == x \o u
           t == w \o z
<1>1. n \in Nat /\ DOMAIN s = 1..n /\ i \in 1..n /\ m \in {1, 2}
  BY Places
<1>2. \A j \in 1..n : s[j] \in S
  BY <1>1, Places
<1> HIDE DEF n, m
<1>3. /\ i \in Nat /\ i - 1 \in Nat /\ n - i \in Nat /\ m \in Nat /\ n + m - 1 \in Nat
      /\ 1 \in Int /\ i - 1 \in Int /\ i + 1 \in Int /\ n \in Int
      /\ ((i - 1) + m) + (n - i) = n + m - 1
      /\ i - 1 = (i - 1) - 1 + 1 /\ i - 1 = (IF 1 <= i - 1 THEN (i - 1) - 1 + 1 ELSE 0)
      /\ n - i = n - (i + 1) + 1
      /\ n - i = (IF i + 1 <= n THEN n - (i + 1) + 1 ELSE 0)
      /\ \A j \in 1..(i - 1) : j \in 1..n /\ 1 + j - 1 = j
      /\ \A j \in (i + 1)..n : j \in 1..n
      /\ \A j \in 1..(n - i) : (i + 1) + j - 1 = i + j
  BY <1>1, Shift, ZenonT(30)
<1>4. x \in Seq(S) /\ Len(x) = i - 1 /\ \A j \in 1..(i - 1) : x[j] = s[j]
  <2>1. \A j \in 1..(i - 1) : s[j] \in S
    BY <1>2, <1>3
  <2>2. i \in Nat /\ i # 0
    BY <1>1, <1>3
  <2> QED
    BY <2>1, <2>2, PartBefore
<1>5. z \in Seq(S) /\ Len(z) = n - i /\ \A j \in 1..(n - i) : z[j] = s[i + j]
  <2>1. \A j \in (i + 1)..n : s[j] \in S
    BY <1>2, <1>3
  <2>2. i \in Nat /\ n \in Nat /\ i <= n
    BY <1>1, <1>3
  <2> QED
    BY <2>1, <2>2, PartAfter
<1> HIDE DEF x, z
<1>6. /\ w \in Seq(S) /\ Len(w) = (i - 1) + m
      /\ \A k \in 1..((i - 1) + m) : w[k] = IF k <= i - 1 THEN x[k] ELSE u[k - (i - 1)]
  <2>1. /\ x \o u \in Seq(S) /\ Len(x \o u) = Len(x) + Len(u)
        /\ \A k \in 1..(Len(x) + Len(u)) : (x \o u)[k] = IF k <= Len(x) THEN x[k] ELSE u[k - Len(x)]
    BY <1>4, ConcatProperties, Zenon
  <2> QED
    BY <1>4, <2>1, Zenon DEF m, w
<1> HIDE DEF w
<1>7. /\ t \in Seq(S) /\ Len(t) = ((i - 1) + m) + (n - i)
      /\ \A k \in 1..(((i - 1) + m) + (n - i)) :
            t[k] = IF k <= (i - 1) + m THEN w[k] ELSE z[k - ((i - 1) + m)]
  <2>1. /\ w \o z \in Seq(S) /\ Len(w \o z) = Len(w) + Len(z)
        /\ \A k \in 1..(Len(w) + Len(z)) : (w \o z)[k] = IF k <= Len(w) THEN w[k] ELSE z[k - Len(w)]
    BY <1>5, <1>6, ConcatProperties, Zenon
  <2> QED
    BY <1>5, <1>6, <2>1, Zenon DEF t
<1> HIDE DEF t
<1>8. DOMAIN t = 1..Len(t)
  BY <1>7, Places
<1>9. DOMAIN t = 1..(n + m - 1)
  BY <1>3, <1>7, <1>8, Zenon
<1>10. \A k \in 1..(n + m - 1) : t[k] = IF k <= (i - 1) + m THEN w[k] ELSE z[k - ((i - 1) + m)]
  BY <1>3, <1>7, Zenon
<1> DEFINE from(k) == Source(k, i, m)
           at == [k \in DOMAIN t |-> from(k)]
<1>11. ASSUME NEW k \in 1..(n + m - 1)
       PROVE  /\ from(k) \in 1..n
              /\ from(k) # i => t[k] = s[from(k)]
              /\ from(k) = i => (t[k] = u[1] \/ (m = 2 /\ t[k] = u[2]))
              /\ from(k) = i /\ k # i => m = 2 /\ t[k] = u[2]
  <2>1. CASE k < i
    <3>1. /\ k <= (i - 1) + m /\ k \in 1..((i - 1) + m)
          /\ k <= i - 1 /\ k \in 1..(i - 1) /\ k \in 1..n
      BY <1>1, <2>1, ShiftEach
    <3>2. t[k] = s[k]
      BY <1>4, <1>6, <1>10, <3>1
    <3>3. from(k) = k /\ from(k) # i
      BY <1>3, <2>1 DEF Source
    <3> HIDE DEF from
    <3> QED
      BY <3>1, <3>2, <3>3
  <2>2. CASE ~(k < i) /\ k < i + m
    <3>1. /\ k <= (i - 1) + m /\ k \in 1..((i - 1) + m)
          /\ ~(k <= i - 1) /\ (k = i => k - (i - 1) = 1)
          /\ (k # i => m = 2 /\ k - (i - 1) = 2)
      BY <1>1, <2>2, ShiftEach
    <3>2. t[k] = u[k - (i - 1)]
      BY <1>6, <1>10, <3>1
    <3>3. from(k) = i
      BY <2>2 DEF Source
    <3> HIDE DEF from
    <3> QED
      BY <1>1, <3>1, <3>2, <3>3
  <2>3. CASE ~(k < i) /\ ~(k < i + m)
    <3>1. /\ ~(k <= (i - 1) + m) /\ k - ((i - 1) + m) \in 1..(n - i)
          /\ i + (k - ((i - 1) + m)) = k - m + 1
          /\ k - m + 1 \in 1..n /\ k - m + 1 # i
      BY <1>1, <2>3, ShiftEach
    <3>2. t[k] = s[k - m + 1]
      BY <1>5, <1>10, <3>1
    <3>3. from(k) = k - m + 1
      BY <2>3 DEF Source
    <3>4. from(k) # i
      BY <3>1, <3>3, Zenon
    <3> HIDE DEF from
    <3> QED
      BY <3>1, <3>2, <3>3, <3>4
  <2> QED
    BY <2>1, <2>2, <2>3
<1>12. ASSUME NEW k \in 1..(n + m - 1), NEW l \in 1..(n + m - 1), k < l
       PROVE  from(k) < from(l) \/ (from(k) = i /\ from(l) = i /\ l # i)
  BY <1>1, <1>12, ShiftMonotone
<1>13. ASSUME NEW j \in 1..n, j # i PROVE \E k \in 1..(n + m - 1) : from(k) = j
  BY <1>1, <1>13, ShiftOnto, ZenonT(30)
<1> HIDE DEF from
<1>14. \A k \in DOMAIN t : at[k] = from(k)
  OBVIOUS
<1>15. at \in [DOMAIN t -> DOMAIN s]
  BY <1>1, <1>9, <1>11
<1> HIDE DEF at
<1>16. \A k \in DOMAIN t :
          /\ at[k] # i => t[k] = s[at[k]]
          /\ at[k] = i => (t[k] = u[1] \/ (m = 2 /\ t[k] = u[2]))
  BY <1>9, <1>11, <1>14
<1>17. \A k, l \in DOMAIN t :
          k < l => (at[k] < at[l] \/ (at[k] = i /\ at[l] = i /\ m = 2 /\ t[l] = u[2]))
  BY <1>9, <1>11, <1>12, <1>14
<1>18. \A j \in DOMAIN s : j # i => \E k \in DOMAIN t : at[k] = j
  BY <1>1, <1>9, <1>13, <1>14
<1>19. ComesFrom(s, i, u, t, at)
  BY <1>16, <1>17, <1>18 DEF ComesFrom, m
<1>20. t = Splice(s, i, u)
  BY DEF t, w, x, z, n, Splice
<1> QED
  BY <1>7, <1>15, <1>19, <1>20

-----------------------------------------------------------------------------
(* What a step does to the lines and the keys *)

\* The commands are numbered from 1.
LEMMA Numbers ==
    /\ Commands = 1..Len(Lines) /\ Len(Lines) \in Commands /\ 1 \in Commands
    /\ Commands \subseteq Nat /\ 0 \notin Commands
    /\ \A c \in Commands : c # Len(Lines) => c + 1 \in Commands
    /\ \A c \in Commands : Count(c) \in Nat /\ Codes[c] \in Nat
<1> DEFINE Texts == Seq(SUBSET Signs)
<1>1. Lines \in Seq(Texts) /\ Lines # <<>> /\ Codes \in [Commands -> Nat]
  BY ControlAssumption
<1> HIDE DEF Texts
<1>2. Commands = 1..Len(Lines) /\ \A c \in Commands : Count(c) \in Nat
  <2>1. Commands = 1..Len(Lines) /\ \A c \in Commands : Lines[c] \in Texts
    BY <1>1, Places DEF Commands
  <2>2. \A text \in Texts : Len(text) \in Nat
    BY Places DEF Texts
  <2> QED
    BY <2>1, <2>2 DEF Count
<1>3. Len(Lines) \in Nat \ {0}
  BY <1>1, EmptySeq
<1> DEFINE n == Len(Lines)
<1>4. n \in Nat \ {0}
  BY <1>3
<1> HIDE DEF n
<1>5. n \in 1..n /\ 1 \in 1..n /\ 1..n \subseteq Nat /\ 0 \notin 1..n
      /\ \A c \in 1..n : c # n => c + 1 \in 1..n
  BY <1>4
<1> QED
  BY <1>1, <1>2, <1>5 DEF n

\* An end that was broken is still an end or begins like one; its code may lack a digit.
Similar(line, new) ==
    \/ new = line
    \/ /\ line.kind = "end" /\ new.kind \in Ends /\ new.cmd = line.cmd
       /\ line.cmd \in spoilt'
       /\ new.kind = "end" => line.n > 9 /\ new.n = line.n \div 10

\* What is marked in t comes from s, in the same order.
Comes(s, t) ==
    \E at \in [DOMAIN t -> Nat] :
        /\ \A k \in DOMAIN t : t[k].cmd # 0 => at[k] \in DOMAIN s /\ Similar(s[at[k]], t[k])
        /\ \A k, l \in DOMAIN t : k < l /\ t[k].cmd # 0 /\ t[l].cmd # 0 => at[k] < at[l]

\* Nothing changes, nothing that is marked is added, or the first one goes.
LEMMA ComesMore ==
    ASSUME NEW S, NEW s \in Seq(S), NEW t \in Seq(S), Extends(s, t),
           \A k \in DOMAIN t \ DOMAIN s : t[k].cmd = 0
    PROVE  Comes(s, t)
<1> DEFINE at == [k \in DOMAIN t |-> k]
<1>1. DOMAIN t \subseteq Nat
  BY Places
<1>2. at \in [DOMAIN t -> Nat] /\ \A k \in DOMAIN t : at[k] = k
  BY <1>1
<1> HIDE DEF at
<1>3. \A k \in DOMAIN t : t[k].cmd # 0 => at[k] \in DOMAIN s /\ Similar(s[at[k]], t[k])
  BY <1>2 DEF Extends, Similar
<1> QED
  BY <1>2, <1>3 DEF Comes

\* Nothing changes.
LEMMA ComesSame == ASSUME NEW S, NEW s \in Seq(S) PROVE Comes(s, s)
<1>1. Extends(s, s)
  BY DEF Extends
<1> QED
  BY <1>1, ComesMore

\* Everything goes.
LEMMA ComesNone == ASSUME NEW s PROVE Comes(s, <<>>)
<1>1. DOMAIN <<>> = {}
  BY DEF Comes
<1>2. <<>> \in [DOMAIN <<>> -> Nat]
  BY <1>1
<1> QED
  BY <1>1, <1>2 DEF Comes

\* The first one goes.
LEMMA ComesTail == ASSUME NEW S, NEW s \in Seq(S), s # <<>> PROVE Comes(s, Tail(s))
<1> DEFINE t == Tail(s)
           at == [k \in DOMAIN t |-> k + 1]
<1>1. t \in Seq(S) /\ \A k \in DOMAIN t : k + 1 \in DOMAIN s /\ t[k] = s[k + 1]
  BY OneLess
<1>2. DOMAIN t \subseteq Nat /\ DOMAIN s \subseteq Nat
  BY <1>1, Places
<1> HIDE DEF t
<1>3. at \in [DOMAIN t -> Nat] /\ \A k \in DOMAIN t : at[k] = k + 1
  BY <1>2
<1>4. \A k, l \in DOMAIN t : k < l => k + 1 < l + 1
  BY <1>2
<1> HIDE DEF at
<1>5. \A k \in DOMAIN t : t[k].cmd # 0 => at[k] \in DOMAIN s /\ Similar(s[at[k]], t[k])
  BY <1>1, <1>3 DEF Similar
<1>6. \A k, l \in DOMAIN t : k < l => at[k] < at[l]
  BY <1>3, <1>4
<1>7. Comes(s, t)
  BY <1>3, <1>5, <1>6 DEF Comes
<1> QED
  BY <1>7 DEF t

\* Fields of a line or a key that is made.
LEMMA Made ==
    ASSUME NEW kind \in Kinds, NEW c \in Commands \cup {0}, NEW n \in Nat
    PROVE  /\ Of(kind, c, n) \in Line /\ Of(kind, c, n).kind = kind
           /\ Of(kind, c, n).cmd = c /\ Of(kind, c, n).n = n
           /\ Plain(kind) \in Line /\ Plain(kind).kind = kind /\ Plain(kind).cmd = 0
BY DEF Of, Plain, Line

\* What a line breaks into.
LEMMA BrokenLines ==
    ASSUME NEW line \in Line, line.kind \in Marks <=> line.cmd # 0,
           NEW new \in Broken(line), line.cmd \in spoilt'
    PROVE  /\ new \in Seq(Line) /\ Len(new) \in {1, 2}
           /\ Len(new) = 2 => new[2] = Plain("noise")
           /\ \/ new[1] = Plain("noise")
              \/ new[1].kind \in Ends /\ line.cmd # 0 /\ Similar(line, new[1])
<1> DEFINE noise == Plain("noise")
           bad   == Of("badend", line.cmd, 0)
           short == Of("end", line.cmd, line.n \div 10)
<1>1. line.cmd \in Commands \cup {0} /\ line.n \in Nat
  BY DEF Line
<1>2. line.n \div 10 \in Nat
  BY <1>1
<1>3. noise \in Line /\ bad \in Line /\ short \in Line
  BY <1>1, <1>2, Made DEF Kinds
<1>4. /\ bad.kind = "badend" /\ bad.cmd = line.cmd
      /\ short.kind = "end" /\ short.cmd = line.cmd /\ short.n = line.n \div 10
  BY DEF Of
<1>5. \/ new = <<noise>> \/ new = <<noise, noise>>
      \/ line.kind = "end" /\ new = <<bad>>
      \/ line.kind = "end" /\ line.n > 9 /\ new = <<short, noise>>
  BY DEF Broken
<1> HIDE DEF noise, bad, short
<1>6. CASE new = <<noise>> \/ new = <<noise, noise>>
  <2>1. /\ <<noise>> \in Seq(Line) /\ Len(<<noise>>) = 1 /\ <<noise>>[1] = noise
        /\ <<noise, noise>> \in Seq(Line) /\ Len(<<noise, noise>>) = 2
        /\ <<noise, noise>>[1] = noise /\ <<noise, noise>>[2] = noise
    BY <1>3
  <2> QED
    BY <1>6, <2>1 DEF noise
<1>7. CASE line.kind = "end" /\ new = <<bad>>
  <2>1. new \in Seq(Line) /\ Len(new) = 1 /\ new[1] = bad
    BY <1>3, <1>7
  <2>2. Similar(line, bad) /\ bad.kind \in Ends /\ line.cmd # 0
    BY <1>4, <1>7 DEF Similar, Ends, Marks
  <2> QED
    BY <2>1, <2>2
<1>8. CASE line.kind = "end" /\ line.n > 9 /\ new = <<short, noise>>
  <2>1. new \in Seq(Line) /\ Len(new) = 2 /\ new[1] = short /\ new[2] = noise
    BY <1>3, <1>8
  <2>2. Similar(line, short) /\ short.kind \in Ends /\ line.cmd # 0
    BY <1>4, <1>8 DEF Similar, Ends, Marks
  <2> QED
    BY <2>1, <2>2 DEF noise
<1> QED
  BY <1>5, <1>6, <1>7, <1>8

\* Where the lines are after one of them broke.
BrokeAt(i, at) ==
    /\ spoilt' = spoilt \cup {rx[i].cmd}
    /\ \A k \in DOMAIN rx' :
          /\ at[k] # i => rx'[k] = rx[at[k]]
          /\ at[k] = i => \/ rx'[k] = Plain("noise")
                          \/ rx'[k].kind \in Ends /\ rx[i].cmd # 0 /\ Similar(rx[i], rx'[k])
    /\ \A k, l \in DOMAIN rx' : k < l =>
          \/ at[k] < at[l]
          \/ rx'[l] = Plain("noise") /\ at[k] = i /\ at[l] = i
    /\ \A j \in DOMAIN rx : j # i => \E k \in DOMAIN rx' : at[k] = j

\* A step that breaks a line.
LEMMA BreakMoves ==
    ASSUME ShellTypeInv, Break
    PROVE  /\ rx' \in Seq(Line)
           /\ \E i \in DOMAIN rx : \E at \in [DOMAIN rx' -> DOMAIN rx] : BrokeAt(i, at)
<1>1. PICK i \in DOMAIN rx : \E new \in Broken(rx[i]) :
          /\ rx' = Splice(rx, i, new)
          /\ spoilt' = spoilt \cup {rx[i].cmd}
  BY DEF Break, Splice
<1>2. PICK new \in Broken(rx[i]) :
          /\ rx' = Splice(rx, i, new)
          /\ spoilt' = spoilt \cup {rx[i].cmd}
  BY <1>1
<1>3. rx \in Seq(Line) /\ rx[i] \in Line /\ (rx[i].kind \in Marks <=> rx[i].cmd # 0)
  BY Places DEF ShellTypeInv, ShellTypeOK, Marked, MarkedLines
<1>4. rx[i].cmd \in spoilt'
  BY <1>2
<1>5. /\ new \in Seq(Line) /\ Len(new) \in {1, 2}
      /\ Len(new) = 2 => new[2] = Plain("noise")
      /\ \/ new[1] = Plain("noise")
         \/ new[1].kind \in Ends /\ rx[i].cmd # 0 /\ Similar(rx[i], new[1])
  BY <1>3, <1>4, BrokenLines
<1>6. /\ rx' \in Seq(Line)
      /\ \E at \in [DOMAIN rx' -> DOMAIN rx] : ComesFrom(rx, i, new, rx', at)
  BY <1>2, <1>3, <1>5, Replaced
<1>8. PICK at \in [DOMAIN rx' -> DOMAIN rx] : ComesFrom(rx, i, new, rx', at)
  BY <1>6
<1>9. BrokeAt(i, at)
  BY <1>2, <1>5, <1>8 DEF BrokeAt, ComesFrom
<1> QED
  BY <1>6, <1>9

\* Steps after which the marked lines and the typed commands are those there were.
RxQuiet    == rx' \in Seq(Line) /\ MarkedLines(rx') /\ Comes(rx, rx')
TypedQuiet == typed' \in Seq(Keys) /\ MarkedKeys(typed') /\ Comes(typed, typed')
ConsoleQuiet ==
    /\ console' \in [state : {"login", "password", "shell", "run"},
                     cmd : Commands \cup {0}, next : Nat]
    /\ console'.cmd = console.cmd /\ console'.next = console.next
    /\ console'.state = "run" => console.state = "run"
Quiet ==
    /\ RxQuiet /\ TypedQuiet /\ ConsoleQuiet
    /\ ended' = ended /\ spoilt \subseteq spoilt' /\ spoilt' \subseteq Commands \cup {0}

\* The device only adds lines without a mark.
PlainMore ==
    /\ rx' \in Seq(Line) /\ Extends(rx, rx')
    /\ \A k \in DOMAIN rx' \ DOMAIN rx : rx'[k].cmd = 0 /\ rx'[k].kind \notin Marks

\* The types of the lines, of the keys and of the console.
LEMMA Types1 ==
    ASSUME ShellTypeInv
    PROVE  /\ rx \in Seq(Line) /\ MarkedLines(rx) /\ typed \in Seq(Keys) /\ MarkedKeys(typed)
           /\ console.cmd \in Commands \cup {0} /\ console.next \in Nat
           /\ console.state \in {"login", "password", "shell", "run"}
           /\ console = [state |-> console.state, cmd |-> console.cmd, next |-> console.next]
           /\ console.state = "run" => console.cmd \in Commands
BY DEF ShellTypeInv, ShellTypeOK, Marked

\* The lines stay.
LEMMA RxSame == ASSUME ShellTypeInv, rx' = rx PROVE RxQuiet
BY Types1, ComesSame DEF RxQuiet, MarkedLines

\* The controller takes a line.
LEMMA RxTail == ASSUME ShellTypeInv, rx # <<>>, rx' = Tail(rx) PROVE RxQuiet
<1>1. Tail(rx) \in Seq(Line) /\ MarkedLines(Tail(rx))
  BY Types1, OneLess DEF MarkedLines
<1>2. Comes(rx, Tail(rx))
  BY Types1, ComesTail
<1> QED
  BY <1>1, <1>2 DEF RxQuiet, MarkedLines

\* Unmarked lines are added.
LEMMA RxPlain == ASSUME ShellTypeInv, PlainMore PROVE RxQuiet
<1>1. MarkedLines(rx')
  BY Types1 DEF PlainMore, MarkedLines, Extends
<1>2. Comes(rx, rx')
  BY Types1, ComesMore DEF PlainMore
<1> QED
  BY <1>1, <1>2 DEF RxQuiet, PlainMore

\* A line breaks.
LEMMA RxBreak == ASSUME ShellTypeInv, Break PROVE RxQuiet
<1>1. rx' \in Seq(Line)
  BY BreakMoves
<1>2. PICK i \in DOMAIN rx : \E at \in [DOMAIN rx' -> DOMAIN rx] : BrokeAt(i, at)
  BY BreakMoves
<1>3. PICK at \in [DOMAIN rx' -> DOMAIN rx] : BrokeAt(i, at)
  BY <1>2
<1>4. DOMAIN rx \subseteq Nat /\ DOMAIN rx' \subseteq Nat
  BY <1>1, Types1, Places
<1>5. Plain("noise").cmd = 0 /\ Plain("noise").kind = "noise"
  BY DEF Plain
<1>6. ASSUME NEW k \in DOMAIN rx' PROVE rx'[k].kind \in Marks <=> rx'[k].cmd # 0
  <2>1. CASE at[k] # i
    BY <1>3, <2>1, Types1 DEF BrokeAt, MarkedLines
  <2>2. CASE at[k] = i
    BY <1>3, <1>5, <2>2 DEF BrokeAt, Similar, Marks, Ends
  <2> QED
    BY <2>1, <2>2
<1>7. ASSUME NEW k \in DOMAIN rx', rx'[k].cmd # 0
      PROVE  at[k] \in DOMAIN rx /\ Similar(rx[at[k]], rx'[k])
  <2>1. CASE at[k] # i
    BY <1>3, <2>1 DEF BrokeAt, Similar
  <2>2. CASE at[k] = i
    BY <1>3, <1>5, <1>7, <2>2 DEF BrokeAt
  <2> QED
    BY <2>1, <2>2
<1>8. \A k, l \in DOMAIN rx' : k < l /\ rx'[k].cmd # 0 /\ rx'[l].cmd # 0 => at[k] < at[l]
  BY <1>3, <1>5 DEF BrokeAt
<1>9. at \in [DOMAIN rx' -> Nat]
  BY <1>4
<1>10. Comes(rx, rx')
  BY <1>7, <1>8, <1>9 DEF Comes
<1> QED
  BY <1>1, <1>6, <1>10 DEF RxQuiet, MarkedLines

\* What is added to the lines is unmarked, if it is.
LEMMA PlainAdded ==
    ASSUME ShellTypeInv, NEW a \in Kinds \ Marks, NEW b \in Kinds \ Marks,
           Emits(<<Plain(a)>>) \/ Emits(<<Plain(a), Plain(b)>>)
    PROVE  PlainMore
<1> DEFINE x == Plain(a)
           y == Plain(b)
<1>1. x \in Line /\ y \in Line /\ x.cmd = 0 /\ y.cmd = 0 /\ x.kind \notin Marks /\ y.kind \notin Marks
  BY Made, Numbers
<1>2. rx' = rx \o <<x>> \/ rx' = rx \o <<x, y>>
  BY DEF Emits
<1> HIDE DEF x, y
<1>3. CASE rx' = rx \o <<x>>
  <2>1. rx' \in Seq(Line) /\ Extends(rx, rx') /\ \A k \in DOMAIN rx' \ DOMAIN rx : rx'[k] = x
    <3>1. rx' \in Seq(Line) /\ MoreBy(rx, rx', x)
      BY <1>1, <1>3, OneAdded, Types1, Zenon
    <3> QED
      BY <3>1 DEF MoreBy
  <2> QED
    BY <1>1, <2>1 DEF PlainMore
<1>4. CASE rx' = rx \o <<x, y>>
  <2>1. rx' \in Seq(Line) /\ Extends(rx, rx') /\ \A k \in DOMAIN rx' \ DOMAIN rx : rx'[k] \in {x, y}
    BY <1>1, <1>4, TwoMore, Types1, ZenonT(30)
  <2> QED
    BY <1>1, <2>1 DEF PlainMore
<1> QED
  BY <1>2, <1>3, <1>4

\* What is typed stays.
LEMMA TypedSame == ASSUME ShellTypeInv, typed' = typed PROVE TypedQuiet
BY Types1, ComesSame DEF TypedQuiet, MarkedKeys

\* The console takes a key.
LEMMA TypedTail == ASSUME ShellTypeInv, typed # <<>>, typed' = Tail(typed) PROVE TypedQuiet
<1>1. Tail(typed) \in Seq(Keys) /\ MarkedKeys(Tail(typed))
  BY Types1, OneLess DEF MarkedKeys
<1>2. Comes(typed, Tail(typed))
  BY Types1, ComesTail
<1> QED
  BY <1>1, <1>2 DEF TypedQuiet, MarkedKeys

\* The device boots.
LEMMA TypedNone == ASSUME typed' = <<>> PROVE TypedQuiet
<1>1. DOMAIN typed' = {} /\ typed' \in Seq(Keys)
  OBVIOUS
<1> QED
  BY <1>1, ComesNone DEF TypedQuiet, MarkedKeys

\* A key that is no command is typed.
LEMMA TypedPlain ==
    ASSUME ShellTypeInv, NEW kind \in {"enter", "name", "secret", "other"}, Types(kind, 0)
    PROVE  TypedQuiet
<1> DEFINE key == [kind |-> kind, cmd |-> 0]
<1>1. key \in Keys /\ key.cmd = 0 /\ key.kind # "command"
  BY DEF Keys
<1>2. typed' = Append(typed, key)
  BY DEF Types
<1> HIDE DEF key
<1>3. /\ typed' \in Seq(Keys) /\ Extends(typed, typed')
      /\ \A k \in DOMAIN typed' \ DOMAIN typed : typed'[k] = key
  <2>1. typed \in Seq(Keys)
    BY Types1
  <2> QED
    <3>1. typed' \in Seq(Keys) /\ MoreBy(typed, typed', key)
      BY <1>1, <1>2, <2>1, OneMore, Zenon
    <3> QED
      BY <3>1 DEF MoreBy
<1>4. Comes(typed, typed')
  BY <1>1, <1>3, ComesMore, Types1
<1>5. MarkedKeys(typed')
  BY <1>1, <1>3, Types1 DEF MarkedKeys, Extends
<1> QED
  BY <1>3, <1>4, <1>5 DEF TypedQuiet

-----------------------------------------------------------------------------
(* The kinds of steps *)

\* The device, without running a command or breaking a line.
DeviceIdles ==
    /\ UNCHANGED <<host, results, ended, spoilt>>
    /\ TypedQuiet /\ ConsoleQuiet /\ (rx' = rx \/ PlainMore)

\* The shell starts the command c.
Starts(c) ==
    /\ UNCHANGED <<host, results, ended, spoilt>>
    /\ console.state = "shell" /\ console' = [state |-> "run", cmd |-> c, next |-> 1]
    /\ typed # <<>> /\ typed' = Tail(typed) /\ Head(typed).kind = "command" /\ Head(typed).cmd = c
    /\ rx' = rx \o <<Of("echo", c, 0), Of("begin", c, 0)>>

\* The console changes its state, or does not.
LEMMA ConsoleTo ==
    ASSUME ShellTypeInv, NEW st \in {"login", "password", "shell"},
           console' = console \/ console' = [console EXCEPT !.state = st]
    PROVE  ConsoleQuiet
<1>1. console' = [state |-> console'.state, cmd |-> console.cmd, next |-> console.next]
      /\ (console'.state = console.state \/ console'.state = st)
  BY Types1
<1> QED
  BY <1>1, Types1 DEF ConsoleQuiet

\* The console idles or starts a command when it reads.
LEMMA ReadsKinds ==
    ASSUME ShellTypeInv, ConsoleReads
    PROVE  DeviceIdles \/ \E c \in Commands : Starts(c)
<1> DEFINE key == Head(typed)
<1>1. /\ typed # <<>> /\ typed' = Tail(typed) /\ UNCHANGED <<host, results, ended, spoilt>>
      /\ console.state \in {"login", "password", "shell"}
      /\ console.state = "login" => LoginReads(key)
      /\ console.state = "password" => PasswordReads(key)
      /\ console.state = "shell" => ShellReads(key)
  BY DEF ConsoleReads
<1>2. TypedQuiet
  BY <1>1, TypedTail
<1>3. key \in Keys /\ (key.kind = "command" <=> key.cmd # 0)
  BY <1>1, Types1, OneLess DEF MarkedKeys
<1> HIDE DEF key
<1>4. ASSUME NEW a \in Kinds \ Marks, NEW b \in Kinds \ Marks, NEW st \in {"login", "password", "shell"},
             Emits(<<Plain(a)>>) \/ Emits(<<Plain(a), Plain(b)>>),
             console' = console \/ console' = [console EXCEPT !.state = st]
      PROVE  DeviceIdles
  <2>1. PlainMore
    BY <1>4, PlainAdded
  <2>2. ConsoleQuiet
    BY <1>4, ConsoleTo
  <2> QED
    BY <1>1, <1>2, <2>1, <2>2 DEF DeviceIdles
<1>5. {"login", "password", "prompt", "noise"} \subseteq Kinds \ Marks
  BY DEF Kinds, Marks, Ends
<1>6. CASE console.state = "login"
  <2>1. \/ Emits(<<Plain("login")>>) /\ console' = console
        \/ Emits(<<Plain("password")>>) /\ console' = [console EXCEPT !.state = "password"]
    BY <1>1, <1>6 DEF LoginReads
  <2> QED
    BY <2>1, <1>4, <1>5
<1>7. CASE console.state = "password"
  <2>1. \/ Emits(<<Plain("prompt")>>) /\ console' = [console EXCEPT !.state = "shell"]
        \/ Emits(<<Plain("login")>>) /\ console' = [console EXCEPT !.state = "login"]
    BY <1>1, <1>7 DEF PasswordReads
  <2> QED
    BY <2>1, <1>4, <1>5
<1>8. CASE console.state = "shell"
  <2>1. CASE key.kind = "enter"
    <3>1. Emits(<<Plain("prompt")>>) /\ console' = console
      BY <1>1, <1>8, <2>1 DEF ShellReads
    <3> QED
      BY <3>1, <1>4, <1>5
  <2>2. CASE key.kind = "command"
    <3>1. key.cmd \in Commands
      BY <1>3, <2>2, Numbers DEF Keys
    <3>2. /\ Emits(<<Of("echo", key.cmd, 0), Of("begin", key.cmd, 0)>>)
          /\ console' = [state |-> "run", cmd |-> key.cmd, next |-> 1]
      BY <1>1, <1>8, <2>2 DEF ShellReads
    <3>3. Starts(key.cmd)
      BY <1>1, <1>8, <2>2, <3>2 DEF Starts, Emits, key
    <3> QED
      BY <3>1, <3>3
  <2>3. CASE key.kind \notin {"enter", "command"}
    <3>1. Emits(<<Plain("noise"), Plain("prompt")>>) /\ console' = console
      BY <1>1, <1>8, <2>3 DEF ShellReads
    <3> QED
      BY <3>1, <1>4, <1>5
  <2> QED
    BY <2>1, <2>2, <2>3
<1> QED
  BY <1>1, <1>6, <1>7, <1>8

\* The other steps that run no command.
LEMMA IdleKinds ==
    ASSUME ShellTypeInv, CommandReads \/ Boot \/ Noise \/ OtherTypes
    PROVE  DeviceIdles
<1>1. {"login", "noise"} \subseteq Kinds \ Marks
  BY DEF Kinds, Marks, Ends
<1>2. CASE CommandReads
  <2>1. /\ typed # <<>> /\ typed' = Tail(typed) /\ rx' = rx /\ console' = console
        /\ UNCHANGED <<host, results, ended, spoilt>>
    BY <1>2 DEF CommandReads
  <2> QED
    BY <2>1, TypedTail, ConsoleTo DEF DeviceIdles
<1>3. CASE Boot
  <2>1. /\ typed' = <<>> /\ Emits(<<Plain("noise"), Plain("login")>>)
        /\ console' = [console EXCEPT !.state = "login"]
        /\ UNCHANGED <<host, results, ended, spoilt>>
    BY <1>3 DEF Boot
  <2> QED
    BY <2>1, <1>1, TypedNone, ConsoleTo, PlainAdded DEF DeviceIdles
<1>4. CASE Noise
  <2>1. /\ typed' = typed /\ Emits(<<Plain("noise")>>) /\ console' = console
        /\ UNCHANGED <<host, results, ended, spoilt>>
    BY <1>4 DEF Noise
  <2> QED
    BY <2>1, <1>1, TypedSame, ConsoleTo, PlainAdded DEF DeviceIdles
<1>5. CASE OtherTypes
  <2>1. /\ Types("other", 0) /\ rx' = rx /\ console' = console
        /\ UNCHANGED <<host, results, ended, spoilt>>
    BY <1>5 DEF OtherTypes, Types
  <2> QED
    BY <2>1, TypedPlain, ConsoleTo DEF DeviceIdles
<1> QED
  BY <1>2, <1>3, <1>4, <1>5

\* The parts of the type invariant that the controller keeps.
HostOK(h) ==
    /\ h \in [pc : HostPcs, cmd : Commands, pokes : 0..MaxPokes, capture : BOOLEAN,
              output : Seq(Line), secret : BOOLEAN]
    /\ MarkedLines(h.output)

ResultOK(r) ==
    /\ r.how \in Hows /\ r.exit \in Nat \cup {NoCode}
    /\ DOMAIN r.output \subseteq Nat
    /\ \A i \in DOMAIN r.output : r.output[i] \in Line

\* The types of the controller and of what it has returned.
LEMMA Types2 ==
    ASSUME ShellTypeInv
    PROVE  /\ HostOK(host) /\ DOMAIN results = Commands /\ \A c \in Commands : ResultOK(results[c])
           /\ host.pc \in HostPcs /\ host.cmd \in Commands /\ host.pokes \in 0..MaxPokes
           /\ host.capture \in BOOLEAN /\ host.output \in Seq(Line) /\ host.secret \in BOOLEAN
           /\ MarkedLines(host.output)
           /\ ended \in [Commands -> Seq(Nat)] /\ spoilt \subseteq Commands \cup {0}
BY DEF ShellTypeInv, ShellTypeOK, HostOK, ResultOK, Marked

\* What the return of a call does.
Finished(result) ==
    /\ \A c \in Commands : results'[c] = IF c = host.cmd THEN result ELSE results[c]
    /\ host'.output = host.output /\ host'.capture = host.capture
    /\ \/ host'.pc = "done" /\ host'.cmd = host.cmd
       \/ host'.pc = "idle" /\ host'.cmd = host.cmd + 1

\* A return keeps the types.
LEMMA Finishes ==
    ASSUME ShellTypeInv, NEW how \in Hows, NEW exit \in Nat \cup {NoCode}, NEW output,
           DOMAIN output \subseteq Nat, \A i \in DOMAIN output : output[i] \in Line,
           Finish(how, exit, output)
    PROVE  /\ HostOK(host') /\ DOMAIN results' = Commands
           /\ \A c \in Commands : ResultOK(results'[c])
           /\ Finished([how |-> how, exit |-> exit, output |-> output])
<1> DEFINE nextPc  == IF host.cmd = Len(Lines) THEN "done" ELSE "idle"
           nextCmd == IF host.cmd = Len(Lines) THEN host.cmd ELSE host.cmd + 1
           result  == [how |-> how, exit |-> exit, output |-> output]
<1>1. /\ results' = [results EXCEPT ![host.cmd] = result]
      /\ host' = [host EXCEPT !.pc = nextPc, !.cmd = nextCmd]
  BY DEF Finish
<1>2. nextPc \in {"idle", "done"} /\ nextCmd \in Commands
  BY Types2, Numbers
<1>3. \/ nextPc = "done" /\ nextCmd = host.cmd
      \/ nextPc = "idle" /\ nextCmd = host.cmd + 1
  OBVIOUS
<1>4. ResultOK(result)
  BY DEF ResultOK
<1> HIDE DEF nextPc, nextCmd, result
<1>5. /\ host' \in [pc : HostPcs, cmd : Commands, pokes : 0..MaxPokes, capture : BOOLEAN,
                    output : Seq(Line), secret : BOOLEAN]
      /\ host'.output = host.output /\ host'.capture = host.capture
      /\ host'.pc = nextPc /\ host'.cmd = nextCmd
  BY <1>1, <1>2, Types2 DEF HostOK, HostPcs
<1>6. HostOK(host')
  BY <1>5, Types2 DEF HostOK
<1>7. DOMAIN results' = Commands
      /\ \A c \in Commands : results'[c] = IF c = host.cmd THEN result ELSE results[c]
  BY <1>1, Types2
<1>8. \A c \in Commands : ResultOK(results'[c])
  BY <1>4, <1>7, Types2
<1>9. Finished(result)
  BY <1>3, <1>5, <1>7 DEF Finished
<1> QED
  BY <1>6, <1>7, <1>8, <1>9 DEF result

\* What is taken out of an output is of it.
LEMMA Extraction ==
    ASSUME NEW c, NEW output \in Seq(Line)
    PROVE  LET some == Extracted(c, output) IN
           /\ DOMAIN some \subseteq DOMAIN output /\ DOMAIN some \subseteq Nat
           /\ \A i \in DOMAIN some : some[i] = output[i] /\ some[i] \in Line
           /\ Own(some) = Own(output)
           /\ c \in Structured /\ Own(output) # {} => DOMAIN some = Own(output)
<1>1. DOMAIN output \subseteq Nat /\ \A i \in DOMAIN output : output[i] \in Line
  BY Places
<1>2. Own(output) \subseteq DOMAIN output
  BY DEF Own
<1> DEFINE part == [i \in Own(output) |-> output[i]]
<1>3. DOMAIN part = Own(output) /\ \A i \in Own(output) : part[i] = output[i]
  OBVIOUS
<1>4. Extracted(c, output) = IF c \in Structured /\ Own(output) # {} THEN part ELSE output
  BY DEF Extracted
<1> HIDE DEF part
<1>5. Own(part) = Own(output)
  BY <1>2, <1>3 DEF Own
<1> QED
  BY <1>1, <1>2, <1>3, <1>4, <1>5

\* The call returns by a time-out or an error, or at the end of the command.
LEMMA Returns ==
    ASSUME ShellTypeInv
    PROVE  /\ Finish("raised", NoCode, <<>>) =>
                 /\ HostOK(host') /\ DOMAIN results' = Commands /\ \A c \in Commands : ResultOK(results'[c])
                 /\ Finished([how |-> "raised", exit |-> NoCode, output |-> <<>>])
           /\ CollectTimesOut =>
                 /\ HostOK(host') /\ DOMAIN results' = Commands /\ \A c \in Commands : ResultOK(results'[c])
                 /\ Finished([how |-> "timeout", exit |-> NoCode,
                              output |-> Extracted(host.cmd, host.output)])
           /\ CollectEnds =>
                 /\ HostOK(host') /\ DOMAIN results' = Commands /\ \A c \in Commands : ResultOK(results'[c])
                 /\ Finished([how |-> "ended", exit |-> ExitOf(Received),
                              output |-> Extracted(host.cmd, host.output)])
<1>1. {"raised", "timeout", "ended"} \subseteq Hows /\ NoCode \in Nat \cup {NoCode}
  BY DEF Hows
<1> DEFINE none == <<>>
           some == Extracted(host.cmd, host.output)
<1>2. DOMAIN none \subseteq Nat /\ \A i \in DOMAIN none : none[i] \in Line
  OBVIOUS
<1>3. DOMAIN some \subseteq Nat /\ \A i \in DOMAIN some : some[i] \in Line
  BY Types2, Extraction
<1> HIDE DEF none, some
<1>4. ASSUME Finish("raised", NoCode, none)
      PROVE  /\ HostOK(host') /\ DOMAIN results' = Commands /\ \A c \in Commands : ResultOK(results'[c])
             /\ Finished([how |-> "raised", exit |-> NoCode, output |-> none])
  BY <1>1, <1>2, <1>4, Finishes
<1>5. ASSUME CollectTimesOut
      PROVE  /\ HostOK(host') /\ DOMAIN results' = Commands /\ \A c \in Commands : ResultOK(results'[c])
             /\ Finished([how |-> "timeout", exit |-> NoCode, output |-> some])
  <2>1. Finish("timeout", NoCode, some)
    BY <1>5 DEF CollectTimesOut, some
  <2> QED
    BY <1>1, <1>3, <2>1, Finishes
<1>6. ASSUME CollectEnds
      PROVE  /\ HostOK(host') /\ DOMAIN results' = Commands /\ \A c \in Commands : ResultOK(results'[c])
             /\ Finished([how |-> "ended", exit |-> ExitOf(Received), output |-> some])
  <2>1. Finish("ended", ExitOf(Received), some) /\ rx # <<>>
    BY <1>6 DEF CollectEnds, some
  <2>2. Received \in Line
    BY <2>1, Types1, OneLess DEF Received
  <2>3. ExitOf(Received) \in Nat \cup {NoCode}
    BY <2>2 DEF ExitOf, Line
  <2> QED
    BY <1>1, <1>3, <2>1, <2>3, Finishes
<1> QED
  BY <1>4, <1>5, <1>6 DEF none, some

\* What a line may be taken for.
Keeps(line) == \E signs \in Held(line) : signs \cap Unwanted = {}
Drops(line) == \E signs \in Held(line) : signs \cap Unwanted # {}

\* What a call that collects does with a line.
LEMMA CollectMoves ==
    ASSUME ShellTypeInv, CollectReads
    PROVE  /\ host.pc = "collect" /\ rx # <<>> /\ ~IsEnd(Received) /\ rx' = Tail(rx)
           /\ UNCHANGED <<results, typed, console, ended, spoilt>>
           /\ HostOK(host') /\ host'.pc = "collect" /\ host'.cmd = host.cmd
           /\ host'.capture = (host.capture \/ IsBegin(Received))
           /\ \/ /\ host'.output = host.output
                 /\ ~host.capture \/ IsBegin(Received) \/ Drops(Received)
              \/ /\ host.capture /\ ~IsBegin(Received) /\ Keeps(Received)
                 /\ MoreBy(host.output, host'.output, Received)
<1>1. PICK signs \in Held(Received) :
          host' = [host EXCEPT
             !.capture = @ \/ IsBegin(Received),
             !.output  = IF Collects(signs) /\ ~IsBegin(Received) THEN Append(@, Received) ELSE @]
  BY DEF CollectReads
<1> DEFINE line == Received
           out  == IF Collects(signs) /\ ~IsBegin(line) THEN Append(host.output, line) ELSE host.output
           cap  == host.capture \/ IsBegin(line)
<1>0. /\ host.pc = "collect" /\ rx # <<>> /\ ~IsEnd(line) /\ rx' = Tail(rx)
      /\ UNCHANGED <<results, typed, console, ended, spoilt>>
      /\ host' = [host EXCEPT !.capture = cap, !.output = out]
  BY <1>1 DEF CollectReads
<1>2. line \in Line /\ (line.kind \in Marks <=> line.cmd # 0)
  BY <1>0, Types1, OneLess DEF Received, MarkedLines
<1>3. /\ out \in Seq(Line) /\ MarkedLines(out)
      /\ \/ /\ out = host.output
            /\ ~host.capture \/ IsBegin(line) \/ Drops(line)
         \/ /\ host.capture /\ ~IsBegin(line) /\ Keeps(line)
            /\ MoreBy(host.output, out, line)
  <2>1. CASE Collects(signs) /\ ~IsBegin(line)
    <3>1. out = Append(host.output, line) /\ host.capture /\ ~IsBegin(line) /\ Keeps(line)
      BY <2>1 DEF Collects, Keeps
    <3>2. host.output \in Seq(Line)
      BY Types2
    <3> HIDE DEF line, out
    <3>3. out \in Seq(Line) /\ MoreBy(host.output, out, line)
      BY <1>2, <3>1, <3>2, OneMore, Zenon
    <3>4. MarkedLines(out)
      BY <1>2, <3>3, Types2 DEF MoreBy, Extends, MarkedLines
    <3> QED
      BY <3>1, <3>3, <3>4
  <2>2. CASE ~(Collects(signs) /\ ~IsBegin(line))
    <3>1. out = host.output /\ (~host.capture \/ IsBegin(line) \/ Drops(line))
      BY <2>2 DEF Collects, Drops
    <3> QED
      BY <3>1, Types2
  <2> QED
    BY <2>1, <2>2
<1>4. cap \in BOOLEAN
  BY Types2 DEF IsBegin
<1>5. cap = (host.capture \/ IsBegin(line))
  OBVIOUS
<1> HIDE DEF line, out, cap
<1>6. /\ host' \in [pc : HostPcs, cmd : Commands, pokes : 0..MaxPokes, capture : BOOLEAN,
                    output : Seq(Line), secret : BOOLEAN]
      /\ host'.pc = host.pc /\ host'.cmd = host.cmd /\ host'.capture = cap /\ host'.output = out
  BY <1>0, <1>3, <1>4, Types2 DEF HostOK
<1> QED
  BY <1>0, <1>3, <1>5, <1>6 DEF HostOK, line

\* The controller adds no line and types nothing but keys.
LEMMA ControllerQuiet ==
    ASSUME ShellTypeInv, Controller, ~LoginSeesPrompt
    PROVE  Quiet /\ console' = console /\ spoilt' = spoilt
<1>1. console' = console /\ ended' = ended /\ spoilt' = spoilt
  BY DEF Controller, BeginLogin, LoginIsAsked, LoginIsAskedPassword, LoginSkips, LoginPokes,
         LoginTimesOut, CollectReads, CollectEnds, CollectTimesOut
<1>2. rx' = rx \/ (rx # <<>> /\ rx' = Tail(rx))
  BY DEF Controller, BeginLogin, LoginIsAsked, LoginIsAskedPassword, LoginSkips, LoginPokes,
         LoginTimesOut, CollectReads, CollectEnds, CollectTimesOut
<1>3. typed' = typed \/ \E kind \in {"enter", "name", "secret"} : Types(kind, 0)
  BY DEF Controller, BeginLogin, LoginIsAsked, LoginIsAskedPassword, LoginSkips, LoginPokes,
         LoginTimesOut, CollectReads, CollectEnds, CollectTimesOut
<1>4. RxQuiet
  BY <1>2, RxSame, RxTail
<1>5. TypedQuiet
  BY <1>3, TypedSame, TypedPlain
<1>6. ConsoleQuiet
  BY <1>1, ConsoleTo
<1> QED
  BY <1>1, <1>4, <1>5, <1>6, Types2 DEF Quiet

\* The controller keeps its types.
LEMMA ControllerTypes ==
    ASSUME ShellTypeInv, Controller
    PROVE  HostOK(host') /\ DOMAIN results' = Commands /\ \A c \in Commands : ResultOK(results'[c])
<1>1. host \in [pc : HostPcs, cmd : Commands, pokes : 0..MaxPokes, capture : BOOLEAN,
                output : Seq(Line), secret : BOOLEAN]
      /\ MarkedLines(host.output)
  BY Types2 DEF HostOK
<1>2. MaxPokes \in Nat
  BY ControlAssumption
<1>3. CASE BeginLogin
  <2>1. <<>> \in Seq(Line) /\ MarkedLines(<<>>) /\ 0 \in 0..MaxPokes /\ "login" \in HostPcs
    BY <1>2 DEF MarkedLines, HostPcs
  <2>2. /\ host' = [host EXCEPT !.pc = "login", !.pokes = 0, !.capture = FALSE, !.output = <<>>]
        /\ results' = results
    BY <1>3 DEF BeginLogin
  <2>3. /\ host' \in [pc : HostPcs, cmd : Commands, pokes : 0..MaxPokes, capture : BOOLEAN,
                      output : Seq(Line), secret : BOOLEAN]
        /\ host'.output = <<>>
    BY <1>1, <2>1, <2>2
  <2> QED
    BY <2>1, <2>2, <2>3, Types2 DEF HostOK
<1>4. CASE LoginSeesPrompt
  <2>1. host' = [host EXCEPT !.pc = "collect"] /\ results' = results /\ "collect" \in HostPcs
    BY <1>4 DEF LoginSeesPrompt, HostPcs
  <2>2. /\ host' \in [pc : HostPcs, cmd : Commands, pokes : 0..MaxPokes, capture : BOOLEAN,
                      output : Seq(Line), secret : BOOLEAN]
        /\ host'.output = host.output
    BY <1>1, <2>1
  <2> QED
    BY <1>1, <2>1, <2>2, Types2 DEF HostOK
<1>5. CASE LoginIsAsked \/ LoginSkips
  BY <1>5, Types2 DEF LoginIsAsked, LoginSkips
<1>6. CASE LoginIsAskedPassword
  <2>1. UNCHANGED <<host, results>> \/ Finish("raised", NoCode, <<>>)
    BY <1>6 DEF LoginIsAskedPassword
  <2> QED
    BY <2>1, Types2, Returns
<1>7. CASE LoginPokes
  <2>1. host' = [host EXCEPT !.pokes = host.pokes + 1] /\ results' = results /\ host.pokes < MaxPokes
    BY <1>7 DEF LoginPokes
  <2>2. host.pokes + 1 \in 0..MaxPokes
    BY <1>2, <2>1, Types2
  <2>3. /\ host' \in [pc : HostPcs, cmd : Commands, pokes : 0..MaxPokes, capture : BOOLEAN,
                      output : Seq(Line), secret : BOOLEAN]
        /\ host'.output = host.output
    BY <1>1, <2>1, <2>2
  <2> QED
    BY <1>1, <2>1, <2>3, Types2 DEF HostOK
<1>8. CASE LoginTimesOut
  BY <1>8, Returns DEF LoginTimesOut
<1>9. CASE CollectReads
  BY <1>9, CollectMoves, Types2
<1>10. CASE CollectEnds \/ CollectTimesOut
  BY <1>10, Returns
<1> QED
  BY <1>3, <1>4, <1>5, <1>6, <1>7, <1>8, <1>9, <1>10 DEF Controller

\* Each step is of one of these kinds.
LEMMA StepKinds ==
    ASSUME ShellTypeInv, [ShellNext]_shellVars
    PROVE  \/ UNCHANGED shellVars \/ DeviceIdles \/ Break
           \/ \E c \in Commands : Starts(c)
           \/ CommandPrints \/ CommandEnds
           \/ LoginSeesPrompt \/ (Controller /\ ~LoginSeesPrompt)
BY ReadsKinds, IdleKinds DEF ShellNext, Device, Controller

\* What the device does between the commands is quiet.
LEMMA QuietKinds ==
    ASSUME ShellTypeInv, UNCHANGED shellVars \/ DeviceIdles \/ Break
    PROVE  Quiet /\ UNCHANGED <<host, results>>
<1>1. CASE UNCHANGED shellVars
  BY <1>1, RxSame, TypedSame, ConsoleTo, Types2 DEF Quiet, shellVars
<1>2. CASE DeviceIdles
  BY <1>2, RxSame, RxPlain, Types2 DEF Quiet, DeviceIdles
<1>3. CASE Break
  <2>1. /\ UNCHANGED <<host, results, typed, console, ended>>
        /\ \E i \in DOMAIN rx : spoilt' = spoilt \cup {rx[i].cmd}
    BY <1>3 DEF Break
  <2>2. \A i \in DOMAIN rx : rx[i].cmd \in Commands \cup {0}
    <3>1. \A i \in DOMAIN rx : rx[i] \in Line
      BY Types1, Places
    <3> QED
      BY <3>1 DEF Line
  <2>3. TypedQuiet /\ ConsoleQuiet
    BY <2>1, TypedSame, ConsoleTo
  <2> QED
    BY <1>3, <2>1, <2>2, <2>3, RxBreak, Types2 DEF Quiet
<1> QED
  BY <1>1, <1>2, <1>3

\* The lines that the run of a command adds.
LEMMA StartsMoves ==
    ASSUME ShellTypeInv, NEW c \in Commands, Starts(c)
    PROVE  /\ UNCHANGED <<host, results, ended, spoilt>>
           /\ console'.state = "run" /\ console'.cmd = c /\ console'.next = 1
           /\ 1 \in DOMAIN typed /\ typed[1].cmd = c
           /\ typed' = Tail(typed) /\ typed' \in Seq(Keys) /\ MarkedKeys(typed')
           /\ rx' \in Seq(Line) /\ Extends(rx, rx')
           /\ \A k \in DOMAIN rx' \ DOMAIN rx : rx'[k] \in {Of("echo", c, 0), Of("begin", c, 0)}
           /\ \E k \in DOMAIN rx' : rx'[k] = Of("begin", c, 0)
<1> DEFINE echo  == Of("echo", c, 0)
           begin == Of("begin", c, 0)
<1>1. echo \in Line /\ begin \in Line
  BY Made DEF Kinds
<1>2. rx' = rx \o <<echo, begin>> /\ rx \in Seq(Line)
  BY Types1 DEF Starts
<1> HIDE DEF echo, begin
<1>3. /\ rx' \in Seq(Line) /\ Extends(rx, rx')
      /\ \A k \in DOMAIN rx' \ DOMAIN rx : rx'[k] \in {echo, begin}
  BY <1>1, <1>2, TwoMore
<1>4. typed' \in Seq(Keys) /\ MarkedKeys(typed')
  BY TypedTail DEF Starts, TypedQuiet
<1>6. Contains(rx', begin)
  BY <1>1, <1>2, TwoMore
<1>7. \E k \in DOMAIN rx' : rx'[k] = begin
  BY <1>6 DEF Contains
<1>5. 1 \in DOMAIN typed /\ typed[1].cmd = c
  BY Types1, OneLess DEF Starts
<1> QED
  BY <1>3, <1>4, <1>5, <1>7 DEF Starts, echo, begin

\* What printing a line changes.
LEMMA PrintsMoves ==
    ASSUME ShellTypeInv, CommandPrints
    PROVE  /\ UNCHANGED <<host, results, typed, ended, spoilt>>
           /\ console.state = "run" /\ console.cmd \in Commands /\ console.next <= Count(console.cmd)
           /\ console'.state = "run" /\ console'.cmd = console.cmd
           /\ console'.next = console.next + 1
           /\ Of("out", console.cmd, console.next) \in Line
           /\ rx' \in Seq(Line) /\ MoreBy(rx, rx', Of("out", console.cmd, console.next))
<1> DEFINE line == Of("out", console.cmd, console.next)
<1>1. line \in Line
  BY Made, Types1 DEF Kinds
<1>2. rx' = rx \o <<line>> /\ rx \in Seq(Line)
  BY Types1 DEF CommandPrints, Emits
<1>3. console.cmd \in Commands
  BY Types1 DEF CommandPrints
<1>4. /\ console'.state = "run" /\ console'.cmd = console.cmd /\ console'.next = console.next + 1
  BY Types1 DEF CommandPrints
<1> HIDE DEF line
<1>5. rx' \in Seq(Line) /\ MoreBy(rx, rx', line)
  BY <1>1, <1>2, OneAdded, Zenon
<1> QED
  BY <1>1, <1>3, <1>4, <1>5 DEF CommandPrints, line

\* What the end of a command changes.
LEMMA EndsMoves ==
    ASSUME ShellTypeInv, CommandEnds
    PROVE  /\ UNCHANGED <<host, results, typed, spoilt>>
           /\ console.state = "run" /\ console.cmd \in Commands /\ console.next > Count(console.cmd)
           /\ console'.state = "shell" /\ console'.cmd = console.cmd /\ console'.next = console.next
           /\ ended' = [ended EXCEPT ![console.cmd] = Append(ended[console.cmd], Codes[console.cmd])]
           /\ Of("end", console.cmd, Codes[console.cmd]) \in Line
           /\ rx' \in Seq(Line) /\ Extends(rx, rx')
           /\ \A k \in DOMAIN rx' \ DOMAIN rx :
                 rx'[k] \in {Of("end", console.cmd, Codes[console.cmd]), Plain("prompt")}
<1> DEFINE line   == Of("end", console.cmd, Codes[console.cmd])
           prompt == Plain("prompt")
<1>1. console.cmd \in Commands
  BY Types1 DEF CommandEnds
<1>2. line \in Line /\ prompt \in Line
  BY <1>1, Made, Numbers DEF Kinds
<1>3. rx' = rx \o <<line, prompt>> /\ rx \in Seq(Line)
  BY Types1 DEF CommandEnds, Emits
<1>4. /\ console'.state = "shell" /\ console'.cmd = console.cmd /\ console'.next = console.next
  BY Types1 DEF CommandEnds
<1> HIDE DEF line, prompt
<1>5. /\ rx' \in Seq(Line) /\ Extends(rx, rx')
      /\ \A k \in DOMAIN rx' \ DOMAIN rx : rx'[k] \in {line, prompt}
  BY <1>2, <1>3, TwoMore
<1> QED
  BY <1>1, <1>2, <1>4, <1>5 DEF CommandEnds, line, prompt

\* What typing the command changes.
LEMMA PromptMoves ==
    ASSUME ShellTypeInv, LoginSeesPrompt
    PROVE  /\ host.pc = "login" /\ host'.pc = "collect" /\ host'.cmd = host.cmd
           /\ host'.capture = host.capture /\ host'.output = host.output
           /\ UNCHANGED <<results, console, ended, spoilt>>
           /\ RxQuiet
           /\ typed' \in Seq(Keys) /\ MarkedKeys(typed')
           /\ MoreBy(typed, typed', [kind |-> "command", cmd |-> host.cmd])
<1> DEFINE key == [kind |-> "command", cmd |-> host.cmd]
<1>1. key \in Keys /\ key.kind = "command" /\ key.cmd # 0
  BY Types2, Numbers DEF Keys
<1>2. typed' = Append(typed, key) /\ typed \in Seq(Keys)
  BY Types1 DEF LoginSeesPrompt, Types
<1> HIDE DEF key
<1>3. typed' \in Seq(Keys) /\ MoreBy(typed, typed', key)
  BY <1>1, <1>2, OneMore, Zenon
<1>4. MarkedKeys(typed')
  BY <1>1, <1>3, Types1 DEF MoreBy, Extends, MarkedKeys
<1>5. RxQuiet
  BY RxTail DEF LoginSeesPrompt
<1>6. /\ host.pc = "login" /\ host'.pc = "collect" /\ host'.cmd = host.cmd
      /\ host'.capture = host.capture /\ host'.output = host.output
      /\ UNCHANGED <<results, console, ended, spoilt>>
  BY Types2 DEF LoginSeesPrompt, HostOK
<1> QED
  BY <1>3, <1>4, <1>5, <1>6 DEF key

-----------------------------------------------------------------------------
(* Types *)

\* The types hold at first.
LEMMA ShellTypeInit == ShellInit => ShellTypeInv
<1> SUFFICES ASSUME ShellInit PROVE ShellTypeInv
  OBVIOUS
<1>1. MaxPokes \in Nat
  BY ControlAssumption
<1>2. /\ host \in [pc : {"idle"}, cmd : {1}, pokes : {0}, capture : {FALSE}, output : {<<>>},
                   secret : BOOLEAN]
      /\ results = [c \in Commands |-> [how |-> "none", exit |-> NoCode, output |-> <<>>]]
      /\ typed = <<>> /\ rx = <<>>
      /\ console \in [state : {"login", "shell"}, cmd : {0}, next : {0}]
      /\ ended = [c \in Commands |-> <<>>] /\ spoilt = {}
  BY DEF ShellInit
<1>3. host \in [pc : HostPcs, cmd : Commands, pokes : 0..MaxPokes, capture : BOOLEAN,
                output : Seq(Line), secret : BOOLEAN] /\ host.output = <<>>
  <2>1. "idle" \in HostPcs /\ 1 \in Commands /\ 0 \in 0..MaxPokes /\ <<>> \in Seq(Line)
    BY <1>1, Numbers DEF HostPcs
  <2>2. PICK secret \in BOOLEAN :
           host = [pc |-> "idle", cmd |-> 1, pokes |-> 0, capture |-> FALSE, output |-> <<>>,
                   secret |-> secret]
    BY <1>2
  <2> QED
    BY <2>1, <2>2
<1>4. /\ DOMAIN results = Commands
      /\ \A c \in Commands : results[c] = [how |-> "none", exit |-> NoCode, output |-> <<>>]
  BY <1>2
<1>5. \A c \in Commands : ResultOK(results[c])
  BY <1>4 DEF ResultOK, Hows
<1>6. typed \in Seq(Keys) /\ rx \in Seq(Line)
  BY <1>2
<1>7. /\ console \in [state : {"login", "password", "shell", "run"},
                      cmd : Commands \cup {0}, next : Nat]
      /\ console.state # "run"
  BY <1>2
<1>8. ended \in [Commands -> Seq(Nat)] /\ spoilt \subseteq Commands \cup {0}
  BY <1>2
<1>9. Marked
  BY <1>2, <1>3, <1>7 DEF Marked, MarkedLines, MarkedKeys
<1>10. ShellTypeOK
  BY <1>3, <1>4, <1>5, <1>6, <1>7, <1>8 DEF ShellTypeOK, ResultOK
<1> QED
  BY <1>9, <1>10 DEF ShellTypeInv

\* The parts make up the invariant.
LEMMA TypesTogether ==
    ASSUME HostOK(host'), DOMAIN results' = Commands, \A c \in Commands : ResultOK(results'[c]),
           typed' \in Seq(Keys), MarkedKeys(typed'), rx' \in Seq(Line), MarkedLines(rx'),
           console' \in [state : {"login", "password", "shell", "run"},
                         cmd : Commands \cup {0}, next : Nat],
           console'.state = "run" => console'.cmd # 0,
           ended' \in [Commands -> Seq(Nat)], spoilt' \subseteq Commands \cup {0}
    PROVE  ShellTypeInv'
<1>1. /\ host' \in [pc : HostPcs, cmd : Commands, pokes : 0..MaxPokes, capture : BOOLEAN,
                    output : Seq(Line), secret : BOOLEAN]
      /\ MarkedLines(host'.output)
  BY DEF HostOK
<1>2. \A c \in Commands :
          /\ results'[c].how \in Hows /\ results'[c].exit \in Nat \cup {NoCode}
          /\ DOMAIN results'[c].output \subseteq Nat
          /\ \A i \in DOMAIN results'[c].output : results'[c].output[i] \in Line
  BY DEF ResultOK
<1>3. ShellTypeOK'
  BY <1>1, <1>2 DEF ShellTypeOK
<1>4. Marked'
  BY <1>1 DEF Marked, MarkedLines, MarkedKeys
<1> QED
  BY <1>3, <1>4 DEF ShellTypeInv

\* Each step keeps the types.
LEMMA ShellTypeStep == ShellTypeInv /\ [ShellNext]_shellVars => ShellTypeInv'
<1> SUFFICES ASSUME ShellTypeInv, [ShellNext]_shellVars PROVE ShellTypeInv'
  OBVIOUS
<1>1. ASSUME HostOK(host'), DOMAIN results' = Commands, \A c \in Commands : ResultOK(results'[c]),
             Quiet
      PROVE  ShellTypeInv'
  <2>1. console'.state = "run" => console'.cmd # 0
    BY <1>1, Types1, Numbers DEF Quiet, ConsoleQuiet
  <2> QED
    BY <1>1, <2>1, Types2, TypesTogether DEF Quiet, RxQuiet, TypedQuiet, ConsoleQuiet
<1>2. CASE UNCHANGED shellVars \/ DeviceIdles \/ Break
  <2>1. Quiet /\ UNCHANGED <<host, results>>
    BY <1>2, QuietKinds
  <2> QED
    BY <1>1, <2>1, Types2
<1>3. CASE Controller /\ ~LoginSeesPrompt
  BY <1>1, <1>3, ControllerQuiet, ControllerTypes
<1>4. ASSUME NEW c \in Commands, Starts(c) PROVE ShellTypeInv'
  <2>1. Of("echo", c, 0).kind \in Marks /\ Of("echo", c, 0).cmd = c
        /\ Of("begin", c, 0).kind \in Marks /\ Of("begin", c, 0).cmd = c /\ c # 0
    BY Numbers DEF Of, Marks
  <2>2. MarkedLines(rx')
    BY <1>4, <2>1, StartsMoves, Types1 DEF MarkedLines, Extends
  <2>3. /\ console' \in [state : {"login", "password", "shell", "run"},
                         cmd : Commands \cup {0}, next : Nat]
        /\ console'.cmd # 0
    BY <1>4, Numbers DEF Starts
  <2> QED
    BY <1>4, <2>2, <2>3, StartsMoves, Types2, TypesTogether
<1>5. CASE CommandPrints
  <2>1. /\ Of("out", console.cmd, console.next).kind \in Marks
        /\ Of("out", console.cmd, console.next).cmd = console.cmd /\ console.cmd # 0
    BY <1>5, PrintsMoves, Numbers DEF Of, Marks
  <2>2. MarkedLines(rx')
    BY <1>5, <2>1, PrintsMoves, Types1 DEF MarkedLines, Extends, MoreBy
  <2>3. /\ console' \in [state : {"login", "password", "shell", "run"},
                         cmd : Commands \cup {0}, next : Nat]
        /\ console'.cmd # 0
    <3>1. console' = [console EXCEPT !.next = console.next + 1]
      BY <1>5 DEF CommandPrints
    <3>2. console.next + 1 \in Nat
      BY Types1
    <3> QED
      BY <2>1, <3>1, <3>2, Types1
  <2> QED
    BY <1>5, <2>2, <2>3, PrintsMoves, Types1, Types2, TypesTogether
<1>6. CASE CommandEnds
  <2>1. /\ Of("end", console.cmd, Codes[console.cmd]).kind \in Marks
        /\ Of("end", console.cmd, Codes[console.cmd]).cmd = console.cmd /\ console.cmd # 0
        /\ Plain("prompt").kind \notin Marks /\ Plain("prompt").cmd = 0
    BY <1>6, EndsMoves, Numbers DEF Of, Plain, Marks, Ends
  <2>2. MarkedLines(rx')
    BY <1>6, <2>1, EndsMoves, Types1 DEF MarkedLines, Extends
  <2>3. /\ console' \in [state : {"login", "password", "shell", "run"},
                         cmd : Commands \cup {0}, next : Nat]
        /\ console'.cmd # 0
    <3>1. console' = [console EXCEPT !.state = "shell"]
      BY <1>6 DEF CommandEnds
    <3> QED
      BY <2>1, <3>1, Types1
  <2>4. ended' \in [Commands -> Seq(Nat)]
    <3>1. ended[console.cmd] \in Seq(Nat) /\ Codes[console.cmd] \in Nat
      BY <1>6, EndsMoves, Types2, Numbers
    <3>2. Append(ended[console.cmd], Codes[console.cmd]) \in Seq(Nat)
      BY <3>1, AppendProperties
    <3> QED
      BY <1>6, <3>2, EndsMoves, Types2
  <2> QED
    BY <1>6, <2>2, <2>3, <2>4, EndsMoves, Types1, Types2, TypesTogether
<1>7. CASE LoginSeesPrompt
  <2>1. HostOK(host') /\ DOMAIN results' = Commands /\ \A c \in Commands : ResultOK(results'[c])
    BY <1>7, ControllerTypes DEF Controller
  <2>2. console' \in [state : {"login", "password", "shell", "run"},
                      cmd : Commands \cup {0}, next : Nat]
        /\ (console'.state = "run" => console'.cmd # 0)
    BY <1>7, PromptMoves, Types1, Numbers
  <2> QED
    BY <1>7, <2>1, <2>2, PromptMoves, Types2, TypesTogether DEF RxQuiet
<1> QED
  BY <1>2, <1>3, <1>4, <1>5, <1>6, <1>7, StepKinds

\* The types hold always.
LEMMA ShellTypeInvariant == ShellSpec => []ShellTypeInv
BY ShellTypeInit, ShellTypeStep, PTL DEF ShellSpec

\* Type correctness, for any number of commands, lines, boots, users and noises.
THEOREM ShellTypes == ShellSpec => []ShellTypeOK
<1>1. ShellTypeInv => ShellTypeOK
  BY DEF ShellTypeInv
<1> QED
  BY <1>1, ShellTypeInvariant, PTL

-----------------------------------------------------------------------------
(* The order of the commands *)

\* The fields of the lines of a sequence.
LEMMA LineCmds ==
    ASSUME NEW s \in Seq(Line)
    PROVE  \A i \in DOMAIN s : i \in Nat /\ s[i] \in Line /\ s[i].cmd \in Commands \cup {0}
                               /\ s[i].cmd \in Nat /\ s[i].n \in Nat /\ s[i].kind \in Kinds
<1>1. \A i \in DOMAIN s : s[i] \in Line /\ i \in Nat
  BY Places
<1>2. Commands \cup {0} \subseteq Nat
  BY Numbers
<1> QED
  BY <1>1, <1>2 DEF Line

\* The fields of its keys.
LEMMA KeyCmds ==
    ASSUME NEW s \in Seq(Keys)
    PROVE  \A i \in DOMAIN s : i \in Nat /\ s[i].cmd \in Commands \cup {0} /\ s[i].cmd \in Nat
<1>1. \A i \in DOMAIN s : s[i] \in Keys /\ i \in Nat
  BY Places
<1>2. Commands \cup {0} \subseteq Nat
  BY Numbers
<1> QED
  BY <1>1, <1>2 DEF Keys

\* The commands of the console and of the controller.
LEMMA CmdNumbers ==
    ASSUME ShellTypeInv
    PROVE  console.cmd \in Nat /\ host.cmd \in Nat /\ host.cmd # 0
BY Types1, Types2, Numbers

\* A quiet step keeps the order of the lines.
LEMMA RxOrderQuiet ==
    ASSUME ShellTypeInv, RxOrder, RxQuiet, console'.cmd = console.cmd
    PROVE  RxOrder'
<1>1. PICK at \in [DOMAIN rx' -> Nat] :
          /\ \A k \in DOMAIN rx' : rx'[k].cmd # 0 => at[k] \in DOMAIN rx /\ Similar(rx[at[k]], rx'[k])
          /\ \A k, l \in DOMAIN rx' : k < l /\ rx'[k].cmd # 0 /\ rx'[l].cmd # 0 => at[k] < at[l]
  BY DEF RxQuiet, Comes
<1>2. \A k \in DOMAIN rx' : rx'[k].cmd # 0 => at[k] \in DOMAIN rx /\ rx[at[k]].cmd = rx'[k].cmd
  BY <1>1 DEF Similar
<1>3. console'.cmd \in Nat /\ \A k \in DOMAIN rx' : rx'[k].cmd \in Nat
  BY CmdNumbers, LineCmds DEF RxQuiet
<1>4. ASSUME NEW k \in DOMAIN rx' PROVE rx'[k].cmd <= console'.cmd
  <2>1. CASE rx'[k].cmd = 0
    BY <1>3, <2>1
  <2>2. CASE rx'[k].cmd # 0
    BY <1>2, <2>2 DEF RxOrder
  <2> QED
    BY <2>1, <2>2
<1>5. ASSUME NEW k \in DOMAIN rx', NEW l \in DOMAIN rx', k < l, rx'[l].cmd # 0
      PROVE  rx'[k].cmd <= rx'[l].cmd
  <2>1. CASE rx'[k].cmd = 0
    BY <1>3, <2>1
  <2>2. CASE rx'[k].cmd # 0
    BY <1>1, <1>2, <1>5, <2>2 DEF RxOrder
  <2> QED
    BY <2>1, <2>2
<1> QED
  BY <1>4, <1>5 DEF RxOrder

\* A command adds lines that are its own or unmarked.
LEMMA RxOrderMore ==
    ASSUME ShellTypeInv, RxOrder, rx' \in Seq(Line), Extends(rx, rx'),
           console.cmd <= console'.cmd, console'.cmd \in Commands,
           \A k \in DOMAIN rx' \ DOMAIN rx : rx'[k].cmd \in {0, console'.cmd}
    PROVE  RxOrder'
<1> DEFINE c == console'.cmd
           d == console.cmd
<1>1. c \in Nat /\ d \in Nat /\ d <= c /\ 0 <= c
  BY CmdNumbers, Numbers
<1>2. /\ \A k \in DOMAIN rx' : rx'[k].cmd \in Nat
      /\ \A k \in DOMAIN rx' \ DOMAIN rx : rx'[k].cmd \in {0, c}
  BY LineCmds
<1>3. /\ \A k \in DOMAIN rx : rx[k].cmd <= d
      /\ \A k, l \in DOMAIN rx : k < l /\ rx[l].cmd # 0 => rx[k].cmd <= rx[l].cmd
  BY DEF RxOrder
<1>4. /\ \A k \in DOMAIN rx : k \in DOMAIN rx' /\ rx'[k] = rx[k] /\ k \in Nat
      /\ \A k \in DOMAIN rx, l \in DOMAIN rx' \ DOMAIN rx : k < l
      /\ \A l \in DOMAIN rx' : l \in Nat
  BY LineCmds, Types1 DEF Extends
<1> HIDE DEF c, d
<1>5. ASSUME NEW k \in DOMAIN rx' PROVE rx'[k].cmd <= c
  <2>1. CASE k \in DOMAIN rx
    BY <1>1, <1>2, <1>3, <1>4, <2>1
  <2>2. CASE k \notin DOMAIN rx
    BY <1>1, <1>2, <2>2
  <2> QED
    BY <2>1, <2>2
<1>6. ASSUME NEW k \in DOMAIN rx', NEW l \in DOMAIN rx', k < l, rx'[l].cmd # 0
      PROVE  rx'[k].cmd <= rx'[l].cmd
  <2>1. CASE l \notin DOMAIN rx
    BY <1>2, <1>5, <1>6, <2>1
  <2>2. CASE l \in DOMAIN rx
    <3>1. k \in DOMAIN rx
      <4>1. SUFFICES ASSUME k \notin DOMAIN rx PROVE FALSE
        OBVIOUS
      <4>2. l < k /\ k \in Nat /\ l \in Nat
        BY <1>4, <2>2, <4>1
      <4> QED
        BY <1>6, <4>2
    <3> QED
      BY <1>3, <1>4, <1>6, <2>2, <3>1
  <2> QED
    BY <2>1, <2>2
<1> QED
  BY <1>5, <1>6 DEF RxOrder, c

\* Where a call goes.
LEMMA HostMoves ==
    ASSUME ShellTypeInv, [ShellNext]_shellVars
    PROVE  \/ host'.pc = host.pc /\ host'.cmd = host.cmd
           \/ host.pc = "idle" /\ host'.pc = "login" /\ host'.cmd = host.cmd
           \/ host.pc = "login" /\ host'.pc = "collect" /\ host'.cmd = host.cmd
           \/ host'.pc = "done" /\ host'.cmd = host.cmd
           \/ host'.pc = "idle" /\ host'.cmd = host.cmd + 1
<1> DEFINE Goal == \/ host'.pc = host.pc /\ host'.cmd = host.cmd
                   \/ host.pc = "idle" /\ host'.pc = "login" /\ host'.cmd = host.cmd
                   \/ host.pc = "login" /\ host'.pc = "collect" /\ host'.cmd = host.cmd
                   \/ host'.pc = "done" /\ host'.cmd = host.cmd
                   \/ host'.pc = "idle" /\ host'.cmd = host.cmd + 1
<1>1. ASSUME host' = host PROVE Goal
  BY <1>1
<1>2. ASSUME NEW result, Finished(result) PROVE Goal
  BY <1>2 DEF Finished
<1>3. CASE UNCHANGED shellVars \/ DeviceIdles \/ Break
  BY <1>1, <1>3, QuietKinds
<1>4. ASSUME NEW c \in Commands, Starts(c) PROVE Goal
  BY <1>1, <1>4 DEF Starts
<1>5. CASE CommandPrints \/ CommandEnds
  BY <1>1, <1>5 DEF CommandPrints, CommandEnds
<1>6. CASE LoginSeesPrompt
  BY <1>6, PromptMoves
<1>7. CASE BeginLogin
  BY <1>7, Types2 DEF BeginLogin, HostOK
<1>8. CASE LoginIsAsked \/ LoginSkips
  BY <1>1, <1>8 DEF LoginIsAsked, LoginSkips
<1>9. CASE LoginIsAskedPassword
  <2>1. host' = host \/ Finish("raised", NoCode, <<>>)
    BY <1>9 DEF LoginIsAskedPassword
  <2> QED
    BY <1>1, <1>2, <2>1, Returns
<1>10. CASE LoginPokes
  BY <1>10, Types2 DEF LoginPokes, HostOK
<1>11. CASE LoginTimesOut
  BY <1>2, <1>11, Returns DEF LoginTimesOut
<1>12. CASE CollectReads
  BY <1>12, CollectMoves
<1>13. CASE CollectEnds \/ CollectTimesOut
  BY <1>2, <1>13, Returns
<1>14. CASE Controller /\ ~LoginSeesPrompt
  <2>1. \/ BeginLogin \/ LoginIsAsked \/ LoginSkips \/ LoginIsAskedPassword \/ LoginPokes
        \/ LoginTimesOut \/ CollectReads \/ CollectEnds \/ CollectTimesOut
    BY <1>14 DEF Controller
  <2> QED
    BY <2>1, <1>7, <1>8, <1>9, <1>10, <1>11, <1>12, <1>13
<1> QED
  BY <1>3, <1>4, <1>5, <1>6, <1>14, StepKinds

\* What was typed stays so.
LEMMA SentStays ==
    ASSUME ShellTypeInv, [ShellNext]_shellVars
    PROVE  \A c \in Nat : SentBy(host, c) => SentBy(host', c)
<1>1. host.cmd \in Nat
  BY CmdNumbers
<1> QED
  BY <1>1, HostMoves DEF SentBy

\* A quiet step keeps the order of what is typed.
LEMMA TypedOrderQuiet ==
    ASSUME ShellTypeInv, TypedOrder, TypedQuiet, console'.cmd = console.cmd,
           \A c \in Nat : SentBy(host, c) => SentBy(host', c)
    PROVE  TypedOrder'
<1>1. PICK at \in [DOMAIN typed' -> Nat] :
          /\ \A k \in DOMAIN typed' :
                typed'[k].cmd # 0 => at[k] \in DOMAIN typed /\ Similar(typed[at[k]], typed'[k])
          /\ \A k, l \in DOMAIN typed' :
                k < l /\ typed'[k].cmd # 0 /\ typed'[l].cmd # 0 => at[k] < at[l]
  BY DEF TypedQuiet, Comes
<1>2. \A k \in DOMAIN typed' :
          typed'[k].cmd # 0 => at[k] \in DOMAIN typed /\ typed[at[k]].cmd = typed'[k].cmd
  BY <1>1 DEF Similar
<1>3. \A k \in DOMAIN typed' : typed'[k].cmd \in Nat
  BY KeyCmds DEF TypedQuiet
<1>4. ASSUME NEW k \in DOMAIN typed', typed'[k].cmd # 0
      PROVE  console'.cmd < typed'[k].cmd /\ SentBy(host', typed'[k].cmd)
  <2>1. console.cmd < typed'[k].cmd /\ SentBy(host, typed'[k].cmd)
    BY <1>2, <1>4 DEF TypedOrder
  <2>2. PICK c \in Nat : c = typed'[k].cmd
    BY <1>3
  <2>3. SentBy(host', c)
    BY <2>1, <2>2
  <2> QED
    BY <2>1, <2>2, <2>3 DEF SentBy
<1>5. ASSUME NEW k \in DOMAIN typed', NEW l \in DOMAIN typed', k < l, typed'[l].cmd # 0
      PROVE  typed'[k].cmd < typed'[l].cmd
  <2>1. CASE typed'[k].cmd = 0
    <3>1. typed'[l].cmd \in Nat
      BY <1>3
    <3> QED
      BY <1>5, <2>1, <3>1
  <2>2. CASE typed'[k].cmd # 0
    BY <1>1, <1>2, <1>5, <2>2 DEF TypedOrder
  <2> QED
    BY <2>1, <2>2
<1> QED
  BY <1>4, <1>5 DEF TypedOrder

\* The next command that was typed starts.
LEMMA TypedOrderStarts ==
    ASSUME ShellTypeInv, TypedOrder, NEW c \in Commands, Starts(c)
    PROVE  TypedOrder' /\ console.cmd < c /\ SentBy(host, c)
<1>1. /\ host' = host /\ console'.cmd = c /\ 1 \in DOMAIN typed /\ typed[1].cmd = c
      /\ typed' = Tail(typed) /\ typed # <<>>
  BY StartsMoves DEF Starts
<1>2. console.cmd < c /\ SentBy(host, c) /\ c # 0
  BY <1>1, Numbers DEF TypedOrder
<1>3. typed' \in Seq(Keys) /\ MarkedKeys(typed')
  BY StartsMoves
<1>4. /\ \A k \in DOMAIN typed' : k + 1 \in DOMAIN typed /\ typed'[k] = typed[k + 1] /\ 1 < k + 1
      /\ \A k \in DOMAIN typed' : k \in Nat
  BY <1>1, <1>3, OneLess, Types1, KeyCmds
<1>5. \A k, l \in DOMAIN typed' : k < l => k + 1 < l + 1
  BY <1>4
<1>6. \A k \in DOMAIN typed' : typed'[k].cmd # 0 => c < typed'[k].cmd /\ SentBy(host, typed'[k].cmd)
  BY <1>1, <1>4 DEF TypedOrder
<1>7. \A k, l \in DOMAIN typed' : k < l /\ typed'[l].cmd # 0 => typed'[k].cmd < typed'[l].cmd
  BY <1>4, <1>5 DEF TypedOrder
<1> QED
  BY <1>1, <1>2, <1>6, <1>7 DEF TypedOrder, SentBy

\* The next command is typed.
LEMMA TypedOrderPrompt ==
    ASSUME ShellTypeInv, TypedOrder, console.cmd # 0 => SentBy(host, console.cmd), LoginSeesPrompt
    PROVE  TypedOrder'
<1> DEFINE h   == host.cmd
           key == [kind |-> "command", cmd |-> h]
<1>1. /\ host.pc = "login" /\ host'.pc = "collect" /\ host'.cmd = h /\ console' = console
      /\ typed' \in Seq(Keys) /\ MoreBy(typed, typed', key)
  BY PromptMoves
<1>2. key.cmd = h /\ h \in Nat /\ h # 0 /\ console.cmd \in Nat
  BY CmdNumbers
<1>3. \A c : SentBy(host, c) => c < h
  BY <1>1 DEF SentBy
<1>4. \A c : c < h \/ c = h => SentBy(host', c)
  BY <1>1 DEF SentBy
<1>5. /\ \A k \in DOMAIN typed : k \in DOMAIN typed' /\ typed'[k] = typed[k]
      /\ \A k \in DOMAIN typed' \ DOMAIN typed : typed'[k].cmd = h
      /\ \A k \in DOMAIN typed, l \in DOMAIN typed' \ DOMAIN typed : k < l
      /\ \A k, l \in DOMAIN typed' \ DOMAIN typed : k = l
  BY <1>1, <1>2 DEF MoreBy, Extends
<1> HIDE DEF h, key
<1>6. console.cmd < h
  BY <1>2, <1>3
<1>7. /\ \A k \in DOMAIN typed' : k \in Nat /\ typed'[k].cmd \in Nat
      /\ \A k \in DOMAIN typed : k \in Nat /\ typed[k].cmd \in Nat
  BY <1>1, KeyCmds, Types1
<1>8. \A k \in DOMAIN typed : typed[k].cmd < h
  BY <1>2, <1>3, <1>7 DEF TypedOrder
<1>9. ASSUME NEW k \in DOMAIN typed', typed'[k].cmd # 0
      PROVE  console'.cmd < typed'[k].cmd /\ SentBy(host', typed'[k].cmd)
  <2>1. CASE k \in DOMAIN typed
    <3>1. console.cmd < typed'[k].cmd /\ typed'[k].cmd < h
      BY <1>5, <1>8, <1>9, <2>1 DEF TypedOrder
    <3> QED
      BY <1>1, <3>1 DEF SentBy, h
  <2>2. CASE k \notin DOMAIN typed
    BY <1>1, <1>5, <1>6, <2>2 DEF SentBy, h
  <2> QED
    BY <2>1, <2>2
<1>10. ASSUME NEW k \in DOMAIN typed', NEW l \in DOMAIN typed', k < l, typed'[l].cmd # 0
      PROVE  typed'[k].cmd < typed'[l].cmd
  <2>1. k \in DOMAIN typed
    <3>1. SUFFICES ASSUME k \notin DOMAIN typed PROVE FALSE
      OBVIOUS
    <3>2. l < k \/ l = k
      BY <1>5, <3>1
    <3> QED
      BY <1>7, <1>10, <3>2
  <2>2. CASE l \in DOMAIN typed
    BY <1>5, <1>10, <2>1, <2>2 DEF TypedOrder
  <2>3. CASE l \notin DOMAIN typed
    BY <1>5, <1>8, <2>1, <2>3
  <2> QED
    BY <2>2, <2>3
<1> QED
  BY <1>9, <1>10 DEF TypedOrder

\* Each step keeps the order.
LEMMA OrderStep ==
    ShellTypeInv /\ CallOrder /\ [ShellNext]_shellVars => CallOrder'
<1> SUFFICES ASSUME ShellTypeInv, CallOrder, [ShellNext]_shellVars PROVE CallOrder'
  OBVIOUS
<1> USE DEF CallOrder
<1>1. \A c \in Nat : SentBy(host, c) => SentBy(host', c)
  BY SentStays
<1>2. console.cmd \in Nat
  BY CmdNumbers
<1>3. ASSUME console'.cmd = console.cmd, RxQuiet, TypedQuiet PROVE CallOrder'
  <2>1. TypedOrder' /\ RxOrder'
    BY <1>1, <1>3, TypedOrderQuiet, RxOrderQuiet
  <2>2. console'.cmd # 0 => SentBy(host', console'.cmd)
    BY <1>1, <1>2, <1>3
  <2> QED
    BY <2>1, <2>2
<1>4. CASE UNCHANGED shellVars \/ DeviceIdles \/ Break
  BY <1>3, <1>4, QuietKinds DEF Quiet, ConsoleQuiet
<1>5. CASE Controller /\ ~LoginSeesPrompt
  BY <1>3, <1>5, ControllerQuiet DEF Quiet
<1>6. ASSUME NEW c \in Commands, Starts(c) PROVE CallOrder'
  <2>1. TypedOrder' /\ console.cmd < c /\ SentBy(host, c) /\ console'.cmd = c /\ c \in Nat
    BY <1>6, TypedOrderStarts, StartsMoves, Numbers
  <2>2. Of("echo", c, 0).cmd = c /\ Of("begin", c, 0).cmd = c
    BY DEF Of
  <2>3. RxOrder'
    <3>1. console.cmd <= console'.cmd
      BY <1>2, <2>1
    <3> QED
      BY <1>6, <2>1, <2>2, <3>1, StartsMoves, RxOrderMore
  <2> QED
    BY <1>1, <2>1, <2>3
<1>7. CASE CommandPrints \/ CommandEnds
  <2>1. /\ console'.cmd = console.cmd /\ console.cmd \in Commands /\ typed' = typed
        /\ rx' \in Seq(Line) /\ Extends(rx, rx')
        /\ \A k \in DOMAIN rx' \ DOMAIN rx : rx'[k].cmd \in {0, console'.cmd}
    <3>1. CASE CommandPrints
      <4>1. Of("out", console.cmd, console.next).cmd = console.cmd
        BY DEF Of
      <4> QED
        BY <3>1, <4>1, PrintsMoves DEF MoreBy
    <3>2. CASE CommandEnds
      <4>1. Of("end", console.cmd, Codes[console.cmd]).cmd = console.cmd /\ Plain("prompt").cmd = 0
        BY DEF Of, Plain
      <4> QED
        BY <3>2, <4>1, EndsMoves
    <3> QED
      BY <1>7, <3>1, <3>2
  <2>2. RxOrder'
    <3>1. console.cmd <= console'.cmd
      BY <1>2, <2>1
    <3> QED
      BY <2>1, <3>1, RxOrderMore
  <2>3. TypedOrder'
    BY <1>1, <2>1, TypedSame, TypedOrderQuiet
  <2> QED
    BY <1>1, <1>2, <2>1, <2>2, <2>3
<1>8. CASE LoginSeesPrompt
  <2>1. TypedOrder'
    BY <1>8, TypedOrderPrompt
  <2>2. RxQuiet /\ console' = console
    BY <1>8, PromptMoves
  <2>3. RxOrder'
    BY <2>2, RxOrderQuiet
  <2> QED
    BY <1>1, <1>2, <2>1, <2>2, <2>3
<1> QED
  BY <1>4, <1>5, <1>6, <1>7, <1>8, StepKinds

-----------------------------------------------------------------------------
(* The ends of the commands *)

\* Breaking an end makes no success of a failure and no failure of a success.
LEMMA TrueEndStays ==
    ASSUME NEW line \in Line, NEW new \in Line, Similar(line, new), new.kind \in Ends,
           TrueEnd(ended, spoilt, line.cmd, ExitOf(line)), line.kind \in Ends,
           spoilt \subseteq spoilt'
    PROVE  TrueEnd(ended, spoilt', new.cmd, ExitOf(new))
<1> DEFINE c == line.cmd
<1>1. line.n \in Nat /\ new.n \in Nat /\ NoCode \notin Nat
  BY ControlAssumption DEF Line
<1>2. CASE new = line
  BY <1>2 DEF TrueEnd
<1>3. CASE new # line
  <2>1. /\ line.kind = "end" /\ new.cmd = c /\ c \in spoilt'
        /\ (new.kind = "end" => line.n > 9 /\ new.n = line.n \div 10)
    BY <1>3 DEF Similar
  <2>2. ended[c] = <<Codes[c]>> /\ (line.n = 0 <=> Codes[c] = 0)
    BY <1>1, <2>1 DEF TrueEnd, ExitOf
  <2>3. CASE new.kind = "end"
    <3>1. line.n # 0 /\ new.n # 0
      <4>1. \A n \in Nat : n > 9 => n \div 10 # 0
        OBVIOUS
      <4> QED
        BY <1>1, <2>1, <2>3, <4>1
    <3> QED
      BY <2>1, <2>2, <2>3, <3>1 DEF TrueEnd, ExitOf
  <2>4. CASE new.kind # "end"
    BY <2>1, <2>2, <2>4 DEF TrueEnd, ExitOf
  <2> QED
    BY <2>3, <2>4
<1> QED
  BY <1>2, <1>3

\* Each step keeps what the ends say.
LEMMA EndsStep ==
    ShellTypeInv /\ CallOrder /\ EndsOnce /\ [ShellNext]_shellVars => EndsOnce'
<1> SUFFICES ASSUME ShellTypeInv, CallOrder, EndsOnce, [ShellNext]_shellVars PROVE EndsOnce'
  OBVIOUS
<1>1. ASSUME RxQuiet, console'.cmd = console.cmd, console'.state = "run" => console.state = "run",
             ended' = ended, spoilt \subseteq spoilt'
      PROVE  EndsOnce'
  <2>1. PICK at \in [DOMAIN rx' -> Nat] :
            \A k \in DOMAIN rx' : rx'[k].cmd # 0 => at[k] \in DOMAIN rx /\ Similar(rx[at[k]], rx'[k])
    BY <1>1 DEF RxQuiet, Comes
  <2>2. ASSUME NEW k \in DOMAIN rx', rx'[k].kind \in Ends
        PROVE  TrueEnd(ended, spoilt', rx'[k].cmd, ExitOf(rx'[k]))
    <3>1. rx'[k].cmd # 0 /\ rx'[k] \in Line
      BY <1>1, <2>2, LineCmds DEF RxQuiet, MarkedLines, Marks
    <3>2. at[k] \in DOMAIN rx /\ Similar(rx[at[k]], rx'[k])
      BY <2>1, <3>1
    <3>3. rx[at[k]].kind \in Ends /\ rx[at[k]] \in Line
      BY <2>2, <3>2, Types1, LineCmds DEF Similar, Ends
    <3>4. TrueEnd(ended, spoilt, rx[at[k]].cmd, ExitOf(rx[at[k]]))
      BY <3>2, <3>3 DEF EndsOnce
    <3> QED
      BY <1>1, <2>2, <3>1, <3>2, <3>3, <3>4, TrueEndStays
  <2>3. /\ \A c \in Commands : /\ ended'[c] = <<>> \/ ended'[c] = <<Codes[c]>>
                               /\ console'.cmd < c => ended'[c] = <<>>
        /\ console'.state = "run" => ended'[console'.cmd] = <<>>
    BY <1>1 DEF EndsOnce
  <2>4. \A k \in DOMAIN rx' : rx'[k].kind \in Ends =>
            TrueEnd(ended', spoilt', rx'[k].cmd, ExitOf(rx'[k]))
    BY <1>1, <2>2
  <2> QED
    BY <2>3, <2>4 DEF EndsOnce, TrueEnd, ExitOf
<1>2. CASE UNCHANGED shellVars \/ DeviceIdles \/ Break
  BY <1>1, <1>2, QuietKinds DEF Quiet, ConsoleQuiet
<1>3. CASE Controller /\ ~LoginSeesPrompt
  BY <1>1, <1>3, ControllerQuiet DEF Quiet
<1>4. CASE LoginSeesPrompt
  BY <1>1, <1>4, PromptMoves
<1>5. ASSUME NEW c \in Commands, Starts(c) PROVE EndsOnce'
  <2>1. /\ ended' = ended /\ spoilt' = spoilt /\ console'.state = "run" /\ console'.cmd = c
        /\ rx' \in Seq(Line) /\ Extends(rx, rx')
        /\ \A k \in DOMAIN rx' \ DOMAIN rx : rx'[k].kind \notin Ends
    <3>1. Of("echo", c, 0).kind \notin Ends /\ Of("begin", c, 0).kind \notin Ends
      BY DEF Of, Ends
    <3> QED
      BY <1>5, <3>1, StartsMoves
  <2>2. console.cmd < c /\ console.cmd \in Nat /\ c \in Nat
    BY <1>5, TypedOrderStarts, CmdNumbers, Numbers DEF CallOrder
  <2>3. ended[c] = <<>>
    BY <2>2 DEF EndsOnce
  <2>4. \A d \in Commands : c < d => ended[d] = <<>>
    <3>1. \A d \in Commands : c < d => console.cmd < d
      BY <2>2, Numbers
    <3> QED
      BY <3>1 DEF EndsOnce
  <2>5. \A k \in DOMAIN rx' : rx'[k].kind \in Ends =>
            TrueEnd(ended, spoilt, rx'[k].cmd, ExitOf(rx'[k]))
    BY <2>1 DEF EndsOnce, Extends
  <2> QED
    BY <2>1, <2>3, <2>4, <2>5 DEF EndsOnce, TrueEnd, ExitOf
<1>6. CASE CommandPrints
  <2>1. /\ ended' = ended /\ spoilt' = spoilt /\ console.state = "run" /\ console'.cmd = console.cmd
        /\ rx' \in Seq(Line) /\ Extends(rx, rx')
        /\ \A k \in DOMAIN rx' \ DOMAIN rx : rx'[k].kind \notin Ends
    <3>1. Of("out", console.cmd, console.next).kind \notin Ends
      BY DEF Of, Ends
    <3> QED
      BY <1>6, <3>1, PrintsMoves DEF MoreBy
  <2>2. \A k \in DOMAIN rx' : rx'[k].kind \in Ends =>
            TrueEnd(ended, spoilt, rx'[k].cmd, ExitOf(rx'[k]))
    BY <2>1 DEF EndsOnce, Extends
  <2> QED
    BY <2>1, <2>2 DEF EndsOnce, TrueEnd, ExitOf
<1>7. CASE CommandEnds
  <2> DEFINE c    == console.cmd
             line == Of("end", c, Codes[c])
  <2>1. /\ spoilt' = spoilt /\ console.state = "run" /\ c \in Commands
        /\ console'.state = "shell" /\ console'.cmd = c
        /\ ended' = [ended EXCEPT ![c] = Append(ended[c], Codes[c])]
        /\ rx' \in Seq(Line) /\ Extends(rx, rx')
        /\ \A k \in DOMAIN rx' \ DOMAIN rx : rx'[k] \in {line, Plain("prompt")}
    BY <1>7, EndsMoves
  <2>2. ended[c] = <<>> /\ c \in Nat
    BY <2>1, CmdNumbers DEF EndsOnce
  <2>3. Append(ended[c], Codes[c]) = <<Codes[c]>>
    BY <2>2
  <2>4. line.kind = "end" /\ line.cmd = c /\ line.n = Codes[c] /\ Plain("prompt").kind = "prompt"
    BY DEF Of, Plain
  <2> HIDE DEF c, line
  <2>5. \A d \in Commands : ended'[d] = IF d = c THEN <<Codes[c]>> ELSE ended[d]
    BY <2>1, <2>3, Types2
  <2>6. /\ \A d \in Commands : /\ ended'[d] = <<>> \/ ended'[d] = <<Codes[d]>>
                               /\ console'.cmd < d => ended'[d] = <<>>
    <3>1. \A d \in Commands : /\ ended[d] = <<>> \/ ended[d] = <<Codes[d]>>
                              /\ c < d => ended[d] = <<>>
      BY DEF EndsOnce, c
    <3>2. ~(c < c)
      BY <2>2
    <3> QED
      BY <2>1, <2>5, <3>1, <3>2
  <2>7. ASSUME NEW k \in DOMAIN rx', rx'[k].kind \in Ends
        PROVE  TrueEnd(ended', spoilt, rx'[k].cmd, ExitOf(rx'[k]))
    <3>1. CASE k \in DOMAIN rx
      <4>1. rx'[k] = rx[k] /\ TrueEnd(ended, spoilt, rx[k].cmd, ExitOf(rx[k]))
        BY <2>1, <2>7, <3>1 DEF EndsOnce, Extends
      <4>2. rx[k].cmd \in Commands
        BY <2>7, <3>1, <4>1, Types1, LineCmds DEF MarkedLines, Marks
      <4> QED
        BY <2>5, <4>1, <4>2 DEF TrueEnd
    <3>2. CASE k \notin DOMAIN rx
      <4>1. rx'[k] = line
        BY <2>1, <2>4, <2>7, <3>2 DEF Ends
      <4>2. ExitOf(line) = Codes[c]
        BY <2>4 DEF ExitOf
      <4> QED
        BY <2>1, <2>4, <2>5, <4>1, <4>2 DEF TrueEnd
    <3> QED
      BY <3>1, <3>2
  <2> QED
    BY <2>1, <2>6, <2>7 DEF EndsOnce, TrueEnd, ExitOf
<1> QED
  BY <1>2, <1>3, <1>4, <1>5, <1>6, <1>7, StepKinds

\* An end that was true stays true.
LEMMA TrueStays ==
    ASSUME ShellTypeInv, EndsOnce, [ShellNext]_shellVars, NEW c \in Commands, NEW exit,
           TrueEnd(ended, spoilt, c, exit)
    PROVE  TrueEnd(ended', spoilt', c, exit)
<1>1. CASE UNCHANGED shellVars \/ DeviceIdles \/ Break
  BY <1>1, QuietKinds DEF Quiet, TrueEnd
<1>2. CASE Controller /\ ~LoginSeesPrompt
  BY <1>2, ControllerQuiet DEF Quiet, TrueEnd
<1>3. CASE LoginSeesPrompt \/ CommandPrints
  BY <1>3, PromptMoves, PrintsMoves DEF TrueEnd
<1>4. ASSUME NEW d \in Commands, Starts(d) PROVE TrueEnd(ended', spoilt', c, exit)
  BY <1>4, StartsMoves DEF TrueEnd
<1>5. CASE CommandEnds
  <2>1. /\ spoilt' = spoilt /\ console.state = "run" /\ console.cmd \in Commands
        /\ ended' = [ended EXCEPT ![console.cmd] = Append(ended[console.cmd], Codes[console.cmd])]
    BY <1>5, EndsMoves
  <2>2. ended[console.cmd] = <<>> /\ ended[c] = <<Codes[c]>>
    BY <2>1 DEF EndsOnce, TrueEnd
  <2>3. <<Codes[c]>> # <<>>
    OBVIOUS
  <2>4. c # console.cmd
    BY <2>2, <2>3
  <2>5. ended'[c] = ended[c]
    BY <2>1, <2>4, Types2
  <2> QED
    BY <2>1, <2>5 DEF TrueEnd
<1> QED
  BY <1>1, <1>2, <1>3, <1>4, <1>5, StepKinds

\* What happens to the results.
LEMMA ResultMoves ==
    ASSUME ShellTypeInv, [ShellNext]_shellVars
    PROVE  \/ results' = results
           \/ host.pc = "login" /\ Finished([how |-> "raised", exit |-> NoCode, output |-> <<>>])
           \/ CollectTimesOut /\ Finished([how |-> "timeout", exit |-> NoCode,
                                           output |-> Extracted(host.cmd, host.output)])
           \/ CollectEnds /\ Finished([how |-> "ended", exit |-> ExitOf(Received),
                                       output |-> Extracted(host.cmd, host.output)])
<1>1. CASE UNCHANGED shellVars \/ DeviceIdles \/ Break
  BY <1>1, QuietKinds
<1>2. CASE (\E c \in Commands : Starts(c)) \/ CommandPrints \/ CommandEnds \/ LoginSeesPrompt
  BY <1>2, StartsMoves, PrintsMoves, EndsMoves, PromptMoves
<1>3. CASE BeginLogin \/ LoginIsAsked \/ LoginSkips \/ LoginPokes \/ CollectReads
  BY <1>3 DEF BeginLogin, LoginIsAsked, LoginSkips, LoginPokes, CollectReads
<1>4. CASE LoginIsAskedPassword \/ LoginTimesOut
  <2>1. results' = results \/ (host.pc = "login" /\ Finish("raised", NoCode, <<>>))
    BY <1>4 DEF LoginIsAskedPassword, LoginTimesOut
  <2> QED
    BY <2>1, Returns
<1>5. CASE CollectTimesOut
  BY <1>5, Returns
<1>6. CASE CollectEnds
  BY <1>6, Returns
<1> QED
  BY <1>1, <1>2, <1>3, <1>4, <1>5, <1>6, StepKinds DEF Controller

\* A call returns with a true end only.
LEMMA ResultsStep ==
    ShellTypeInv /\ EndsOnce /\ ResultsTrue /\ [ShellNext]_shellVars => ResultsTrue'
<1> SUFFICES ASSUME ShellTypeInv, EndsOnce, ResultsTrue, [ShellNext]_shellVars,
                    NEW c \in Commands, results'[c].how = "ended"
             PROVE  TrueEnd(ended', spoilt', c, results'[c].exit)
  BY DEF ResultsTrue, TrueEnd
<1>1. ASSUME results'[c] = results[c] PROVE TrueEnd(ended', spoilt', c, results'[c].exit)
  <2>1. TrueEnd(ended, spoilt, c, results[c].exit)
    BY <1>1 DEF ResultsTrue
  <2>2. TrueEnd(ended', spoilt', c, results[c].exit)
    BY <2>1, TrueStays
  <2> QED
    BY <1>1, <2>2
<1>2. CASE results'[c] # results[c]
  <2>1. /\ CollectEnds /\ c = host.cmd
        /\ results'[c] = [how |-> "ended", exit |-> ExitOf(Received),
                          output |-> Extracted(host.cmd, host.output)]
    BY <1>2, ResultMoves DEF Finished
  <2>2. rx # <<>> /\ Received.kind \in Ends /\ Received.cmd = c
    BY <2>1 DEF CollectEnds, IsEnd, Ends
  <2>3. 1 \in DOMAIN rx /\ Received = rx[1]
    BY <2>2, Types1, OneLess DEF Received
  <2>4. TrueEnd(ended, spoilt, c, ExitOf(Received))
    BY <2>2, <2>3 DEF EndsOnce
  <2>5. results'[c].exit = ExitOf(Received)
    BY <2>1
  <2> QED
    BY <2>4, <2>5, TrueStays
<1> QED
  BY <1>1, <1>2

EndInv == CallOrder /\ EndsOnce /\ ResultsTrue

\* What the ends say holds at first.
LEMMA EndInit == ShellInit => EndInv
<1> SUFFICES ASSUME ShellInit PROVE EndInv
  OBVIOUS
<1>1. /\ results = [c \in Commands |-> [how |-> "none", exit |-> NoCode, output |-> <<>>]]
      /\ typed = <<>> /\ rx = <<>> /\ console.cmd = 0 /\ console.state # "run"
      /\ ended = [c \in Commands |-> <<>>]
  BY DEF ShellInit
<1> QED
  BY <1>1 DEF EndInv, CallOrder, TypedOrder, RxOrder, EndsOnce, ResultsTrue

\* What the ends say holds always.
LEMMA EndInvariant == ShellSpec => [](ShellTypeInv /\ EndInv)
<1>1. ShellTypeInv /\ EndInv /\ [ShellNext]_shellVars => EndInv'
  BY OrderStep, EndsStep, ResultsStep DEF EndInv
<1> QED
  BY <1>1, EndInit, ShellTypeInit, ShellTypeStep, PTL DEF ShellSpec

\* A call that saw an end saw the one of its own command, which ran once; its exit
\* code is that of the run or none, and never tells a failure for a success or a
\* success for a failure, whatever boots, other users and noise do to the console
\* (_execute_with_port, _parse_exit_code).
THEOREM ResultsAreOwn == ShellSpec => []ResultIsOwn
<1>1. ShellTypeInv /\ EndInv => ResultIsOwn
  <2> SUFFICES ASSUME ShellTypeInv, EndInv, NEW c \in Commands
               PROVE  /\ Len(ended[c]) <= 1
                      /\ results[c].how = "ended" =>
                            /\ Len(ended[c]) = 1
                            /\ c \notin spoilt => results[c].exit = ended[c][1]
                            /\ results[c].exit # NoCode => (results[c].exit = 0 <=> ended[c][1] = 0)
    BY DEF ResultIsOwn
  <2>1. /\ Len(<<>>) = 0 /\ Len(<<Codes[c]>>) = 1 /\ <<Codes[c]>>[1] = Codes[c]
    OBVIOUS
  <2>2. Len(ended[c]) <= 1
    <3>1. ended[c] = <<>> \/ ended[c] = <<Codes[c]>>
      BY DEF EndInv, EndsOnce
    <3>2. CASE ended[c] = <<>>
      <4>1. 0 <= 1
        OBVIOUS
      <4> QED
        BY <2>1, <3>2, <4>1
    <3>3. CASE ended[c] = <<Codes[c]>>
      <4>1. 1 <= 1
        OBVIOUS
      <4> QED
        BY <2>1, <3>3, <4>1
    <3> QED
      BY <3>1, <3>2, <3>3
  <2>3. ASSUME results[c].how = "ended"
        PROVE  /\ Len(ended[c]) = 1
               /\ c \notin spoilt => results[c].exit = ended[c][1]
               /\ results[c].exit # NoCode => (results[c].exit = 0 <=> ended[c][1] = 0)
    BY <2>1, <2>3 DEF EndInv, ResultsTrue, TrueEnd
  <2> QED
    BY <2>2, <2>3
<1> QED
  BY <1>1, EndInvariant, PTL

-----------------------------------------------------------------------------
(* What a call collects *)

\* What happens to the call.
LEMMA CallMoves ==
    ASSUME ShellTypeInv, [ShellNext]_shellVars
    PROVE  \/ /\ host'.pc = host.pc /\ host'.cmd = host.cmd
              /\ host'.capture = host.capture /\ host'.output = host.output
           \/ host'.pc \notin {"login", "collect"}
           \/ host'.pc = "login" /\ ~host'.capture /\ host'.output = <<>>
           \/ LoginSeesPrompt
           \/ CollectReads
<1> DEFINE Goal == \/ /\ host'.pc = host.pc /\ host'.cmd = host.cmd
                      /\ host'.capture = host.capture /\ host'.output = host.output
                   \/ host'.pc \notin {"login", "collect"}
                   \/ host'.pc = "login" /\ ~host'.capture /\ host'.output = <<>>
                   \/ LoginSeesPrompt
                   \/ CollectReads
<1>1. ASSUME host' = host PROVE Goal
  BY <1>1
<1>2. ASSUME NEW result, Finished(result) PROVE Goal
  BY <1>2 DEF Finished
<1>3. CASE UNCHANGED shellVars \/ DeviceIdles \/ Break
  BY <1>1, <1>3, QuietKinds
<1>4. ASSUME NEW c \in Commands, Starts(c) PROVE Goal
  BY <1>1, <1>4, StartsMoves
<1>5. CASE CommandPrints \/ CommandEnds
  BY <1>1, <1>5, PrintsMoves, EndsMoves
<1>6. CASE LoginSeesPrompt \/ CollectReads
  BY <1>6
<1>7. CASE BeginLogin
  <2>1. host' = [host EXCEPT !.pc = "login", !.pokes = 0, !.capture = FALSE, !.output = <<>>]
    BY <1>7 DEF BeginLogin
  <2>2. host \in [pc : HostPcs, cmd : Commands, pokes : 0..MaxPokes, capture : BOOLEAN,
                  output : Seq(Line), secret : BOOLEAN]
    BY Types2 DEF HostOK
  <2>3. host'.pc = "login" /\ host'.capture = FALSE /\ host'.output = <<>>
    BY <2>1, <2>2
  <2> QED
    BY <2>3
<1>8. CASE LoginIsAsked \/ LoginSkips
  BY <1>1, <1>8 DEF LoginIsAsked, LoginSkips
<1>9. CASE LoginIsAskedPassword
  <2>1. host' = host \/ Finish("raised", NoCode, <<>>)
    BY <1>9 DEF LoginIsAskedPassword
  <2> QED
    BY <1>1, <1>2, <2>1, Returns
<1>10. CASE LoginPokes
  <2>1. host' = [host EXCEPT !.pokes = @ + 1]
    BY <1>10 DEF LoginPokes
  <2>2. host \in [pc : HostPcs, cmd : Commands, pokes : 0..MaxPokes, capture : BOOLEAN,
                  output : Seq(Line), secret : BOOLEAN]
    BY Types2 DEF HostOK
  <2>3. /\ host'.pc = host.pc /\ host'.cmd = host.cmd
        /\ host'.capture = host.capture /\ host'.output = host.output
    BY <2>1, <2>2
  <2> QED
    BY <2>3
<1>11. CASE LoginTimesOut
  BY <1>2, <1>11, Returns DEF LoginTimesOut
<1>12. CASE CollectEnds \/ CollectTimesOut
  BY <1>2, <1>12, Returns
<1> QED
  BY <1>3, <1>4, <1>5, <1>6, <1>7, <1>8, <1>9, <1>10, <1>11, <1>12, StepKinds DEF Controller

\* Only lines of the command c are to come, if they are of one at all.
OnlyOf(s, c) == \A i \in DOMAIN s : s[i].cmd \in {0, c}

\* Once only the lines of the command of the call are to come, it stays so.
LEMMA OnlyStays ==
    ASSUME ShellTypeInv, CallOrder, [ShellNext]_shellVars, host.pc = "collect",
           console.cmd = host.cmd, OnlyOf(rx, host.cmd)
    PROVE  console'.cmd = host.cmd /\ OnlyOf(rx', host.cmd)
<1> DEFINE h == host.cmd
<1>1. ASSUME RxQuiet, console'.cmd = console.cmd PROVE console'.cmd = h /\ OnlyOf(rx', h)
  <2>1. PICK at \in [DOMAIN rx' -> Nat] :
            \A k \in DOMAIN rx' : rx'[k].cmd # 0 => at[k] \in DOMAIN rx /\ Similar(rx[at[k]], rx'[k])
    BY <1>1 DEF RxQuiet, Comes
  <2>2. ASSUME NEW k \in DOMAIN rx', rx'[k].cmd # 0 PROVE rx'[k].cmd = h
    <3>1. at[k] \in DOMAIN rx /\ rx'[k].cmd = rx[at[k]].cmd
      BY <2>1, <2>2 DEF Similar
    <3> QED
      BY <2>2, <3>1 DEF OnlyOf
  <2> QED
    BY <1>1, <2>2 DEF OnlyOf
<1>2. CASE UNCHANGED shellVars \/ DeviceIdles \/ Break
  BY <1>1, <1>2, QuietKinds DEF Quiet, ConsoleQuiet
<1>3. CASE Controller /\ ~LoginSeesPrompt
  BY <1>1, <1>3, ControllerQuiet DEF Quiet
<1>4. CASE LoginSeesPrompt
  BY <1>4, PromptMoves
<1>5. ASSUME NEW c \in Commands, Starts(c) PROVE FALSE
  <2>1. h < c /\ SentBy(host, c) /\ c \in Nat /\ h \in Nat
    BY <1>5, TypedOrderStarts, CmdNumbers, Numbers DEF CallOrder
  <2> QED
    BY <2>1 DEF SentBy
<1>6. CASE CommandPrints
  <2>1. /\ Extends(rx, rx') /\ console'.cmd = h
        /\ \A k \in DOMAIN rx' \ DOMAIN rx : rx'[k].cmd = h
    <3>1. Of("out", console.cmd, console.next).cmd = h
      BY DEF Of
    <3> QED
      BY <1>6, <3>1, PrintsMoves DEF MoreBy
  <2> QED
    BY <2>1 DEF OnlyOf, Extends
<1>7. CASE CommandEnds
  <2>1. /\ Extends(rx, rx') /\ console'.cmd = h
        /\ \A k \in DOMAIN rx' \ DOMAIN rx : rx'[k].cmd \in {0, h}
    <3>1. Of("end", console.cmd, Codes[console.cmd]).cmd = h /\ Plain("prompt").cmd = 0
      BY DEF Of, Plain
    <3> QED
      BY <1>7, <3>1, EndsMoves
  <2> QED
    BY <2>1 DEF OnlyOf, Extends
<1> QED
  BY <1>2, <1>3, <1>4, <1>5, <1>6, <1>7, StepKinds

\* When the begin of the command is received, nothing of an earlier one is to come.
LEMMA BeginIsLate ==
    ASSUME ShellTypeInv, CallOrder, host.pc = "collect", rx # <<>>, IsBegin(Received)
    PROVE  console.cmd = host.cmd /\ OnlyOf(rx, host.cmd)
<1> DEFINE h == host.cmd
           d == console.cmd
<1>1. /\ 1 \in DOMAIN rx /\ rx[1].cmd = h /\ \A i \in DOMAIN rx : i # 1 => 1 < i
      /\ h \in Nat /\ d \in Nat /\ h # 0
  BY Types1, OneLess, CmdNumbers DEF Received, IsBegin
<1>2. /\ \A i \in DOMAIN rx : rx[i].cmd <= d
      /\ \A i \in DOMAIN rx : i # 1 /\ rx[i].cmd # 0 => h <= rx[i].cmd
      /\ d # 0 => SentBy(host, d)
  BY <1>1 DEF CallOrder, RxOrder
<1>3. \A i \in DOMAIN rx : rx[i].cmd \in Nat
  BY Types1, LineCmds
<1>4. d # 0 => d <= h
  BY <1>1, <1>2 DEF SentBy
<1> HIDE DEF h, d
<1>5. h = d
  BY <1>1, <1>2, <1>4
<1>6. \A i \in DOMAIN rx : rx[i].cmd \in {0, h}
  BY <1>1, <1>2, <1>3, <1>5
<1> QED
  BY <1>5, <1>6 DEF OnlyOf, h, d

\* Each step keeps what is known of a call that collects.
LEMMA CaptureStep ==
    ShellTypeInv /\ CallOrder /\ CaptureInv /\ [ShellNext]_shellVars => CaptureInv'
<1> SUFFICES ASSUME ShellTypeInv, CallOrder, CaptureInv, [ShellNext]_shellVars PROVE CaptureInv'
  OBVIOUS
<1> DEFINE h == host.cmd
<1>1. ASSUME NEW c \in Commands, NEW i \in DOMAIN results'[c].output
      PROVE  /\ results'[c].output[i].kind = "out" => results'[c].output[i].cmd = c
             /\ c \in Structured /\ results'[c].output[i].kind # "out" =>
                   \A j \in DOMAIN results'[c].output : results'[c].output[j].kind # "out"
  <2>1. CASE results'[c] = results[c]
    BY <1>1, <2>1 DEF CaptureInv, OutputIsOwn
  <2>2. CASE results'[c] # results[c]
    <3>1. c = h /\ \/ results'[c].output = <<>>
                   \/ host.pc = "collect" /\ results'[c].output = Extracted(h, host.output)
      BY <2>2, ResultMoves DEF Finished, CollectTimesOut, CollectEnds
    <3>2. results'[c].output # <<>>
      BY <1>1
    <3> DEFINE some == Extracted(c, host.output)
    <3>3. /\ \A k \in DOMAIN some : k \in DOMAIN host.output /\ some[k] = host.output[k]
          /\ c \in Structured /\ Own(host.output) # {} => DOMAIN some = Own(host.output)
      BY Extraction, Types2
    <3>4. some = results'[c].output /\ \A k \in Own(host.output) : host.output[k].cmd = c
      BY <3>1, <3>2 DEF CaptureInv
    <3> HIDE DEF some
    <3>5. \A k \in DOMAIN some : some[k].kind = "out" => k \in Own(host.output) /\ some[k].cmd = c
      BY <3>3, <3>4 DEF Own
    <3>6. ASSUME c \in Structured, NEW j \in DOMAIN some, some[j].kind = "out", NEW k \in DOMAIN some
          PROVE  some[k].kind = "out"
      <4>1. DOMAIN some = Own(host.output)
        BY <3>3, <3>5, <3>6
      <4> QED
        BY <3>3, <4>1 DEF Own
    <3> QED
      BY <1>1, <3>4, <3>5, <3>6
  <2> QED
    BY <2>1, <2>2
<1>2. OutputIsOwn'
  BY <1>1 DEF OutputIsOwn
<1>3. CASE /\ host'.pc = host.pc /\ host'.cmd = host.cmd
           /\ host'.capture = host.capture /\ host'.output = host.output
  <2>1. ASSUME host'.pc = "collect", host'.capture PROVE console'.cmd = h /\ OnlyOf(rx', h)
    <3>1. host.pc = "collect" /\ console.cmd = h /\ OnlyOf(rx, h)
      BY <1>3, <2>1 DEF CaptureInv, OnlyOf
    <3> QED
      BY <3>1, OnlyStays
  <2> QED
    BY <1>2, <1>3, <2>1 DEF CaptureInv, OnlyOf
<1>4. CASE host'.pc \notin {"login", "collect"}
  BY <1>2, <1>4 DEF CaptureInv
<1>5. CASE host'.pc = "login" /\ ~host'.capture /\ host'.output = <<>>
  BY <1>2, <1>5 DEF CaptureInv
<1>6. CASE LoginSeesPrompt
  <2>1. host'.pc = "collect" /\ ~host'.capture /\ host'.output = <<>>
    BY <1>6, PromptMoves DEF CaptureInv
  <2>2. Own(host'.output) = {}
    BY <2>1 DEF Own
  <2> QED
    BY <1>2, <2>1, <2>2 DEF CaptureInv
<1>7. CASE CollectReads
  <2>1. /\ host.pc = "collect" /\ rx # <<>> /\ host'.pc = "collect" /\ host'.cmd = h
        /\ host'.capture = (host.capture \/ IsBegin(Received))
        /\ \/ /\ host'.output = host.output
              /\ ~host.capture \/ IsBegin(Received) \/ Drops(Received)
           \/ /\ host.capture /\ ~IsBegin(Received) /\ Keeps(Received)
              /\ MoreBy(host.output, host'.output, Received)
    BY <1>7, CollectMoves
  <2>2. ASSUME host'.capture PROVE console'.cmd = h /\ OnlyOf(rx', h)
    <3>1. console.cmd = h /\ OnlyOf(rx, h)
      BY <2>1, <2>2, BeginIsLate DEF CaptureInv, OnlyOf
    <3> QED
      BY <2>1, <3>1, OnlyStays
  <2>3. ~host'.capture => host'.output = <<>>
    BY <2>1 DEF CaptureInv
  <2>4. ASSUME NEW i \in Own(host'.output) PROVE host'.output[i].cmd = h
    <3>1. CASE host'.output = host.output
      BY <2>1, <2>4, <3>1 DEF CaptureInv
    <3>2. CASE host.capture /\ MoreBy(host.output, host'.output, Received)
      <4>1. CASE i \in DOMAIN host.output
        BY <2>1, <2>4, <3>2, <4>1 DEF CaptureInv, MoreBy, Extends, Own
      <4>2. CASE i \notin DOMAIN host.output
        <5>1. host'.output[i] = Received /\ Received.kind = "out"
          BY <2>4, <3>2, <4>2 DEF MoreBy, Own
        <5>2. 1 \in DOMAIN rx /\ Received = rx[1]
          BY <2>1, Types1, OneLess DEF Received
        <5>3. Received.cmd # 0
          BY <5>1, <5>2, Types1 DEF MarkedLines, Marks
        <5>4. Received.cmd \in {0, h}
          BY <2>1, <3>2, <5>2 DEF CaptureInv
        <5> QED
          BY <5>1, <5>3, <5>4
      <4> QED
        BY <4>1, <4>2
    <3> QED
      BY <2>1, <3>1, <3>2
  <2> QED
    BY <1>2, <2>1, <2>2, <2>3, <2>4 DEF CaptureInv, OnlyOf
<1> QED
  BY <1>3, <1>4, <1>5, <1>6, <1>7, CallMoves

\* What is known of a call that collects holds at first.
LEMMA CaptureInit == ShellInit => CaptureInv
<1> SUFFICES ASSUME ShellInit PROVE CaptureInv
  OBVIOUS
<1>1. /\ results = [c \in Commands |-> [how |-> "none", exit |-> NoCode, output |-> <<>>]]
      /\ host.pc = "idle"
  BY DEF ShellInit
<1>2. OutputIsOwn
  BY <1>1 DEF OutputIsOwn
<1> QED
  BY <1>1, <1>2 DEF CaptureInv

\* What is known of a call that collects holds always.
LEMMA CaptureInvariant == ShellSpec => [](ShellTypeInv /\ EndInv /\ CaptureInv)
<1>1. ShellTypeInv /\ EndInv /\ CaptureInv /\ [ShellNext]_shellVars => CaptureInv'
  BY CaptureStep DEF EndInv
<1> QED
  BY <1>1, CaptureInit, EndInvariant, PTL DEF ShellSpec

\* What an earlier command still prints, and what stood in the buffer when a call
\* began, is never in its output, and structured output that has a line of its own
\* has no noise (_execute_with_port, _should_collect_output_line,
\* _extract_structured_output_lines).
THEOREM OutputsAreOwn == ShellSpec => []OutputIsOwn
<1>1. CaptureInv => OutputIsOwn
  BY DEF CaptureInv
<1> QED
  BY <1>1, CaptureInvariant, PTL

-----------------------------------------------------------------------------
(* What is to come of a command *)

Content == {"out"} \cup Ends

\* The lines of these kinds of the command c are the same in s and in t, in the same
\* order.
Carried(s, t, c, kinds) ==
    \E at \in [DOMAIN t -> Nat] :
        /\ \A k \in DOMAIN t : t[k].cmd = c /\ t[k].kind \in kinds =>
              at[k] \in DOMAIN s /\ s[at[k]] = t[k]
        /\ \A k, l \in DOMAIN t :
              /\ k < l
              /\ t[k].cmd = c /\ t[k].kind \in kinds
              /\ t[l].cmd = c /\ t[l].kind \in kinds
              => at[k] < at[l]
        /\ \A j \in DOMAIN s : s[j].cmd = c /\ s[j].kind \in kinds =>
              \E k \in DOMAIN t : at[k] = j /\ t[k] = s[j]

\* Nothing of these lines is added, or the first line is none of them and goes.
LEMMA CarriedMore ==
    ASSUME NEW s \in Seq(Line), NEW t \in Seq(Line), Extends(s, t), NEW c, NEW kinds,
           \A k \in DOMAIN t \ DOMAIN s : ~(t[k].cmd = c /\ t[k].kind \in kinds)
    PROVE  Carried(s, t, c, kinds)
<1> DEFINE at == [k \in DOMAIN t |-> k]
<1>1. DOMAIN t \subseteq Nat
  BY Places
<1>2. at \in [DOMAIN t -> Nat] /\ \A k \in DOMAIN t : at[k] = k
  BY <1>1
<1> HIDE DEF at
<1>3. /\ \A k \in DOMAIN t : t[k].cmd = c /\ t[k].kind \in kinds =>
            at[k] \in DOMAIN s /\ s[at[k]] = t[k]
      /\ \A k, l \in DOMAIN t : k < l => at[k] < at[l]
      /\ \A j \in DOMAIN s : \E k \in DOMAIN t : at[k] = j /\ t[k] = s[j]
  BY <1>2 DEF Extends
<1> QED
  BY <1>2, <1>3 DEF Carried

\* The first line is none of them and goes.
LEMMA CarriedTail ==
    ASSUME NEW s \in Seq(Line), s # <<>>, NEW c, NEW kinds,
           ~(s[1].cmd = c /\ s[1].kind \in kinds)
    PROVE  Carried(s, Tail(s), c, kinds)
<1> DEFINE t  == Tail(s)
           at == [k \in DOMAIN t |-> k + 1]
<1>1. /\ t \in Seq(Line)
      /\ \A k \in DOMAIN t : k + 1 \in DOMAIN s /\ t[k] = s[k + 1]
      /\ \A j \in DOMAIN s : j # 1 => j - 1 \in DOMAIN t /\ t[j - 1] = s[j]
  BY OneLess
<1>2. DOMAIN t \subseteq Nat /\ DOMAIN s \subseteq Nat
  BY <1>1, Places
<1> HIDE DEF t
<1>3. at \in [DOMAIN t -> Nat] /\ \A k \in DOMAIN t : at[k] = k + 1
  BY <1>2
<1> HIDE DEF at
<1>4. \A k, l \in DOMAIN t : k < l => at[k] < at[l]
  BY <1>2, <1>3
<1>5. ASSUME NEW j \in DOMAIN s, s[j].cmd = c, s[j].kind \in kinds
      PROVE  \E k \in DOMAIN t : at[k] = j /\ t[k] = s[j]
  <2>1. j # 1
    BY <1>5
  <2>2. j - 1 \in DOMAIN t /\ t[j - 1] = s[j] /\ (j - 1) + 1 = j
    BY <1>1, <1>2, <2>1
  <2> QED
    BY <1>3, <2>2
<1>6. \A k \in DOMAIN t : at[k] \in DOMAIN s /\ s[at[k]] = t[k]
  BY <1>1, <1>3
<1>7. Carried(s, t, c, kinds)
  BY <1>3, <1>4, <1>5, <1>6 DEF Carried
<1> QED
  BY <1>7 DEF t

\* A line of another command, or of none, breaks.
LEMMA CarriedBreak ==
    ASSUME ShellTypeInv, Break, NEW c \in Commands, c \notin spoilt', NEW kinds
    PROVE  Carried(rx, rx', c, kinds)
<1>1. PICK i \in DOMAIN rx : \E at \in [DOMAIN rx' -> DOMAIN rx] : BrokeAt(i, at)
  BY BreakMoves
<1>2. PICK at \in [DOMAIN rx' -> DOMAIN rx] : BrokeAt(i, at)
  BY <1>1
<1>3. rx[i].cmd # c /\ DOMAIN rx \subseteq Nat /\ c # 0
  BY <1>2, Types1, Places, Numbers DEF BrokeAt
<1>4. Plain("noise").cmd = 0
  BY DEF Plain
<1>5. ASSUME NEW k \in DOMAIN rx', rx'[k].cmd = c PROVE at[k] # i
  BY <1>2, <1>3, <1>4, <1>5 DEF BrokeAt, Similar
<1>6. at \in [DOMAIN rx' -> Nat]
  BY <1>3
<1>7. \A k \in DOMAIN rx' : rx'[k].cmd = c => at[k] \in DOMAIN rx /\ rx[at[k]] = rx'[k]
  BY <1>2, <1>5 DEF BrokeAt
<1>8. \A k, l \in DOMAIN rx' : k < l /\ rx'[k].cmd = c /\ rx'[l].cmd = c => at[k] < at[l]
  BY <1>2, <1>3, <1>4 DEF BrokeAt
<1>9. \A j \in DOMAIN rx : rx[j].cmd = c => \E k \in DOMAIN rx' : at[k] = j /\ rx'[k] = rx[j]
  BY <1>2, <1>3 DEF BrokeAt
<1> QED
  BY <1>6, <1>7, <1>8, <1>9 DEF Carried

\* What is to come is as before.
LEMMA WholeCarried ==
    ASSUME NEW output, NEW s \in Seq(Line), NEW t \in Seq(Line), NEW c, NEW n,
           Carried(s, t, c, Content), Whole(output, s, c, n)
    PROVE  Whole(output, t, c, n)
<1>1. PICK at \in [DOMAIN t -> Nat] :
          /\ \A k \in DOMAIN t : t[k].cmd = c /\ t[k].kind \in Content =>
                at[k] \in DOMAIN s /\ s[at[k]] = t[k]
          /\ \A k, l \in DOMAIN t :
                /\ k < l
                /\ t[k].cmd = c /\ t[k].kind \in Content
                /\ t[l].cmd = c /\ t[l].kind \in Content
                => at[k] < at[l]
          /\ \A j \in DOMAIN s : s[j].cmd = c /\ s[j].kind \in Content =>
                \E k \in DOMAIN t : at[k] = j /\ t[k] = s[j]
  BY DEF Carried
<1>2. "out" \in Content /\ Ends \subseteq Content
  BY DEF Content
<1>3. \A k \in Ahead(t, c) : at[k] \in Ahead(s, c) /\ s[at[k]] = t[k]
  BY <1>1, <1>2 DEF Ahead
<1>4. \A j \in Ahead(s, c) : \E k \in Ahead(t, c) : at[k] = j /\ t[k] = s[j]
  BY <1>1, <1>2 DEF Ahead
<1>5. \A k, l \in Ahead(t, c) : k < l => at[k] < at[l]
  BY <1>1, <1>2 DEF Ahead
<1>6. /\ \A i \in Ahead(t, c) : 1 <= t[i].n /\ t[i].n < n
      /\ \A m \in Kept(c) : m < n =>
            \/ \E i \in Own(output) : output[i].n = m
            \/ \E i \in Ahead(t, c) : t[i].n = m
  <2>1. \A m : (\E i \in Ahead(s, c) : s[i].n = m) => (\E k \in Ahead(t, c) : t[k].n = m)
    BY <1>4
  <2>2. \A i \in Ahead(t, c) : 1 <= t[i].n /\ t[i].n < n
    BY <1>3 DEF Whole
  <2> QED
    BY <2>1, <2>2 DEF Whole
<1>7. \A i, j \in Ahead(t, c) : i < j => t[i].n < t[j].n
  BY <1>3, <1>5 DEF Whole
<1>8. \A i \in Own(output), j \in Ahead(t, c) : output[i].n < t[j].n
  BY <1>3 DEF Whole
<1>9. ASSUME NEW i \in DOMAIN t, t[i].kind \in Ends, t[i].cmd = c
      PROVE  n = Count(c) + 1 /\ \A j \in Ahead(t, c) : j < i
  <2>1. at[i] \in DOMAIN s /\ s[at[i]] = t[i]
    BY <1>1, <1>2, <1>9
  <2>2. n = Count(c) + 1 /\ \A j \in Ahead(s, c) : j < at[i]
    BY <1>9, <2>1 DEF Whole
  <2>3. ASSUME NEW j \in Ahead(t, c) PROVE j < i
    <3>1. at[j] < at[i] /\ at[j] \in Nat /\ at[i] \in Nat
      BY <1>3, <2>1, <2>2, <2>3 DEF Ahead
    <3>2. j \in DOMAIN t /\ t[j].cmd = c /\ t[j].kind \in Content
      BY <1>2, <2>3 DEF Ahead
    <3>3. i \in Nat /\ j \in Nat
      BY <3>2, Places
    <3>4. ~(i < j)
      <4>1. i < j => at[i] < at[j]
        BY <1>1, <1>2, <1>9, <3>2
      <4> QED
        BY <3>1, <4>1
    <3>5. i # j
      BY <3>1
    <3> QED
      BY <3>3, <3>4, <3>5
  <2> QED
    BY <2>2, <2>3
<1>10. /\ \A i \in Own(output) : output[i].n \in Kept(c) /\ output[i].n < n
       /\ \A i, j \in Own(output) : i < j => output[i].n < output[j].n
  BY DEF Whole
<1> QED
  BY <1>6, <1>7, <1>8, <1>9, <1>10 DEF Whole

\* The begin that is to come is as before.
LEMMA BegunCarried ==
    ASSUME NEW s \in Seq(Line), NEW t \in Seq(Line), NEW c,
           Carried(s, t, c, {"begin"} \cup Content), Begun(s, c)
    PROVE  Begun(t, c)
<1> DEFINE kinds == {"begin"} \cup Content
<1>1. PICK at \in [DOMAIN t -> Nat] :
          /\ \A k \in DOMAIN t : t[k].cmd = c /\ t[k].kind \in kinds =>
                at[k] \in DOMAIN s /\ s[at[k]] = t[k]
          /\ \A k, l \in DOMAIN t :
                /\ k < l
                /\ t[k].cmd = c /\ t[k].kind \in kinds
                /\ t[l].cmd = c /\ t[l].kind \in kinds
                => at[k] < at[l]
          /\ \A j \in DOMAIN s : s[j].cmd = c /\ s[j].kind \in kinds =>
                \E k \in DOMAIN t : at[k] = j /\ t[k] = s[j]
  BY DEF Carried
<1>2. "begin" \in kinds /\ {"out"} \cup Ends \subseteq kinds
  BY DEF Content
<1> HIDE DEF kinds
<1>3. PICK p \in DOMAIN s :
          /\ s[p].kind = "begin" /\ s[p].cmd = c
          /\ \A i \in DOMAIN s : s[i].cmd = c /\ s[i].kind \in {"out"} \cup Ends => p < i
  BY DEF Begun
<1>4. PICK q \in DOMAIN t : at[q] = p /\ t[q] = s[p]
  BY <1>1, <1>2, <1>3
<1>5. ASSUME NEW i \in DOMAIN t, t[i].cmd = c, t[i].kind \in {"out"} \cup Ends PROVE q < i
  <2>1. t[i].kind \in kinds /\ t[q].kind \in kinds /\ t[q].cmd = c
    BY <1>2, <1>3, <1>4, <1>5
  <2>2. at[i] \in DOMAIN s /\ s[at[i]] = t[i]
    BY <1>1, <1>5, <2>1
  <2>3. at[q] < at[i] /\ at[q] \in Nat /\ at[i] \in Nat
    BY <1>3, <1>4, <1>5, <2>2
  <2>4. i < q => at[i] < at[q]
    BY <1>1, <1>5, <2>1
  <2>5. i \in Nat /\ q \in Nat /\ i # q
    BY <2>3, Places
  <2>6. ~(i < q)
    BY <2>3, <2>4
  <2> QED
    BY <2>5, <2>6
<1> QED
  BY <1>3, <1>4, <1>5 DEF Begun

\* What has been collected is as before.
LEMMA WholeOwn ==
    ASSUME NEW output, NEW longer, NEW s, NEW c, NEW n,
           Own(longer) = Own(output), \A i \in Own(output) : longer[i] = output[i],
           Whole(output, s, c, n)
    PROVE  Whole(longer, s, c, n)
<1>1. \A m : (\E i \in Own(longer) : longer[i].n = m) <=> (\E i \in Own(output) : output[i].n = m)
  OBVIOUS
<1>2. /\ \A i \in Own(longer) : longer[i].n \in Kept(c) /\ longer[i].n < n
      /\ \A i, j \in Own(longer) : i < j => longer[i].n < longer[j].n
      /\ \A i \in Own(longer), j \in Ahead(s, c) : longer[i].n < s[j].n
  BY DEF Whole
<1> QED
  BY <1>1, <1>2 DEF Whole

\* Lines that are none of the command's are collected, too.
LEMMA OwnStays ==
    ASSUME NEW output, NEW longer, NEW line, MoreBy(output, longer, line), line.kind # "out"
    PROVE  Own(longer) = Own(output) /\ \A i \in Own(output) : longer[i] = output[i]
<1>1. /\ DOMAIN output \subseteq DOMAIN longer
      /\ \A i \in DOMAIN output : longer[i] = output[i]
      /\ \A k \in DOMAIN longer \ DOMAIN output : longer[k].kind # "out"
  BY DEF MoreBy, Extends
<1> QED
  BY <1>1 DEF Own

\* The next line is collected.
LEMMA WholeTakes ==
    ASSUME NEW output \in Seq(Line), NEW longer \in Seq(Line), NEW s \in Seq(Line), s # <<>>,
           NEW c, NEW n, s[1].kind = "out", s[1].cmd = c, s[1].n \in Kept(c),
           MoreBy(output, longer, s[1]), Whole(output, s, c, n)
    PROVE  Whole(longer, Tail(s), c, n)
<1> DEFINE t == Tail(s)
           line == s[1]
<1>1. /\ t \in Seq(Line) /\ 1 \in DOMAIN s
      /\ \A i \in DOMAIN s : i # 1 => 1 < i
      /\ \A k \in DOMAIN t : k + 1 \in DOMAIN s /\ t[k] = s[k + 1] /\ 1 < k + 1
      /\ \A i \in DOMAIN s : i # 1 => i - 1 \in DOMAIN t /\ t[i - 1] = s[i]
  BY OneLess
<1>2. DOMAIN t \subseteq Nat /\ DOMAIN s \subseteq Nat /\ DOMAIN longer \subseteq Nat
  BY <1>1, Places
<1>3. PICK q \in DOMAIN longer :
          /\ q \notin DOMAIN output /\ DOMAIN longer = DOMAIN output \cup {q} /\ longer[q] = line
          /\ \A i \in DOMAIN output : longer[i] = output[i] /\ i < q
  BY DEF MoreBy, Extends
<1>4. 1 \in Ahead(s, c)
  BY <1>1 DEF Ahead
<1> HIDE DEF t
<1>5. Own(longer) = Own(output) \cup {q} /\ \A i \in Own(output) : longer[i] = output[i] /\ i < q
  BY <1>3 DEF Own
<1>6. \A k \in Ahead(t, c) : k + 1 \in Ahead(s, c) /\ t[k] = s[k + 1] /\ 1 < k + 1
  BY <1>1 DEF Ahead
<1>7. \A j \in Ahead(s, c) : j # 1 => j - 1 \in Ahead(t, c) /\ t[j - 1] = s[j]
  BY <1>1 DEF Ahead
<1>8. /\ \A i \in Own(longer) : longer[i].n \in Kept(c) /\ longer[i].n < n
      /\ \A i \in Ahead(t, c) : 1 <= t[i].n /\ t[i].n < n
      /\ \A m \in Kept(c) : m < n =>
            \/ \E i \in Own(longer) : longer[i].n = m
            \/ \E i \in Ahead(t, c) : t[i].n = m
  <2>1. \A m : (\E i \in Own(longer) : longer[i].n = m) <=>
                  (\E i \in Own(output) : output[i].n = m) \/ line.n = m
    BY <1>3, <1>5
  <2>2. \A m : (\E i \in Ahead(s, c) : s[i].n = m) <=>
                  line.n = m \/ (\E i \in Ahead(t, c) : t[i].n = m)
    BY <1>4, <1>6, <1>7
  <2>3. \A m \in Kept(c) : m < n =>
          \/ \E i \in Own(output) : output[i].n = m
          \/ \E i \in Ahead(s, c) : s[i].n = m
    BY DEF Whole
  <2>4. \A i \in Own(longer) : longer[i].n \in Kept(c) /\ longer[i].n < n
    BY <1>3, <1>4, <1>5 DEF Whole
  <2>5. \A i \in Ahead(t, c) : 1 <= t[i].n /\ t[i].n < n
    BY <1>6 DEF Whole
  <2> QED
    BY <2>1, <2>2, <2>3, <2>4, <2>5
<1>9. \A i \in Own(output) : output[i].n < line.n
  BY <1>4 DEF Whole
<1>10. ASSUME NEW i \in Own(longer), NEW j \in Own(longer), i < j PROVE longer[i].n < longer[j].n
  <2>1. i \in Nat /\ j \in Nat /\ q \in Nat
    BY <1>2 DEF Own
  <2>2. i # q
    <3>1. SUFFICES ASSUME i = q PROVE FALSE
      OBVIOUS
    <3>2. j = q \/ j < q
      BY <1>5
    <3> QED
      BY <1>10, <2>1, <3>1, <3>2
  <2>3. i \in Own(output) /\ longer[i] = output[i]
    BY <1>5, <2>2
  <2>4. CASE j = q
    BY <1>3, <1>9, <2>3, <2>4
  <2>5. CASE j # q
    <3>1. j \in Own(output) /\ longer[j] = output[j]
      BY <1>5, <2>5
    <3> QED
      BY <1>10, <2>3, <3>1 DEF Whole
  <2> QED
    BY <2>4, <2>5
<1>11. \A i, j \in Ahead(t, c) : i < j => t[i].n < t[j].n
  <2>1. \A i, j \in Ahead(t, c) : i < j => i + 1 < j + 1
    BY <1>2 DEF Ahead
  <2> QED
    BY <1>6, <2>1 DEF Whole
<1>12. ASSUME NEW i \in Own(longer), NEW j \in Ahead(t, c) PROVE longer[i].n < t[j].n
  <2>1. CASE i = q
    BY <1>3, <1>4, <1>6, <2>1 DEF Whole
  <2>2. CASE i # q
    BY <1>5, <1>6, <2>2 DEF Whole
  <2> QED
    BY <2>1, <2>2
<1>13. ASSUME NEW i \in DOMAIN t, t[i].kind \in Ends, t[i].cmd = c
       PROVE  n = Count(c) + 1 /\ \A j \in Ahead(t, c) : j < i
  <2>1. i + 1 \in DOMAIN s /\ s[i + 1] = t[i]
    BY <1>1
  <2>2. n = Count(c) + 1 /\ \A j \in Ahead(s, c) : j < i + 1
    BY <1>13, <2>1 DEF Whole
  <2>3. \A j \in Ahead(t, c) : j + 1 < i + 1 /\ j \in Nat /\ i \in Nat
    BY <1>2, <1>6, <2>2 DEF Ahead
  <2> QED
    BY <2>2, <2>3
<1>14. Whole(longer, t, c, n)
  BY <1>8, <1>10, <1>11, <1>12, <1>13 DEF Whole
<1> QED
  BY <1>14 DEF t

\* The next line is none that counts, and is dropped.
LEMMA WholeDrops ==
    ASSUME NEW output, NEW s \in Seq(Line), s # <<>>, NEW c, NEW n,
           1 \in Ahead(s, c), s[1].n \notin Kept(c), Whole(output, s, c, n)
    PROVE  Whole(output, Tail(s), c, n)
<1> DEFINE t == Tail(s)
<1>1. /\ t \in Seq(Line)
      /\ \A k \in DOMAIN t : k + 1 \in DOMAIN s /\ t[k] = s[k + 1] /\ 1 < k + 1
      /\ \A i \in DOMAIN s : i # 1 => i - 1 \in DOMAIN t /\ t[i - 1] = s[i]
  BY OneLess
<1>2. DOMAIN t \subseteq Nat
  BY <1>1, Places
<1> HIDE DEF t
<1>3. \A k \in Ahead(t, c) : k + 1 \in Ahead(s, c) /\ t[k] = s[k + 1]
  BY <1>1 DEF Ahead
<1>4. \A j \in Ahead(s, c) : j # 1 => j - 1 \in Ahead(t, c) /\ t[j - 1] = s[j]
  BY <1>1 DEF Ahead
<1>5. /\ \A i \in Ahead(t, c) : 1 <= t[i].n /\ t[i].n < n
      /\ \A m \in Kept(c) : m < n =>
            \/ \E i \in Own(output) : output[i].n = m
            \/ \E i \in Ahead(t, c) : t[i].n = m
  <2>1. \A m \in Kept(c) :
          (\E i \in Ahead(s, c) : s[i].n = m) => \E i \in Ahead(t, c) : t[i].n = m
    BY <1>4
  <2>2. \A i \in Ahead(t, c) : 1 <= t[i].n /\ t[i].n < n
    BY <1>3 DEF Whole
  <2> QED
    BY <2>1, <2>2 DEF Whole
<1>6. \A i, j \in Ahead(t, c) : i < j => t[i].n < t[j].n
  <2>1. \A i, j \in Ahead(t, c) : i < j => i + 1 < j + 1
    BY <1>2 DEF Ahead
  <2> QED
    BY <1>3, <2>1 DEF Whole
<1>7. \A i \in Own(output), j \in Ahead(t, c) : output[i].n < t[j].n
  BY <1>3 DEF Whole
<1>8. ASSUME NEW i \in DOMAIN t, t[i].kind \in Ends, t[i].cmd = c
      PROVE  n = Count(c) + 1 /\ \A j \in Ahead(t, c) : j < i
  <2>1. i + 1 \in DOMAIN s /\ s[i + 1] = t[i]
    BY <1>1
  <2>2. n = Count(c) + 1 /\ \A j \in Ahead(s, c) : j < i + 1
    BY <1>8, <2>1 DEF Whole
  <2>3. \A j \in Ahead(t, c) : j + 1 < i + 1 /\ j \in Nat /\ i \in Nat
    BY <1>2, <1>3, <2>2 DEF Ahead
  <2> QED
    BY <2>2, <2>3
<1>9. /\ \A i \in Own(output) : output[i].n \in Kept(c) /\ output[i].n < n
      /\ \A i, j \in Own(output) : i < j => output[i].n < output[j].n
  BY DEF Whole
<1>10. Whole(output, t, c, n)
  BY <1>5, <1>6, <1>7, <1>8, <1>9 DEF Whole
<1> QED
  BY <1>10 DEF t

\* The command prints a line.
LEMMA WholePrints ==
    ASSUME NEW output, NEW s \in Seq(Line), NEW t \in Seq(Line), NEW c \in Commands,
           NEW n \in Nat, 1 <= n, n <= Count(c), MoreBy(s, t, Of("out", c, n)),
           \A i \in Own(output) : output[i].n \in Nat,
           Whole(output, s, c, n)
    PROVE  Whole(output, t, c, n + 1)
<1>1. Of("out", c, n).kind = "out" /\ Of("out", c, n).cmd = c /\ Of("out", c, n).n = n
  BY DEF Of
<1>2. PICK q \in DOMAIN t :
          /\ q \notin DOMAIN s /\ DOMAIN t = DOMAIN s \cup {q}
          /\ t[q].kind = "out" /\ t[q].cmd = c /\ t[q].n = n
          /\ \A i \in DOMAIN s : t[i] = s[i] /\ i < q
  BY <1>1 DEF MoreBy, Extends
<1>3. Ahead(t, c) = Ahead(s, c) \cup {q} /\ \A i \in Ahead(s, c) : t[i] = s[i] /\ i < q
  BY <1>2 DEF Ahead
<1>4. DOMAIN t \subseteq Nat /\ \A i \in DOMAIN s : s[i].n \in Nat
  BY Places, LineCmds
<1>5. /\ \A i \in Own(output) : output[i].n < n
      /\ \A i \in Ahead(s, c) : s[i].n < n
  BY <1>4 DEF Whole, Ahead
<1>6. \A m \in Kept(c) : m < n + 1 => m < n \/ m = n
  BY DEF Kept
<1>7. /\ \A i \in Own(output) : output[i].n \in Kept(c) /\ output[i].n < n + 1
      /\ \A i \in Ahead(t, c) : 1 <= t[i].n /\ t[i].n < n + 1
      /\ \A m \in Kept(c) : m < n + 1 =>
            \/ \E i \in Own(output) : output[i].n = m
            \/ \E i \in Ahead(t, c) : t[i].n = m
  <2>1. \A m : (\E i \in Ahead(t, c) : t[i].n = m) <=> (\E i \in Ahead(s, c) : s[i].n = m) \/ m = n
    BY <1>2, <1>3
  <2>2. \A m \in Kept(c) : m < n =>
          \/ \E i \in Own(output) : output[i].n = m
          \/ \E i \in Ahead(s, c) : s[i].n = m
    BY DEF Whole
  <2>3. \A m \in Nat : m < n => m < n + 1
    OBVIOUS
  <2>4. \A i \in Own(output) : output[i].n \in Kept(c) /\ output[i].n < n + 1
    BY <1>5, <2>3 DEF Whole
  <2>5. \A i \in Ahead(t, c) : 1 <= t[i].n /\ t[i].n < n + 1
    <3>1. \A i \in Ahead(s, c) : s[i].n \in Nat /\ 1 <= s[i].n
      BY <1>4 DEF Whole, Ahead
    <3> QED
      BY <1>2, <1>3, <1>5, <2>3, <3>1
  <2> QED
    BY <1>6, <2>1, <2>2, <2>4, <2>5
<1>8. ASSUME NEW i \in Ahead(t, c), NEW j \in Ahead(t, c), i < j PROVE t[i].n < t[j].n
  <2>1. i \in Nat /\ j \in Nat /\ q \in Nat
    BY <1>4 DEF Ahead
  <2>2. i # q
    <3>1. SUFFICES ASSUME i = q PROVE FALSE
      OBVIOUS
    <3>2. j = q \/ j < q
      BY <1>3
    <3> QED
      BY <1>8, <2>1, <3>1, <3>2
  <2>3. i \in Ahead(s, c) /\ t[i] = s[i]
    BY <1>3, <2>2
  <2>4. CASE j = q
    BY <1>2, <1>5, <2>3, <2>4
  <2>5. CASE j # q
    <3>1. j \in Ahead(s, c) /\ t[j] = s[j]
      BY <1>3, <2>5
    <3> QED
      BY <1>8, <2>3, <3>1 DEF Whole
  <2> QED
    BY <2>4, <2>5
<1>9. \A i \in Own(output), j \in Ahead(t, c) : output[i].n < t[j].n
  BY <1>2, <1>3, <1>5 DEF Whole
<1>10. \A i \in DOMAIN t : ~(t[i].kind \in Ends /\ t[i].cmd = c)
  <2>1. n # Count(c) + 1
    <3>1. Count(c) \in Nat
      BY Numbers
    <3> QED
      BY <3>1
  <2>2. \A i \in DOMAIN s : ~(s[i].kind \in Ends /\ s[i].cmd = c)
    BY <2>1 DEF Whole
  <2> QED
    BY <1>2, <2>2 DEF Ends
<1>11. \A i, j \in Own(output) : i < j => output[i].n < output[j].n
  BY DEF Whole
<1> QED
  BY <1>7, <1>8, <1>9, <1>10, <1>11 DEF Whole

\* The command ends.
LEMMA WholeEnds ==
    ASSUME NEW output, NEW s \in Seq(Line), NEW t \in Seq(Line), NEW c, NEW n,
           n = Count(c) + 1, Extends(s, t),
           \A k \in DOMAIN t \ DOMAIN s : t[k].kind # "out",
           Whole(output, s, c, n)
    PROVE  Whole(output, t, c, n)
<1>1. Ahead(t, c) = Ahead(s, c) /\ \A i \in Ahead(s, c) : t[i] = s[i] /\ i \in DOMAIN s
  BY DEF Ahead, Extends
<1>2. /\ \A i \in Own(output) : output[i].n \in Kept(c) /\ output[i].n < n
      /\ \A i \in Ahead(t, c) : 1 <= t[i].n /\ t[i].n < n
      /\ \A m \in Kept(c) : m < n =>
            \/ \E i \in Own(output) : output[i].n = m
            \/ \E i \in Ahead(t, c) : t[i].n = m
  BY <1>1 DEF Whole
<1>3. \A i, j \in Ahead(t, c) : i < j => t[i].n < t[j].n
  BY <1>1 DEF Whole
<1>4. \A i \in Own(output), j \in Ahead(t, c) : output[i].n < t[j].n
  BY <1>1 DEF Whole
<1>5. ASSUME NEW i \in DOMAIN t, t[i].kind \in Ends, t[i].cmd = c, NEW j \in Ahead(t, c)
      PROVE  j < i
  <2>1. CASE i \in DOMAIN s
    BY <1>1, <1>5, <2>1 DEF Whole, Extends
  <2>2. CASE i \notin DOMAIN s
    BY <1>1, <1>5, <2>2 DEF Extends
  <2> QED
    BY <2>1, <2>2
<1>6. \A i, j \in Own(output) : i < j => output[i].n < output[j].n
  BY DEF Whole
<1> QED
  BY <1>2, <1>3, <1>4, <1>5, <1>6 DEF Whole

\* What is added comes after the begin.
LEMMA BegunMore ==
    ASSUME NEW s, NEW t, NEW c, Extends(s, t), Begun(s, c)
    PROVE  Begun(t, c)
BY DEF Begun, Extends

-----------------------------------------------------------------------------
(* No line of the command is lost *)

\* The steps of a call that waits for the end of its command.
LEMMA WaitKinds ==
    ASSUME ShellTypeInv, [ShellNext]_shellVars, host'.pc = "collect"
    PROVE  \/ /\ host' = host
              /\ \/ UNCHANGED shellVars \/ DeviceIdles \/ Break
                 \/ \E c \in Commands : Starts(c)
                 \/ CommandPrints \/ CommandEnds
           \/ LoginSeesPrompt
           \/ CollectReads
<1>1. ASSUME Controller PROVE LoginSeesPrompt \/ CollectReads
  <2>1. SUFFICES ASSUME ~LoginSeesPrompt, ~CollectReads PROVE host'.pc # "collect"
    OBVIOUS
  <2>2. ASSUME host' = host, host.pc = "login" PROVE host'.pc # "collect"
    BY <2>2
  <2>3. ASSUME NEW result, Finished(result) PROVE host'.pc # "collect"
    BY <2>3 DEF Finished
  <2>4. host \in [pc : HostPcs, cmd : Commands, pokes : 0..MaxPokes, capture : BOOLEAN,
                  output : Seq(Line), secret : BOOLEAN]
    BY Types2 DEF HostOK
  <2>5. CASE BeginLogin
    <3>1. host' = [host EXCEPT !.pc = "login", !.pokes = 0, !.capture = FALSE, !.output = <<>>]
      BY <2>5 DEF BeginLogin
    <3>2. host'.pc = "login"
      BY <2>4, <3>1
    <3> QED
      BY <3>2
  <2>6. CASE LoginIsAsked \/ LoginSkips
    BY <2>2, <2>6 DEF LoginIsAsked, LoginSkips
  <2>7. CASE LoginIsAskedPassword
    <3>1. host.pc = "login" /\ (host' = host \/ Finish("raised", NoCode, <<>>))
      BY <2>7 DEF LoginIsAskedPassword
    <3> QED
      BY <2>2, <2>3, <3>1, Returns
  <2>8. CASE LoginPokes
    <3>1. host.pc = "login" /\ host' = [host EXCEPT !.pokes = @ + 1]
      BY <2>8 DEF LoginPokes
    <3>2. host'.pc = "login"
      BY <2>4, <3>1
    <3> QED
      BY <3>2
  <2>9. CASE LoginTimesOut
    BY <2>3, <2>9, Returns DEF LoginTimesOut
  <2>10. CASE CollectEnds \/ CollectTimesOut
    BY <2>3, <2>10, Returns
  <2> QED
    BY <1>1, <2>1, <2>5, <2>6, <2>7, <2>8, <2>9, <2>10 DEF Controller
<1>2. CASE UNCHANGED shellVars \/ DeviceIdles \/ Break
  BY <1>2, QuietKinds
<1>3. CASE \E c \in Commands : Starts(c)
  BY <1>3, StartsMoves
<1>4. CASE CommandPrints \/ CommandEnds
  BY <1>4, PrintsMoves, EndsMoves
<1>5. CASE LoginSeesPrompt \/ Controller
  BY <1>1, <1>5
<1> QED
  BY <1>2, <1>3, <1>4, <1>5, StepKinds

\* A step that adds nothing to what is to come of the command.
LEMMA WholeQuiet ==
    ASSUME ShellTypeInv, UNCHANGED shellVars \/ DeviceIdles \/ Break,
           NEW c \in Commands, c \notin spoilt',
           NEW n, NEW output, Whole(output, rx, c, n)
    PROVE  Whole(output, rx', c, n) /\ (Begun(rx, c) => Begun(rx', c))
<1>1. ASSUME NEW kinds PROVE Carried(rx, rx', c, kinds)
  <2>1. rx \in Seq(Line) /\ c # 0
    BY Types1, Numbers
  <2>2. CASE rx' = rx
    <3>1. Extends(rx, rx') /\ DOMAIN rx' \ DOMAIN rx = {}
      BY <2>2 DEF Extends
    <3> QED
      BY <2>1, <2>2, <3>1, CarriedMore
  <2>3. CASE PlainMore
    <3>1. \A k \in DOMAIN rx' \ DOMAIN rx : ~(rx'[k].cmd = c /\ rx'[k].kind \in kinds)
      BY <2>1, <2>3 DEF PlainMore
    <3> QED
      BY <2>1, <2>3, <3>1, CarriedMore DEF PlainMore
  <2>4. CASE Break
    BY <2>4, CarriedBreak
  <2> QED
    BY <2>2, <2>3, <2>4 DEF DeviceIdles, shellVars
<1>2. rx \in Seq(Line) /\ rx' \in Seq(Line)
  BY Types1, QuietKinds DEF Quiet, RxQuiet
<1>3. Carried(rx, rx', c, Content) /\ Carried(rx, rx', c, {"begin"} \cup Content)
  BY <1>1
<1> QED
  BY <1>2, <1>3, WholeCarried, BegunCarried

\* The shell starts the command.
LEMMA WholeStarts ==
    ASSUME ShellTypeInv, CallOrder, CaptureInv, host.pc = "collect", Starts(host.cmd)
    PROVE  Whole(host.output, rx', host.cmd, 1) /\ Begun(rx', host.cmd)
<1> DEFINE h == host.cmd
<1>1. h \in Commands /\ h \in Nat
  BY Types2, CmdNumbers
<1>2. console.cmd < h /\ console.cmd \in Nat
  BY <1>1, TypedOrderStarts, CmdNumbers DEF CallOrder
<1>3. \A i \in DOMAIN rx : rx[i].cmd # h
  <2>1. \A i \in DOMAIN rx : rx[i].cmd \in Nat /\ rx[i].cmd <= console.cmd
    BY Types1, LineCmds DEF CallOrder, RxOrder
  <2> QED
    BY <1>1, <1>2, <2>1
<1>4. host.output = <<>>
  BY <1>1, <1>2 DEF CaptureInv
<1>5. /\ Extends(rx, rx')
      /\ \A k \in DOMAIN rx' \ DOMAIN rx : rx'[k] \in {Of("echo", h, 0), Of("begin", h, 0)}
      /\ \E k \in DOMAIN rx' : rx'[k] = Of("begin", h, 0)
  BY <1>1, StartsMoves
<1>6. /\ Of("echo", h, 0).kind \notin {"out"} \cup Ends
      /\ Of("begin", h, 0).kind \notin {"out"} \cup Ends
      /\ Of("begin", h, 0).kind = "begin" /\ Of("begin", h, 0).cmd = h
  BY DEF Of, Ends
<1>7. \A k \in DOMAIN rx' : ~(rx'[k].cmd = h /\ rx'[k].kind \in {"out"} \cup Ends)
  BY <1>3, <1>5, <1>6 DEF Extends
<1>8. Ahead(rx', h) = {} /\ Own(host.output) = {}
  BY <1>4, <1>7 DEF Ahead, Own
<1>9. Begun(rx', h)
  BY <1>5, <1>6, <1>7 DEF Begun
<1>10. \A m \in Kept(h) : ~(m < 1)
  BY DEF Kept
<1>11. Whole(host.output, rx', h, 1)
  BY <1>7, <1>8, <1>10 DEF Whole
<1> QED
  BY <1>9, <1>11

\* The call reads a line.
LEMMA WholeReads ==
    ASSUME ShellTypeInv, CaptureInv, CollectReads, NEW n \in Nat, n <= Count(host.cmd) + 1,
           Whole(host.output, rx, host.cmd, n), ~host.capture => Begun(rx, host.cmd)
    PROVE  /\ Whole(host'.output, rx', host.cmd, n)
           /\ ~host'.capture => Begun(rx', host.cmd)
<1> DEFINE h == host.cmd
<1>1. /\ host.pc = "collect" /\ rx # <<>> /\ ~IsEnd(Received) /\ rx' = Tail(rx)
      /\ host'.capture = (host.capture \/ IsBegin(Received))
      /\ \/ /\ host'.output = host.output
            /\ ~host.capture \/ IsBegin(Received) \/ Drops(Received)
         \/ /\ host.capture /\ ~IsBegin(Received) /\ Keeps(Received)
            /\ MoreBy(host.output, host'.output, Received)
  BY CollectMoves
<1>2. /\ rx \in Seq(Line) /\ 1 \in DOMAIN rx /\ Received = rx[1]
      /\ \A i \in DOMAIN rx : i # 1 => 1 < i
      /\ Tail(rx) \in Seq(Line) /\ DOMAIN rx \subseteq Nat
  BY <1>1, Types1, OneLess, Places DEF Received
<1>3. host.output \in Seq(Line) /\ host'.output \in Seq(Line) /\ host.capture \in BOOLEAN
  BY Types2, CollectMoves DEF HostOK
<1>4. CASE Received.kind = "out" /\ Received.cmd = h
  <2>1. host.capture
    <3>1. SUFFICES ASSUME ~host.capture PROVE FALSE
      OBVIOUS
    <3>2. PICK p \in DOMAIN rx : p < 1
      BY <1>2, <1>4, <3>1 DEF Begun
    <3>3. p \in Nat /\ ~(p = 1) /\ ~(1 < p)
      BY <1>2, <3>2
    <3> QED
      BY <1>2, <3>3
  <2>2. \A signs \in Held(Received) : signs = Lines[h][Received.n]
    BY <1>4 DEF Held
  <2>3. 1 \in Ahead(rx, h)
    BY <1>2, <1>4 DEF Ahead
  <2>4. CASE host'.output = host.output /\ Drops(Received)
    <3>1. rx[1].n \notin Kept(h)
      BY <1>2, <2>2, <2>4 DEF Drops, Kept
    <3>2. Whole(host'.output, Tail(rx), h, n)
      BY <1>1, <1>2, <2>3, <2>4, <3>1, WholeDrops
    <3> QED
      BY <1>1, <2>1, <3>2
  <2>5. CASE Keeps(Received) /\ MoreBy(host.output, host'.output, Received)
    <3>1. Received.n \in 1..Count(h)
      <4>1. 1 <= Received.n /\ Received.n < n
        BY <1>2, <2>3 DEF Whole
      <4>2. Received.n \in Nat /\ Count(h) \in Nat
        BY <1>2, LineCmds, Numbers, Types2
      <4> QED
        BY <4>1, <4>2
    <3>2. rx[1].n \in Kept(h)
      BY <1>2, <2>2, <2>5, <3>1 DEF Keeps, Kept
    <3>3. Whole(host'.output, Tail(rx), h, n)
      BY <1>1, <1>2, <1>3, <1>4, <2>5, <3>2, WholeTakes
    <3> QED
      BY <1>1, <2>1, <3>3
  <2> QED
    BY <1>1, <1>4, <2>1, <2>4, <2>5 DEF IsBegin
<1>5. CASE ~(Received.kind = "out" /\ Received.cmd = h)
  <2>1. ~(rx[1].cmd = h /\ rx[1].kind \in Content)
    BY <1>1, <1>2, <1>5 DEF Content, IsEnd, Ends
  <2>2. Whole(host.output, Tail(rx), h, n)
    BY <1>1, <1>2, <2>1, CarriedTail, WholeCarried
  <2>3. Own(host'.output) = Own(host.output)
        /\ \A i \in Own(host.output) : host'.output[i] = host.output[i]
    <3>1. CASE host'.output = host.output
      BY <3>1
    <3>2. CASE host.capture /\ MoreBy(host.output, host'.output, Received)
      <4>1. Received.cmd \in {0, h} /\ (Received.kind = "out" => Received.cmd # 0)
        BY <1>1, <1>2, <3>2, Types1 DEF CaptureInv, MarkedLines, Marks
      <4>2. Received.kind # "out"
        BY <1>5, <4>1
      <4> QED
        BY <3>2, <4>2, OwnStays
    <3> QED
      BY <1>1, <3>1, <3>2
  <2>4. Whole(host'.output, Tail(rx), h, n)
    BY <2>2, <2>3, WholeOwn
  <2>5. ASSUME ~host'.capture PROVE Begun(Tail(rx), h)
    <3>1. ~host.capture /\ ~IsBegin(Received)
      BY <1>1, <2>5
    <3>2. ~(rx[1].cmd = h /\ rx[1].kind \in {"begin"} \cup Content)
      BY <1>2, <2>1, <3>1 DEF IsBegin
    <3> QED
      BY <1>1, <1>2, <3>1, <3>2, CarriedTail, BegunCarried
  <2> QED
    BY <1>1, <2>4, <2>5
<1> QED
  BY <1>4, <1>5

\* Each step of a call that waits keeps what the command printed.
LEMMA WaitStep ==
    ASSUME ShellTypeInv, CallOrder, CaptureInv, WholeInv, [ShellNext]_shellVars,
           host'.pc = "collect", console'.cmd = host'.cmd, host'.cmd \notin spoilt'
    PROVE  /\ Whole(host'.output, rx', host'.cmd, console'.next)
           /\ ~host'.capture => Begun(rx', host'.cmd)
<1> DEFINE h == host.cmd
           Goal == /\ Whole(host'.output, rx', host'.cmd, console'.next)
                   /\ ~host'.capture => Begun(rx', host'.cmd)
<1>1. h \in Commands
  BY Types2
<1>2. ASSUME host.pc = "collect", host'.cmd = h, console'.cmd = console.cmd, spoilt \subseteq spoilt'
      PROVE  /\ console.cmd = h /\ Whole(host.output, rx, h, console.next)
             /\ ~host.capture => Begun(rx, h)
             /\ 1 <= console.next /\ console.next <= Count(h) + 1
  <2>1. console.cmd = h /\ h \notin spoilt /\ h # 0
    BY <1>1, <1>2, Numbers
  <2> QED
    BY <1>2, <2>1 DEF WholeInv
<1>3. CASE host' = host /\ (UNCHANGED shellVars \/ DeviceIdles \/ Break)
  <2>1. console'.cmd = console.cmd /\ console'.next = console.next /\ spoilt \subseteq spoilt'
    BY <1>3, QuietKinds DEF Quiet, ConsoleQuiet
  <2>2. /\ Whole(host.output, rx, h, console.next)
        /\ ~host.capture => Begun(rx, h)
    BY <1>2, <1>3, <2>1
  <2>3. /\ Whole(host.output, rx', h, console.next)
        /\ Begun(rx, h) => Begun(rx', h)
    BY <1>1, <1>3, <2>2, WholeQuiet
  <2> QED
    BY <1>3, <2>1, <2>2, <2>3
<1>4. ASSUME host' = host, NEW c \in Commands, Starts(c) PROVE Goal
  <2>1. c = h /\ console'.next = 1
    BY <1>4, StartsMoves
  <2>2. Whole(host.output, rx', h, 1) /\ Begun(rx', h)
    BY <1>4, <2>1, WholeStarts
  <2> QED
    BY <1>4, <2>1, <2>2
<1>5. CASE host' = host /\ CommandPrints
  <2>1. /\ console'.cmd = console.cmd /\ spoilt' = spoilt /\ console'.next = console.next + 1
        /\ console.next <= Count(console.cmd)
        /\ rx' \in Seq(Line) /\ MoreBy(rx, rx', Of("out", console.cmd, console.next))
    BY <1>5, PrintsMoves
  <2>2. /\ console.cmd = h /\ Whole(host.output, rx, h, console.next)
        /\ ~host.capture => Begun(rx, h)
        /\ 1 <= console.next
    BY <1>2, <1>5, <2>1
  <2>3. /\ rx \in Seq(Line) /\ console.next \in Nat
        /\ \A i \in Own(host.output) : host.output[i].n \in Nat
    BY Types1, Types2, LineCmds DEF Own
  <2>4. Whole(host.output, rx', h, console.next + 1)
    BY <1>1, <2>1, <2>2, <2>3, WholePrints
  <2>5. Begun(rx, h) => Begun(rx', h)
    BY <2>1, BegunMore DEF MoreBy
  <2> QED
    BY <1>5, <2>1, <2>2, <2>4, <2>5
<1>6. CASE host' = host /\ CommandEnds
  <2>1. /\ console'.cmd = console.cmd /\ spoilt' = spoilt /\ console'.next = console.next
        /\ console.next > Count(console.cmd)
        /\ Extends(rx, rx')
        /\ \A k \in DOMAIN rx' \ DOMAIN rx : rx'[k].kind # "out"
    <3>1. Of("end", console.cmd, Codes[console.cmd]).kind # "out" /\ Plain("prompt").kind # "out"
      BY DEF Of, Plain
    <3> QED
      BY <1>6, <3>1, EndsMoves
  <2>2. /\ console.cmd = h /\ Whole(host.output, rx, h, console.next)
        /\ ~host.capture => Begun(rx, h)
        /\ console.next <= Count(h) + 1
    BY <1>2, <1>6, <2>1
  <2>3. rx \in Seq(Line) /\ rx' \in Seq(Line) /\ console.next = Count(h) + 1
    <3>1. Count(h) \in Nat /\ console.next \in Nat
      BY <1>1, Numbers, Types1
    <3> QED
      BY <1>6, <2>1, <2>2, <3>1, Types1, EndsMoves
  <2>4. Whole(host.output, rx', h, console.next)
    BY <2>1, <2>2, <2>3, WholeEnds
  <2>5. Begun(rx, h) => Begun(rx', h)
    BY <2>1, BegunMore
  <2> QED
    BY <1>6, <2>1, <2>2, <2>4, <2>5
<1>7. CASE LoginSeesPrompt
  <2>1. host.pc = "login" /\ host'.cmd = h /\ console.cmd = h
    BY <1>7, PromptMoves
  <2>2. SentBy(host, h) /\ h \in Nat
    BY <1>1, <2>1, Numbers, CmdNumbers DEF CallOrder
  <2> QED
    BY <2>1, <2>2 DEF SentBy
<1>8. CASE CollectReads
  <2>1. /\ host.pc = "collect" /\ host'.cmd = h /\ console' = console /\ spoilt' = spoilt
    BY <1>8, CollectMoves
  <2>2. /\ Whole(host.output, rx, h, console.next)
        /\ ~host.capture => Begun(rx, h)
        /\ console.next \in Nat /\ console.next <= Count(h) + 1
    BY <1>2, <2>1, Types1
  <2>3. /\ Whole(host'.output, rx', h, console.next)
        /\ ~host'.capture => Begun(rx', h)
    BY <1>8, <2>2, WholeReads
  <2> QED
    BY <2>1, <2>3
<1> QED
  BY <1>3, <1>4, <1>5, <1>6, <1>7, <1>8, WaitKinds

\* How far the run of a command gets.
LEMMA NextStep ==
    ASSUME ShellTypeInv, [ShellNext]_shellVars,
           console.cmd # 0 => 1 <= console.next /\ console.next <= Count(console.cmd) + 1,
           console'.cmd # 0
    PROVE  1 <= console'.next /\ console'.next <= Count(console'.cmd) + 1
<1>1. CASE UNCHANGED shellVars \/ DeviceIdles \/ Break
  BY <1>1, QuietKinds DEF Quiet, ConsoleQuiet
<1>2. CASE Controller \/ LoginSeesPrompt
  BY <1>2, ControllerQuiet, PromptMoves
<1>3. ASSUME NEW c \in Commands, Starts(c)
      PROVE  1 <= console'.next /\ console'.next <= Count(console'.cmd) + 1
  <2>1. console'.cmd = c /\ console'.next = 1 /\ Count(c) \in Nat
    BY <1>3, StartsMoves, Numbers
  <2>2. \A m \in Nat : 1 <= 1 /\ 1 <= m + 1
    OBVIOUS
  <2> QED
    BY <2>1, <2>2
<1>4. CASE CommandPrints
  <2>1. /\ console'.cmd = console.cmd /\ console'.next = console.next + 1
        /\ console.next <= Count(console.cmd) /\ console.next \in Nat
        /\ Count(console.cmd) \in Nat
    BY <1>4, PrintsMoves, Types1, Numbers
  <2>2. \A m, n \in Nat : n <= m => 1 <= n + 1 /\ n + 1 <= m + 1
    OBVIOUS
  <2> QED
    BY <2>1, <2>2
<1>5. CASE CommandEnds
  BY <1>5, EndsMoves
<1> QED
  BY <1>1, <1>2, <1>3, <1>4, <1>5, StepKinds

\* A call that sees the end has all of the output.
LEMMA EndHasAll ==
    ASSUME ShellTypeInv, CallOrder, CaptureInv, WholeInv, CollectEnds, host.cmd \notin spoilt
    PROVE  LET c == host.cmd
               output == Extracted(c, host.output)
           IN  /\ {output[i] : i \in Own(output)} = {Of("out", c, m) : m \in Kept(c)}
               /\ \A i, j \in Own(output) : i < j => output[i].n < output[j].n
<1> DEFINE c == host.cmd
           some == Extracted(c, host.output)
           out == host.output
<1>1. /\ host.pc = "collect" /\ rx # <<>> /\ Received.kind \in Ends /\ Received.cmd = c
  BY DEF CollectEnds, IsEnd, Ends
<1>2. /\ rx \in Seq(Line) /\ 1 \in DOMAIN rx /\ Received = rx[1]
      /\ \A i \in DOMAIN rx : i # 1 => 1 < i
      /\ DOMAIN rx \subseteq Nat
  BY <1>1, Types1, OneLess, Places DEF Received
<1>3. c \in Commands /\ c \in Nat /\ c # 0 /\ console.cmd \in Nat /\ Count(c) \in Nat
  BY Types2, CmdNumbers, Numbers
<1>4. console.cmd = c
  <2>1. c <= console.cmd /\ (console.cmd # 0 => SentBy(host, console.cmd))
    BY <1>1, <1>2 DEF CallOrder, RxOrder
  <2> QED
    BY <1>3, <2>1 DEF SentBy
<1>5. Whole(out, rx, c, console.next)
  BY <1>1, <1>4 DEF WholeInv
<1>6. console.next = Count(c) + 1 /\ Ahead(rx, c) = {}
  <2>1. console.next = Count(c) + 1 /\ \A j \in Ahead(rx, c) : j < 1
    BY <1>1, <1>2, <1>5 DEF Whole
  <2>2. \A j \in Ahead(rx, c) : j \in DOMAIN rx
    BY DEF Ahead
  <2>3. \A j \in DOMAIN rx : ~(j < 1)
    BY <1>2
  <2> QED
    BY <2>1, <2>2, <2>3
<1>7. out \in Seq(Line) /\ \A i \in Own(out) : out[i] \in Line /\ out[i].kind = "out" /\ out[i].cmd = c
  <2>1. out \in Seq(Line) /\ \A i \in Own(out) : out[i].cmd = c /\ out[i].kind = "out"
    BY <1>1, Types2 DEF CaptureInv, Own
  <2> QED
    BY <2>1, LineCmds DEF Own
<1>8. \A i \in Own(out) : out[i].n \in Nat /\ out[i] = Of("out", c, out[i].n)
  BY <1>7 DEF Line, Of
<1>9. Own(some) = Own(out) /\ \A i \in Own(some) : some[i] = out[i]
  <2>1. Own(some) = Own(out) /\ \A i \in DOMAIN some : some[i] = out[i]
    BY <1>7, Extraction
  <2> QED
    BY <2>1 DEF Own
<1> HIDE DEF some, out
<1>10. /\ \A i \in Own(out) : out[i].n \in Kept(c)
       /\ \A m \in Kept(c) : m < Count(c) + 1 => \E i \in Own(out) : out[i].n = m
  BY <1>5, <1>6 DEF Whole
<1>11. \A m \in Kept(c) : m < Count(c) + 1
  BY <1>3 DEF Kept
<1>12. {some[i] : i \in Own(some)} = {Of("out", c, m) : m \in Kept(c)}
  <2>1. ASSUME NEW i \in Own(some) PROVE some[i] \in {Of("out", c, m) : m \in Kept(c)}
    <3>1. out[i].n \in Kept(c) /\ some[i] = Of("out", c, out[i].n)
      BY <1>8, <1>9, <1>10, <2>1
    <3> QED
      BY <3>1
  <2>2. ASSUME NEW m \in Kept(c) PROVE Of("out", c, m) \in {some[i] : i \in Own(some)}
    <3>1. PICK i \in Own(out) : out[i].n = m
      BY <1>10, <1>11, <2>2
    <3>2. i \in Own(some) /\ some[i] = Of("out", c, m)
      BY <1>8, <1>9, <3>1
    <3> QED
      BY <3>2
  <2> QED
    BY <2>1, <2>2
<1>13. \A i, j \in Own(some) : i < j => some[i].n < some[j].n
  BY <1>5, <1>9 DEF Whole
<1>14. /\ {some[i] : i \in Own(some)} = {Of("out", c, m) : m \in Kept(c)}
       /\ \A i, j \in Own(some) : i < j => some[i].n < some[j].n
  BY <1>12, <1>13
<1> QED
  BY <1>14 DEF some, out

\* Each step keeps that nothing is lost.
LEMMA WholeStep ==
    ShellTypeInv /\ CallOrder /\ CaptureInv /\ WholeInv /\ [ShellNext]_shellVars => WholeInv'
<1> SUFFICES ASSUME ShellTypeInv, CallOrder, CaptureInv, WholeInv, [ShellNext]_shellVars
             PROVE  WholeInv'
  OBVIOUS
<1>1. console'.cmd # 0 => 1 <= console'.next /\ console'.next <= Count(console'.cmd) + 1
  BY NextStep DEF WholeInv
<1>2. host'.pc = "collect" /\ console'.cmd = host'.cmd /\ host'.cmd \notin spoilt' =>
          /\ Whole(host'.output, rx', host'.cmd, console'.next)
          /\ ~host'.capture => Begun(rx', host'.cmd)
  BY WaitStep
<1>3. spoilt \subseteq spoilt'
  <2>1. CASE UNCHANGED shellVars \/ DeviceIdles \/ Break
    BY <2>1, QuietKinds DEF Quiet
  <2>2. CASE (\E c \in Commands : Starts(c)) \/ CommandPrints \/ CommandEnds
    BY <2>2, StartsMoves, PrintsMoves, EndsMoves
  <2>3. CASE Controller \/ LoginSeesPrompt
    BY <2>3, ControllerQuiet, PromptMoves
  <2> QED
    BY <2>1, <2>2, <2>3, StepKinds
<1>4. ASSUME NEW c \in Commands, results'[c].how = "ended", c \notin spoilt'
      PROVE  /\ {results'[c].output[i] : i \in Own(results'[c].output)} =
                {Of("out", c, m) : m \in Kept(c)}
             /\ \A i, j \in Own(results'[c].output) :
                   i < j => results'[c].output[i].n < results'[c].output[j].n
  <2>1. CASE results'[c] = results[c]
    <3>1. results[c].how = "ended" /\ c \notin spoilt
      BY <1>3, <1>4, <2>1
    <3> QED
      BY <2>1, <3>1 DEF WholeInv, OutputComplete
  <2>2. CASE results'[c] # results[c]
    <3>1. /\ CollectEnds /\ c = host.cmd
          /\ results'[c].output = Extracted(host.cmd, host.output)
      BY <1>4, <2>2, ResultMoves DEF Finished
    <3> QED
      BY <1>3, <1>4, <3>1, EndHasAll
  <2> QED
    BY <2>1, <2>2
<1>5. OutputComplete'
  BY <1>4 DEF OutputComplete
<1> QED
  BY <1>1, <1>2, <1>5 DEF WholeInv

\* Nothing is lost at first.
LEMMA WholeInit == ShellInit => WholeInv
<1> SUFFICES ASSUME ShellInit PROVE WholeInv
  OBVIOUS
<1>1. /\ results = [c \in Commands |-> [how |-> "none", exit |-> NoCode, output |-> <<>>]]
      /\ host.pc = "idle" /\ console.cmd = 0
  BY DEF ShellInit
<1>2. OutputComplete
  BY <1>1 DEF OutputComplete
<1> QED
  BY <1>1, <1>2 DEF WholeInv

\* A call that saw the end of its command has every line of it that counts as output, in
\* order, unless one of its lines was broken on the way; a blank line, the command itself
\* and a line that holds a shell prompt it never has (_execute_with_port,
\* _should_collect_output_line, _extract_structured_output_lines).
THEOREM OutputsAreComplete == ShellSpec => []OutputComplete
<1>1. ShellTypeInv /\ EndInv /\ CaptureInv /\ WholeInv /\ [ShellNext]_shellVars => WholeInv'
  BY WholeStep DEF EndInv
<1>2. WholeInv => OutputComplete
  BY DEF WholeInv
<1> QED
  BY <1>1, <1>2, WholeInit, CaptureInvariant, PTL DEF ShellSpec
============================================================================
