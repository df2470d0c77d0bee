------------------------------ MODULE TraceLog ------------------------------
(***************************************************************************)
(* The shared trace of a serial port: trace.jsonl, which the holder of the *)
(* port lock rotates to trace.<stamp>.jsonl (serial/runtime.py), the       *)
(* polling follower of watch-serial (cli/watch.py), and a case that is cut *)
(* out of the trace between case-begin and case-end (serial/cases.py).     *)
(* They share the directory and no lock.  A file is the sequence of its    *)
(* lines, a line its number in the order of the writes, an offset a number *)
(* of lines.  The rotated files are a set: what sorts them is their stamp. *)
(***************************************************************************)
EXTENDS Naturals, Sequences, FiniteSets

CONSTANTS Threads,        \* threads of the port lock's holder that append
          Case,           \* the process of the case commands
          Follower,       \* the process that follows the trace
          Files,          \* identities of files; a removed one's is used again
          NoFile,         \* no file
          Windows,        \* TRUE: an open file is neither renamed nor removed
          MaxSize,        \* AUTO_DBG_SERIAL_TRACE_MAX_BYTES
          Keep,           \* AUTO_DBG_SERIAL_TRACE_KEEP
          MaxLines        \* bound: lines written

ASSUME ProcsDiffer   == Case # Follower /\ Case \notin Threads /\ Follower \notin Threads
ASSUME NoFileIsNone  == NoFile \notin Files
ASSUME WindowsIsFlag == Windows \in BOOLEAN
ASSUME Limits        == MaxSize \in Nat \ {0} /\ Keep \in Nat \ {0} /\ MaxLines \in Nat

Procs == Threads \cup {Case, Follower}

VARIABLES
    lines,      \* what is in each file
    current,    \* the file at trace.jsonl, NoFile: between rename and open
    rotated,    \* the rotated files: [file, stamp], the newest has the highest stamp
    count,      \* lines written so far
    stamp,      \* the number of the last rotation, in place of the clock
    refused,    \* a rename was refused less than two seconds ago
    pc,         \* where each process is
    handle,     \* the file each process has open
    meta,       \* the metadata of the case
    segments,   \* the files that end_serial_case has yet to read, by stamp
    slice,      \* the lines it has read
    cursor,     \* where the follower continues: [file, offset]
    size,       \* the size of its file when the follower opened it
    got,        \* the lines the follower printed
    hist        \* history, for the properties

traceVars == <<lines, current, rotated, count, stamp, refused, pc, handle, meta, segments,
          slice, cursor, size, got, hist>>
log      == <<lines, current, rotated, count, stamp, refused>>
case     == <<meta, segments, slice>>
follower == <<cursor, size, got>>

PCs == {"idle", "prune", "open", "write",
        "active", "endopen", "endwrite", "endstat", "find", "list", "cut", "read", "ended",
        "old", "new"}
FilesOrNoFile == Files \cup {NoFile}
Positions   == [file : FilesOrNoFile, offset : 0..MaxLines]
Segments    == [file : FilesOrNoFile, stamp : 0..MaxLines+1]
Lines       == Seq(1..MaxLines)

TraceTypeOK ==
    /\ lines \in [Files -> Lines]
    /\ current \in FilesOrNoFile
    /\ rotated \subseteq [file : Files, stamp : 0..MaxLines]
    /\ count \in 0..MaxLines /\ stamp \in 0..MaxLines
    /\ refused \in BOOLEAN
    /\ pc \in [Procs -> PCs]
    /\ handle \in [Procs -> FilesOrNoFile]
    /\ meta \in [start : Positions, end : Positions, since : 0..MaxLines+1]
    /\ segments \subseteq Segments
    /\ slice \in Lines
    /\ cursor \in Positions /\ size \in 0..MaxLines /\ got \in Lines
    /\ hist \in [began : 0..MaxLines, marked : 0..MaxLines, disturbed : BOOLEAN,
                 pruned : BOOLEAN, unseen : BOOLEAN, late : BOOLEAN, polled : 0..MaxLines]

Nowhere == [file |-> NoFile, offset |-> 0]

\* watch-serial has taken its cursor, no case has begun.
TraceInit ==
    /\ current \in Files
    /\ lines = [f \in Files |-> <<>>]
    /\ rotated = {} /\ count = 0 /\ stamp = 0 /\ refused = FALSE
    /\ pc = [p \in Procs |-> "idle"]
    /\ handle = [p \in Procs |-> NoFile]
    /\ meta = [start |-> Nowhere, end |-> Nowhere, since |-> 0]
    /\ segments = {} /\ slice = <<>>
    /\ cursor = [file |-> current, offset |-> 0] /\ size = 0 /\ got = <<>>
    /\ hist = [began |-> 0, marked |-> 0, disturbed |-> FALSE, pruned |-> FALSE,
               unseen |-> FALSE, late |-> FALSE, polled |-> 0]

-----------------------------------------------------------------------------
Rotated   == {r.file : r \in rotated}
IsOpen(f) == \E p \in Procs : handle[p] = f

\* A file that is at no path of the directory and that nobody has open.
FreeFiles == {f \in Files : f # current /\ f \notin Rotated /\ ~IsOpen(f)}

\* Mutant of StatCurrent: the two results are swapped.
StatSwapped == [file |-> IF current = NoFile THEN 0 ELSE Len(lines[current]), offset |-> current]

\* serial_trace_stat of trace.jsonl.
StatCurrent == [file |-> current, offset |-> IF current = NoFile THEN 0 ELSE Len(lines[current])]

Goto(p, from, to) == pc[p] = from /\ pc' = [pc EXCEPT ![p] = to]

CaseRuns == pc[Case] \notin {"idle", "active", "ended"}

\* What the case needs: the files with lines since it began.
Needed == IF pc[Case] = "idle" THEN {}
          ELSE {f \in Files : \E i \in DOMAIN lines[f] : lines[f][i] > hist.began}

-----------------------------------------------------------------------------
(* _append_trace_entry in the process that rotates *)

TooLong == current # NoFile /\ Len(lines[current]) >= MaxSize

Renamed(t) ==
    /\ Goto(t, "idle", "prune")
    /\ count < MaxLines /\ TooLong /\ ~refused
    /\ Windows => ~IsOpen(current)
    /\ stamp' = stamp + 1 /\ current' = NoFile
    /\ hist' = [hist EXCEPT !.disturbed = @ \/ CaseRuns,
                            !.late = @ \/ hist.unseen, !.unseen = TRUE]
    /\ UNCHANGED <<lines, count, refused, handle, case, follower>>

\* Mutant of Rename: the freed name of an older segment is used again.
RenameToFront(t) ==
    /\ rotated' = rotated \cup {[file |-> current, stamp |-> IF rotated = {} THEN 1 ELSE 0]}
    /\ Renamed(t)

\* _rotate_trace_log renames the file, with a stamp above all others, ...
Rename(t) ==
    /\ rotated' = rotated \cup {[file |-> current, stamp |-> stamp + 1]}
    /\ Renamed(t)

\* ... and removes all but the newest, those excepted that are open; ...
Prune(t) ==
    /\ Goto(t, "prune", "open")
    /\ LET gone == {r \in rotated : /\ Cardinality({q \in rotated : q.stamp > r.stamp}) >= Keep
                                    /\ Windows => ~IsOpen(r.file)}
       IN  /\ rotated' = rotated \ gone
           /\ hist' = [hist EXCEPT !.pruned = @ \/ \E r \in gone : r.file \in Needed]
    /\ UNCHANGED <<lines, current, count, stamp, refused, handle, case, follower>>

\* ... or Windows refuses to rename what is open; ...
RenameRefused(t) ==
    /\ Goto(t, "idle", "open")
    /\ count < MaxLines /\ TooLong /\ ~refused
    /\ Windows /\ IsOpen(current)
    /\ refused' = TRUE
    /\ UNCHANGED <<lines, current, rotated, count, stamp, handle, case, follower, hist>>

\* ... or there is no need to, or the last refusal is too recent.
NoRotation(t) ==
    /\ Goto(t, "idle", "open")
    /\ count < MaxLines /\ (TooLong => refused)
    /\ UNCHANGED <<log, handle, case, follower, hist>>

RetryTime ==
    /\ refused /\ refused' = FALSE
    /\ UNCHANGED <<lines, current, rotated, count, stamp, pc, handle, case, follower, hist>>

\* open(log_path, "a") creates the file if there is none ...
OpenLog(p, from, to) ==
    /\ Goto(p, from, to)
    /\ IF current # NoFile THEN UNCHANGED <<current, lines>>
       ELSE \E f \in FreeFiles : current' = f /\ lines' = [lines EXCEPT ![f] = <<>>]
    /\ handle' = [handle EXCEPT ![p] = current']
    /\ UNCHANGED <<rotated, count, stamp, refused, case, follower>>

\* ... and the line goes to the end of what was opened.
WriteLine(p, from, to) ==
    /\ Goto(p, from, to)
    /\ count < MaxLines /\ count' = count + 1
    /\ lines' = [lines EXCEPT ![handle[p]] = Append(@, count + 1)]
    /\ handle' = [handle EXCEPT ![p] = NoFile]
    /\ UNCHANGED <<current, rotated, stamp, refused, case, follower>>

OpenEntry(t)  == OpenLog(t, "open", "write") /\ UNCHANGED hist
WriteEntry(t) == WriteLine(t, "write", "idle") /\ UNCHANGED hist

-----------------------------------------------------------------------------
(* begin_serial_case and end_serial_case *)

\* The position is that of trace.jsonl now.  started_at has seconds: the last
\* rotation may count as one since the case began.
BeginCase ==
    /\ Goto(Case, "idle", "open")
    /\ \E since \in {stamp, stamp + 1} :
        meta' = [start |-> StatCurrent, end |-> Nowhere, since |-> since]
    /\ hist' = [hist EXCEPT !.began = count, !.disturbed = (current = NoFile)]
    /\ UNCHANGED <<log, handle, segments, slice, follower>>

BeginOpens  == OpenLog(Case, "open", "write") /\ UNCHANGED hist
BeginMarks  == WriteLine(Case, "write", "active") /\ UNCHANGED hist

EndCase ==
    /\ Goto(Case, "active", "endopen")
    /\ count < MaxLines
    /\ UNCHANGED <<log, handle, case, follower, hist>>

EndOpens == OpenLog(Case, "endopen", "endwrite") /\ UNCHANGED hist
EndMarks == WriteLine(Case, "endwrite", "endstat") /\ hist' = [hist EXCEPT !.marked = count + 1]

\* The end is a position, too.
EndStat ==
    /\ Goto(Case, "endstat", "find")
    /\ meta' = [meta EXCEPT !.end = StatCurrent]
    /\ UNCHANGED <<log, handle, segments, slice, follower, hist>>

\* _case_trace_segments: the path trace.jsonl, whatever file is there later, after all
\* rotated ones.
TracePath == [file |-> NoFile, stamp |-> MaxLines + 1]

BeganIn(f) == meta.start.file = f /\ Len(lines[f]) >= meta.start.offset

\* The case began in the file that is trace.jsonl ...
FindCurrent ==
    /\ Goto(Case, "find", "cut")
    /\ current # NoFile /\ BeganIn(current)
    /\ segments' = {TracePath}
    /\ UNCHANGED <<log, handle, meta, slice, follower, hist>>

FindOther ==
    /\ Goto(Case, "find", "list")
    /\ current # NoFile => ~BeganIn(current)
    /\ UNCHANGED <<log, handle, case, follower, hist>>

\* ... or in a rotated one, or what was rotated since its start is taken.
List ==
    /\ Goto(Case, "list", "cut")
    /\ LET begins == {r \in rotated : BeganIn(r.file)}
           newer  == IF begins # {} THEN {r \in rotated : \E b \in begins : r.stamp >= b.stamp}
                     ELSE {r \in rotated : r.stamp >= meta.since}
       IN  segments' = newer \cup {TracePath}
    /\ UNCHANGED <<log, handle, meta, slice, follower, hist>>

\* _case_trace_entries: the file the end is in is the last one to read.
FileAt(s) == IF s = TracePath THEN current ELSE s.file

Cut ==
    /\ Goto(Case, "cut", "read")
    /\ LET ends == {s \in segments : meta.end.file # NoFile /\ FileAt(s) = meta.end.file}
       IN  segments' = {s \in segments : \A e \in ends : s.stamp <= e.stamp}
    /\ UNCHANGED <<log, handle, meta, slice, follower, hist>>

\* The next segment: the first from the start, the last to the end.
ReadSegment(s) ==
    /\ pc[Case] = "read" /\ \A q \in segments : s.stamp <= q.stamp
    /\ LET there == s = TracePath \/ s \in rotated
           text  == IF there /\ FileAt(s) # NoFile THEN lines[FileAt(s)] ELSE <<>>
           upTo  == IF segments = {s} /\ meta.end.offset < Len(text) THEN meta.end.offset
                    ELSE Len(text)
       IN  slice' = slice \o SubSeq(text, meta.start.offset + 1, upTo)
    /\ meta' = [meta EXCEPT !.start.offset = 0]
    /\ segments' = segments \ {s}
    /\ pc' = [pc EXCEPT ![Case] = IF segments = {s} THEN "ended" ELSE "read"]
    /\ UNCHANGED <<log, handle, follower, hist>>

Read == \E s \in segments : ReadSegment(s)

-----------------------------------------------------------------------------
(* _read_trace_since: one poll of the follower *)

PollOpen ==
    /\ Goto(Follower, "idle", "old")
    /\ current # NoFile
    /\ handle' = [handle EXCEPT ![Follower] = current]
    /\ size' = Len(lines[current])
    /\ hist' = [hist EXCEPT !.unseen = FALSE, !.polled = count]
    /\ UNCHANGED <<log, case, cursor, got>>

\* Mutant of PollOld: the rest of the old file is not read.
PollOldSkips ==
    /\ Goto(Follower, "old", "new")
    /\ cursor' = [file |-> handle[Follower],
                  offset |-> IF cursor.file # handle[Follower] THEN 0 ELSE cursor.offset]
    /\ UNCHANGED <<log, handle, case, size, got, hist>>

\* Another file is trace.jsonl by now: the rest of the one before it, ...
PollOld ==
    /\ Goto(Follower, "old", "new")
    /\ IF cursor.file # handle[Follower]
       THEN /\ got' = IF cursor.file \in Rotated
                      THEN got \o SubSeq(lines[cursor.file], cursor.offset + 1, Len(lines[cursor.file]))
                      ELSE got
            /\ cursor' = [file |-> handle[Follower], offset |-> 0]
       ELSE /\ cursor' = IF size < cursor.offset THEN [cursor EXCEPT !.offset = 0] ELSE cursor
            /\ UNCHANGED got
    /\ UNCHANGED <<log, handle, case, size, hist>>

\* ... and what the open file had when it was opened.
PollNew ==
    /\ Goto(Follower, "new", "idle")
    /\ got' = got \o SubSeq(lines[handle[Follower]], cursor.offset + 1, size)
    /\ cursor' = [cursor EXCEPT !.offset = size]
    /\ handle' = [handle EXCEPT ![Follower] = NoFile]
    /\ size' = 0
    /\ UNCHANGED <<log, case, hist>>

Poll == PollOpen \/ PollOld \/ PollNew

TraceNext ==
    \/ \E t \in Threads : Rename(t) \/ RenameRefused(t) \/ NoRotation(t)
                            \/ Prune(t) \/ OpenEntry(t) \/ WriteEntry(t)
    \/ RetryTime
    \/ BeginCase \/ BeginOpens \/ BeginMarks
    \/ EndCase \/ EndOpens \/ EndMarks \/ EndStat
    \/ FindCurrent \/ FindOther \/ List \/ Cut \/ Read
    \/ Poll

TraceSpec == TraceInit /\ [][TraceNext]_traceVars

-----------------------------------------------------------------------------
\* s is an unbroken run of lines that begins after the line n.
RunAfter(s, n) == \A i \in DOMAIN s : s[i] = n + i

\* A case has every line from its begin to its end marker, in order and once,
\* across any number of rotations whose files are kept, unless one falls into
\* the two commands themselves (_case_trace_segments, _case_trace_entries).
SliceExact ==
    pc[Case] = "ended" /\ ~hist.disturbed /\ ~hist.pruned =>
        RunAfter(slice, hist.began) /\ hist.began + Len(slice) >= hist.marked

\* The follower prints every line once and in order, unless the trace is
\* rotated twice between two of its polls (_read_trace_since).
FollowerExact == hist.late \/ RunAfter(got, 0)

\* After a poll it has printed all that had been written when the poll began:
\* a rotation delays no line to a later poll.
FollowerUpToDate ==
    pc[Follower] = "idle" /\ ~hist.late => Len(got) >= hist.polled
=============================================================================
