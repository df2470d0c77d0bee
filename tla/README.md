# Formal models of auto-debug

auto-debug (`src/autodbg`) lets an AI client and a human debug an embedded
board together over one serial port. Every command is a short-lived process of
its own; what the commands share is the file system (lock files, registries,
traces, markers, evidence directories) and one long-lived *broker* process per
serial port. Nearly everything that is hard about the program is in what those
processes do to each other between two of their system calls. This directory
models that in TLA+, checks it with TLC on small instances, and proves the
central safety properties with TLAPS for instances of every size.

Paths below are relative to `src/src/autodbg/` unless they say otherwise;
`runtime.py`, `broker.py` and `cases.py` are in `serial/`, `watch.py` and
`main.py` in `cli/`.

## 1. Inventory

| Component | Code | State it keeps | Operations |
|---|---|---|---|
| port and control lock | `runtime.py` `_acquire_pid_lock`, `_remove_stale_lock`, `_release_pid_lock`; `utils/process.py` | a lock file with a pid, an open descriptor | acquire, judge stale, unlink, describe the holder, release, clean up |
| broker registry | `runtime.py` registry functions, `broker.py` start/stop/keeper | one JSON file per port: pid, TCP port, `protected`; `self.protected` in the broker | register, heal, load, judge gone, unlink, protect, notify, stop |
| serial link | `broker.py` | the pyserial handle, backoff times, handler threads, the reader | open, read, write, mark unavailable, reconnect, stop |
| observe launch | `runtime.py` `ensure_observe_serial_broker`, `observe-serial.ps1` | a `.launching` marker, a status file per launch, the window process | claim, open, update, wait, release; window: serve, fail, end |
| trace log | `runtime.py` `_append_trace_entry`, `_rotate_trace_log` | `trace.jsonl`, rotated `trace.<stamp>.jsonl`, the retry time | append, rotate, prune |
| trace followers | `watch.py` `_read_trace_since`, `_follow_trace_via_broker` | a cursor (file identity, offset); a socket | poll; read from the broker |
| serial cases | `cases.py` | `metadata.json` per case, `active_case.json` per port | begin, end, cut the slice |
| watch TUI | `watch.py` | lines, `paused`, scroll offset, input line, password state | append, pause, page, type, send, auto-login |
| shell control | `control/controller.py` | the transcript of one command | login, wrap a command in markers, wait for prompt or marker |
| artifact server | `host/artifact_server.py`, `main.py` | a registry per port, a background HTTP process | choose a port, spawn, register, wait for health, serve, stop |
| command workflows | `main.py` (`run`, `bootstrap-network`, `device-pull`, `deploy-verify`, `stage-sd`, `exec`, `collect-evidence`, ...) | the stage reached, the evidence of a session | the stages of each command, and what each failure leaves behind |
| transport selection | `transport.py` | none of its own | choose serial, HTTP, TFTP or SD |
| evidence collector | `evidence/collector.py` | JSON and Markdown files of a session | append events and interventions, patch the summary |
| session | `session/`, `state/machine.py` | task state, verdict and failure stage; a numbered directory; a loop block | create, find the latest, go on from another session |
| agent contract, MCP | `agent/contract.py`, `mcp/` | `os.environ` of the server process, the connection | read a message, prepare, run a command in the process, find its session, answer |
| profiles, settings | `profiles/`, `config/`, `models/` | none | parse TOML and environment |
| deployment helpers | `deploy/`, `host/storage.py`, `host/bundle.py`, `host/network.py` | none | copy files, run tools |
| workflow evaluation | `workflows/` | none | score results, give the verdict |

How they interact. A broker takes the **port lock**, opens the port, writes the
**registry** and serves TCP clients. Commands read the registry to find it, judge
whether it is gone, clean up after it, raise its protection and stop it. A
command that finds no observed broker goes through **observe launch**, which
starts a PowerShell window running `watch-serial`; that process becomes the
broker or attaches to one. All traffic is appended to the **trace log** by the
broker (which alone rotates it, because it holds the port lock); **followers**
and **cases** of other processes read it without any lock. A command that works
on the device logs in through **shell control**, brings files over HTTP from an
**artifact server** or line by line, and leaves its verdict in the **summary** of
its session. An AI client reaches all of it through the **MCP server**, which
runs each command in its own process and names the session the command made.

What is hard: interleavings of system calls of processes that share no lock
(registry, lock file, trace); decisions on a copy of a file that has changed
since (stop, protect, clean-up, waiting for a window, cutting a case); crashes
between two steps and pids that are used again; Windows' refusal to unlink or
rename open files; handler threads, reader and `stop` on one serial handle; and
waits that must end. `PROJECT.json` lists these hazards at their lines.

What makes each component correct:

- *lock*: at most one holder; the holder's file is never removed by others;
  each call returns.
- *registry*: never names a live process that does not own the port; comes back
  when it is lost; a human's protection cannot be bypassed without `--force`;
  cleaning up spares a new broker's entry. (With one exception, see section 4.)
- *serial link*: no open handle is lost; a device that comes back is read again;
  each loss and each return of the port is announced once.
- *launch*: only its launcher drops a marker of a live launch; each call ends.
- *trace*: a follower prints each line once, in order and in time; a case is its
  lines, whole, across rotations.
- *shell control*: a command's output is that of this command and no other, whole but
  for the lines that are dropped by what they hold, and every call returns.
- *artifact server*: the registry names a server that works; stop stops it.
- *workflows*: a failure is reported at its stage and leaves nothing running; a
  refused call has sent nothing; what is deployed is what was transferred.
- *session*: success is said only when every part that was asked for was well; the
  file says what the command said last; a recorded intervention is counted once.
- *agent*: no call sees another call's environment, unless that one failed while it
  set it; each request that is not ignored is answered once and in order, with the
  session it made; chains of sessions count.

## 2. Plan

Modules in the order in which they are written (done unless marked):

1. `Mutex`: what a lock promises. `PidLock`: the lock file; implements `Mutex`.
2. `BrokerRegistry`: brokers and clients around the registry file; composes
   `Mutex` as the port lock.
3. `SerialLink`: the threads of one broker on one handle.
4. `ObserveLaunch`: the callers and windows.
5. `TraceLog`: writer with rotation, follower and case.
6. `DeployWorkflow`: `device-pull` and `deploy-verify`, the commands that change
   the device; composes `Mutex` as the control lock.
7. `SessionCommand`: the other nine commands that have a session, their verdict
   and its way into `summary.json`, which `record-intervention` also changes.
8. `ShellControl`: login, markers, prompts and time-outs of commands in a row.
9. `ArtifactServer`: choice of a port, spawn, health, registry and stop.
10. `AgentCall`: the MCP server's loop, the environment and the session of a call.
11. *left*: `SerialCases`, two commands on the active case of one port;
   `ReconnectBackoff`, the delays of `_mark_serial_unavailable` and
   `_reconnect_when_due` as a function of the history of the port; `WatchView`, pause,
   page and the scrollback limit as functions on (lines, offset, paused).

Abstract specifications worth stating: the mutex (done), a *window slot* that
`ObserveLaunch` implements except for the limit described in section 4, and a *stream*
(append, read in order) that the follower of `TraceLog` implements between two
rotations.

Theorems: every invariant and every step property that a run checks is one (section
6). What would be worth proving next is the window slot of `ObserveLaunch` and the
stream of the follower as refinements, once the two are written down.

## 3. Modules

### PidLock, Mutex (the lock file)

`PidLock` has one variable pair for the file (`creator`, `written`: who created
what is at the path, and whether its pid is in it) and per process the place in
the code, the pid last read and the loop counter. Each system call is an
action: `Create` / `OpenExists` are the two outcomes of `os.open(O_EXCL)`,
`WritePid` the write that follows, `OpenToRead` / `CloseRead` the two ends of
`_read_lock_pid`, `Judge` the pid check, `UnlinkStale` / `UnlinkRefused` the
removal, `Describe...` the message of `SerialPortBusyError`, `Release...` the
release, and `Crash` / `Restart` a death and an unrelated process that gets its
pid. `Cleanup` is `stop_serial_broker`'s call of `_remove_stale_lock` alone.
`Windows` says whether the system refuses to unlink a file somebody has open.

`Mutex` is the abstract lock: `Take`, `Drop`. `PidLock!ImplementsMutex`
instantiates it with `holder <- Holder`, the process between `os.open` and
`os.close`.

### BrokerRegistry

The file is (`epid`, `eprot`). Each broker has a life (`bst`), the protection in
its memory (`memProt`), a keeper that looks, and adopts or rewrites in a second step
(`keeper`), and a `protect` message that has not been handled yet (`toProtect`). Each
client is at a step of a command: load and clean up, `observe` (load, upgrade,
notify, confirm), `stop` with or without `--force`. `Sandboxed` clients cannot
inspect pids and take the other branch of `_serial_broker_is_gone`. The port
lock is `Mutex`, which `PidLock` implements. `ForeignDamage` stands for
other programs on the file. `born` and `before` are history variables: `before` is
`Settled` when a stop began: brokers that know of their guard and whose entry, if
the file has it, does not deny it, nor did when their keeper read it.

### SerialLink

One reader, any number of client handler threads, `stop()`. The lock
`_serial_lock` makes opening and dropping atomic; announcing and closing happen
after it is released and are steps of their own. `local[t]` is the handle
a thread took from `self._serial` before it used it. `UseFails` is the
exception of a read or write whose device is gone, `MarkUnavailable`,
`CloseDropped`, `Report` the three parts of `_mark_serial_unavailable`. A write
of a client may reopen at once, the reader only when its time has come
(`NotYet`). `Unplug` and `Plug` are the device. `said` counts the announcements:
connected ones minus those of a loss.

### ObserveLaunch

The marker is one record (token, launcher, window, age); decisions about it
are made under an OS lock and are single steps. `win[l]` is the window of launch
`l`, `status` the launches whose window wrote a status file; the wait loop is
split at each of its reads, because windows change between them. `Late` is
the deadline. Launch names are used again once nobody knows them.

### TraceLog

A file is the sequence of the numbers of its lines, identified as the inode
is: a removed file's identity is used again. `rotated` is the set of the rotated
files with the stamps of their names, which is what the directory is to the code;
the files a case has yet to read (`segments`) are such a set, too, and are read in the
order of the stamps (`ReadSegment`). `Rename`, `Prune`, `OpenEntry`,
`WriteEntry` are the steps of one append with its rotation; `RenameRefused` is what
Windows does while a reader or a marker has the file open. The case process
stats, appends its markers through the same open/write pair, stats again, chooses the
files (`FindCurrent`, `FindOther`, `List`), cuts (`Cut`) and reads them one by one
(`Read`); the choice and each read are separate steps since it holds nothing
open in between. The follower opens, reads the rest of the old file, then the new
one up to the size at its opening.

Offsets count lines. A reader thus never sees half a line; the code drops an
unfinished last line itself (`_read_complete_lines`). The rotation's number in
`stamp` stands for time and sequence number of the name.

### DeployWorkflow

A call is one process running `_command_device_pull` or
`_command_deploy_verify`; `pc[c]` is the stage it is in, `opt[c]` its command
line (the mode asked for, `--mode offline`, which command would exceed
`max_line_bytes`, whether there are post-pull, reboot and observation options).
Calls share `control` (the control lock, a `Mutex`), the device's workspace `ws`
and its upload file `b64`. Each command on the device is one step with its
outcomes: the stage's own action for exit code 0, `TransferFails`, `Records` or
`Raises` for others, `Killed` for a death of the process, after each of which the command may
have done all, some (`Unfinished`) or nothing. `Ends` is the common end: the
with-blocks and `finally` give the lock and the HTTP server back and the
summary is written. `Planned` is the length check before the first command,
`ProbeEnds` the one after the probe, and `FinalizeRefused` the one that is left for the
finalize command, which is planned for one upload line and turns out too long with the
real number when all lines are on the device. `out[c].says` is what the message of a
refusal says has been sent. `caps` is what the device can do; the
probe sees that or, when its answer does not come in time, nothing.
`sent` and `used` are history variables.

The bundle is cut into `Chunks` lines; each line in `b64` is the call that sent
it, so `Finalize` can tell a whole bundle from a mixture.

### SessionCommand

One command of nine kinds with its session and some `record-intervention`
processes. `cmd` is the process: its place, the variables its verdict is made of
(`res`, the outcome of each part), the task state in its memory, and the update it
is making. `EvidenceCollector.bootstrap` is three steps: `Begin` opens `summary.json`,
which leaves it empty, `BootstrapFill` publishes it, and `BootstrapClear` empties
`interventions.jsonl` last, when recorders can already find the session; `erased`
keeps the lines that are lost in this way.
`EvidenceCollector.update_summary` is four steps, as another process
sees them: `ReadSummary` or `ReadTorn` (an emptied file is no JSON; inside the
command's `try` that is its handler's business, elsewhere `main` returns 2),
`TruncateSummary` and `FillSummary`. Each command has an action for each way it ends:
`...Finishes`, `...Blocked` (no login), `...Fails` (any other exception), refused
commands, `Crash`. `Succeeds` puts together the conditions under which the code
writes `decision = "success"`; `SuccessIsEarned` is stated over the outcomes. What a
command prints is reduced to the outcome it leads to.

### AgentCall

`serve_stdio` on one connection. `inbox` is what the client has sent, `outbox` what
it has been answered; a message is one of the kinds the loop tells apart (a call, a
call of the latest report, prepare, initialize, a plain method, an unknown one, a
refused call, one of the four methods that are never answered, a line that is no JSON,
a JSON array), with an id or without. `Ignored` are those four, whatever their id, and an
`initialize` without one; every other message without an id is executed and answered
with the id null, which the model writes 0. A call is
`BeginCall` (the first `list_session_dirs`), `SetEnvironment`, the command
(`CreateSession`, `EndCommand`, which is any end it may have),
`RestoreEnvironment`, and `AnswerCall` or `AnswerTorn`. `SetEnvironmentFails` is a call
with a value that `os.environ` refuses (`Unsettable`): the variables are set in the
order of `_CONNECTION_ENV_MAP` (`Order`) before the `try`, those before the refused one
stay as they are, and the answer is an error. `OtherTerminal` makes a
session in between; `Kill` and `Restart` are the server's. Sessions are numbered in
the order of their paths; `Retrieved` is a day of the retrieved files, whose
path sorts after them.

### ArtifactServer

A start in the background is two processes, `<<s, "command">>` and
`<<s, "server">>`, which run the same function; `proc` says where each is.
`Choose` is `_select_artifact_server_port`, whose probe of the port is closed before
`Bind`; both processes write the registry (`EmptyRegistry`, `FillRegistry`).
`PollHealthy` takes the answer of whoever listens, `PollFails` terminates the
server and unregisters it. `StopLoads` ... `StopRemoves` are `artifact-server stop`.
`Die` is a signal that arrives, `Crash` any other death. `contested` remembers the
ports that two calls used at the same time.

Sockets are those of POSIX: a bound port cannot be bound again. (On Windows
`SO_REUSEADDR` lets two servers bind one port.)

### ShellControl

Both ends of the console. `typed` and `rx` are the characters on their way, as
lines; `console` is who reads them on the device: getty, the password prompt, the
shell, or a command that runs. `Boot`, `Noise`, `OtherTypes`, `Break` are what happens
to a console; `Break` turns a line into what is left when another one runs into it or when
`readline` times out in the middle. The controller is the two loops of
`controller.py`: `Login...` (a prompt, however old, will do) and `Collect...`
between the markers, and `Extracted` the structured output of `transport.py`: the
lines with the prefix (`Own`), which stay at their places, so that what is taken
out leaves gaps and the places still give the order. What the controller takes a line for
depends on what it holds: a line of output is the set of its signs (`Signs`: a shell
prompt, the login prompt, "password"; or it is blank or the command itself), and any other
line may have those of `Stray` (`Held`). While it collects, the controller drops
a line that is blank, the command, or holds a shell prompt (`Unwanted`); while it logs in,
any line with one of the first three signs is answered as if the device had asked.
`OutputComplete` is about the lines that are left (`Kept`). `ended` is the history of
the exit codes on the device and `spoilt` that of the commands one of whose lines was
broken; the properties are stated over them.

## 4. What the runs show

Passing runs:

| Run | Instance | Shows |
|---|---|---|
| `pidlock` | 2 processes, 3 tries, 1 crash, Windows | `AcquireReturns`, `ImplementsMutex` |
| `registry` | 2 brokers, 1 sandboxed client, 2 damages | `EntryNamesOwner`, `GuardHolds`, `RegisteredAgain` |
| `link` | reader, 1 handler, stop, 4 handles, 2 unplugs | `NoHandleLeaks`, `EachChangeAnnounced`, `Reconnects` |
| `launch` | 2 callers, 2 launches, 1 crash, slow windows | `MarkerIsLaunchers`, `CallEnds` |
| `trace` | 5 lines, rotation before each, 2 kept, 4 files | `SliceExact`, `FollowerExact`, `FollowerUpToDate` |
| `deploy` | 1 call of 9 command lines, 1 automatic pull, 2 upload lines | `ServesOnlyPulls`, `RefusedIsUntouched`, `AppliesOwnFiles`, `TransferFailureIsClean`, `CallEnds` |
| `session` | 9 kinds of command, 1 recorder, 1 kill | `SuccessIsEarned`, `OversizeNeverSent`, `FileTellsOutcome`, `RecordsCounted`, `CallsReturn` |
| `agent` | 2 messages of any kind, some without an id, 1 other session, 1 kill, 2 variables, of which one may be refused | `EnvironmentIsOwn`, `AnsweredInOrder`, `NamesOwnSession`, `ChainsCount`, `EveryRequestAnswered` |
| `artifact` | 2 starts, 2 ports, 1 stop, 1 crash | `FailedStartLeavesNoServer`, `AnsweredByOwn`, `ServerIsRegistered`, `CallsReturn`, `StoppedIsGone` |
| `shell` | 2 commands (an output line with "password"; structured, with a two-digit code, a line with a prompt and one without), stray prompts, one Enter more, one stranger's line, one noise, one boot | `ResultIsOwn`, `OutputIsOwn`, `OutputComplete`, `CallsReturn` |

The type invariant is checked by the runs of `TraceLog`, `ShellControl` and
`SessionCommand`, whose steps have the most parts, and is a theorem of section 6 for
every module; so are `MutualExclusion`, `HolderOwnsFile` and `BornProtectedSurvives`,
which the checked `ImplementsMutex` and `GuardHolds` cover in the runs.

Why the bounds are enough. Two processes on the lock already give each
order of create, judge, unlink and release; the theorem of section 6 covers any
number. Two brokers are an old and a new one, which is what the registry code
distinguishes; two damages let one hit the file again after a repair.
Four handles are one per thread, the current one and one that was dropped.
Two launches are a stale one and its successor. Five lines are the two markers
of a case, one line before it and two within, so that the case spans up to
three files, one of which may be pruned; four files are those kept, the current
one and one that is being removed. The nine command lines of `deploy` are the
ones that take different ways through the two commands; the second call, an automatic
pull, can be in every transfer stage, so a call of each kind meets another one
everywhere; two upload lines leave a part of a bundle behind, and the proof
covers any number of calls and lines. In `session` one recorder meets each update
of each command, which is what two processes without a lock can do to the file;
commands do not share a session. In `agent` two messages are a call and what comes
after it, and the restart allows two more: sessions outlive the
server, its environment does not. In `artifact` a server meets another one that
chooses, serves, dies or has left its entry on the same port, and the stop of either;
the theorems cover any number of starts and ports. In `shell` the first
command can be the one that was given up and goes on during the second; each
of the things that happen to a console can fall anywhere between their lines.

Runs that violate what the sources say (one property each):

| Run | Property | Behaviour |
|---|---|---|
| `deploy_observe` | `WaitsForOthers` | a pull with `--post-observe-seconds` reaches its observation inside the with-block of `open_serial_port`; `SerialObserver.capture` opens the port again and waits for the control lock its own process holds |
| `agent_latest` | `LatestIsSession` | with an artifacts root that is not named "artifacts", retrieved files lie below it, and the latest session is taken to be the directory `retrieved/<day>` |

### Known limits of the code

These behaviours are in the models; the properties above exempt them or
are weaker because of them.

- *Lock, Windows*: a contender reads the lock file while its owner releases it; the
  unlink is refused, `_release_pid_lock` does not retry, and the port is "in use by
  another process" although nobody uses it, until somebody finds the file stale.
- *Guard*: client 1 loads broker 1's entry; broker 1 dies and broker 2 registers;
  client 1 writes broker 1's entry back, protected; broker 2's keeper sees a foreign
  entry; client 2 protects broker 2 and client 1 announces the guard; the keeper
  restores broker 2's entry from memory, unprotected; a stop without `--force` kills
  it. `GuardHolds` says that a stop without `--force` spares a broker whose guard
  was settled when the stop began: the broker knew of it, the file did not deny it, and
  the keeper was not about to adopt an entry that did.
- *Registry clean-up*: a client that cleans up after a dead broker may remove the
  entry of a new one that registered between its comparison and its unlink (the broker
  registers again, `RegisteredAgain`).
- *Link status*: a writer drops the handle, the reader reopens and announces it, the
  writer then announces the loss: the window shows the port as lost until the next
  change. `EachChangeAnnounced` says that none is lost or doubled.
- *Launch*: the launcher sees another session and drops its marker although its own
  window still starts; the session ends; the next call opens a second window. A waiter
  that copied a marker before the window's pid was in it may say that the window
  closed when its launcher exited.
- *Case and rotation*: the case's file is found to be `trace.jsonl`; the broker
  rotates; the path is opened and is another file, or none. `SliceExact` takes
  rotations between the reads of the two commands themselves out.
- *Follower*: `FollowerExact` and `FollowerUpToDate` take out two rotations between
  two polls (`hist.late`), after which the code cannot find the file in the middle; at
  the default limit of 64 MiB per file and a poll of a fraction of a second that does
  not happen.
- *Refusal in the middle*: the finalize command of a serial bundle is planned with one
  upload line; when the real number makes it too long, all lines are sent and the call is
  then refused, and says that a part of the upload may be left. `RefusedIsUntouched`
  holds a refusal to what it says.
- *Session*: `exec` and `health` return 0 when their command or check failed on
  the device; the verdict is in the summary. Two updates that overlap lose one of them
  (`RecordsCounted` and `FileTellsOutcome` exempt `overlap`, so no property speaks of
  the update that is lost; what is left are `SuccessIsEarned` and the bound on the count).
  A record that is made while the bootstrap of its session still goes on is counted, and
  its line in `interventions.jsonl` is erased; `RecordsCounted` compares the count with
  the lines that were written. A reader that meets the emptied file fails.
- *Agent*: a JSON array ends the server, since nobody catches the exception. A summary
  that is being written gives an error response without the session. A session that
  another terminal makes during a call may be named instead of the call's own. A call
  with a value `os.environ` refuses leaves the variables that were set before it for the
  later calls (`contract.py:783-785`); `EnvironmentIsOwn` counts them as found (`Found`).
  Of messages without an id only the four methods and `initialize` are left without an
  answer; a `ping` or a `notifications/cancelled` is answered with the id null, and a
  request of one of the four methods is not answered though it has an id.
- *Artifact server*: two starts that chose one port: the loser reports the winner's
  server as its own, and a stop with the entry of the first removes that of the
  second (`contested`).
- *Shell*: a two-digit exit code whose line is broken may lose its last digit; it is
  never success for failure or the other way round. Output that is blank, equals the
  command or holds a shell prompt is dropped. A line that holds "password" makes the
  login type the password. A stale prompt after a boot sends the command to the
  login prompt, and the call times out.

## 5. Fairness

- `PidLock`: weak fairness of each process's next step within a call. Nothing
  makes a process begin a call, or its caller end the use of the port.
- `BrokerRegistry`: weak fairness of what the keeper does when it misses its entry or has
  read it (`_registry_keeper_loop` runs every two seconds for as long as the broker
  serves) and of the next step of a command. Nobody has to start, stop or kill.
- `SerialLink`: weak fairness of each thread's next step, of the reader's loop and
  of `stop` once it has begun; strong fairness of the reader's attempt to open, because
  it is taken again and again when its time comes while other threads come and go.
- `ObserveLaunch`: weak fairness of each call's next step and strong fairness of the
  deadline: time passes whatever the loop sees. Windows need not do anything.
- `DeployWorkflow`: weak fairness of the next step (`Goes`) of a call that has
  been started: its process runs, and each command on the device has a time-out,
  so it comes back well or badly. Failures and deaths (`Fails`) need not happen.

- `SessionCommand`: weak fairness of a command that has been started: each operation on
  the device has a time-out. Nobody has to start one, and recorders owe nothing.
- `AgentCall`: weak fairness of `Serve`, the server that has a message or is in a
  call. The client need not send and nobody has to start a new server.
- `ArtifactServer`: weak fairness of each process's next step, of the command that
  waits for its server and of a stop that has loaded an entry. A server
  need not end by itself. The health probe may succeed or fail in each round.
- `ShellControl`: weak fairness of the controller and of its two time-outs:
  both loops look at the clock after at most 0.2 s of reading. The device owes nothing.

No fairness is used by the safety properties, and `TraceLog` has none.

## 6. Proofs

TLAPS checks for every value of the constants:

| Theorem | Module | Statement |
|---|---|---|
| `TypeCorrect` | `PidLockProof` | `Spec => []TypeOK` |
| `HolderKeepsFile` | `PidLockProof` | if `Windows`: `Spec => []HolderOwnsFile` |
| `LockExcludes` | `PidLockProof` | if `Windows`: `Spec => []MutualExclusion` |
| `FileIsMutex` | `PidLockProof` | if `Windows`: `Spec => ImplementsMutex` |
| `TypeCorrect` | `BrokerFilesProof` | `Spec => [](TypeOK /\ HasBroker)` |
| `EntryIsOwner` | `BrokerFilesProof` | `Spec => []EntryNamesOwner` |
| `BornProtectedIsSafe` | `BrokerFilesProof` | `Spec => []BornProtectedSurvives` |
| `SettledGuardHolds` | `BrokerFilesProof` | `Spec => []GuardHolds` |
| `TypeCorrect`, `HandlesKept` | `SerialConsoleProof` | `Spec => []TypeOK`, `Spec => []NoHandleLeaks` |
| `ChangesAnnounced` | `SerialConsoleProof` | `Spec => []EachChangeAnnounced` |
| `TraceTypes` | `BrokerFilesProof` | `TraceSpec => []TraceTypeOK` |
| `FollowerIsExact` | `BrokerFilesProof` | if `Windows`: `TraceSpec => []FollowerExact` |
| `FollowerIsUpToDate` | `BrokerFilesProof` | if `Windows`: `TraceSpec => []FollowerUpToDate` |
| `SliceIsExact` | `BrokerFilesProof` | if `Windows`: `TraceSpec => []SliceExact` |
| `ShellTypes` | `SerialConsoleProof` | `ShellSpec => []ShellTypeOK` |
| `ResultsAreOwn` | `SerialConsoleProof` | `ShellSpec => []ResultIsOwn` |
| `OutputsAreOwn` | `SerialConsoleProof` | `ShellSpec => []OutputIsOwn` |
| `OutputsAreComplete` | `SerialConsoleProof` | `ShellSpec => []OutputComplete` |
| `TypeCorrect`, `ServedOnlyInPulls` | `DeployWorkflowProof` | `Spec => []TypeOK`, `Spec => []ServesOnlyPulls` |
| `PortHeld` | `DeployWorkflowProof` | `Spec => []PortInv` |
| `PullsApplyTheirOwn` | `DeployWorkflowProof` | `Spec => []AppliesOwnFiles` |
| `RefusalsAreTrue` | `DeployWorkflowProof` | `Spec => []RefusedIsUntouched` |
| `FailedTransfersAreClean` | `DeployWorkflowProof` | `Spec => []TransferFailureIsClean` |
| `TypeCorrect`, `MarkersAreLaunchers` | `ObserveLaunchProof` | `Spec => []TypeOK`, `Spec => MarkerIsLaunchers` |
| `TypeCorrect` | `ArtifactServerProof` | `Spec => []TypeOK` |
| `FailedStartsAreClean` | `ArtifactServerProof` | `Spec => []FailedStartLeavesNoServer` |
| `OwnServersAnswer` | `ArtifactServerProof` | `Spec => []AnsweredByOwn` |
| `ServersAreRegistered` | `ArtifactServerProof` | `Spec => []ServerIsRegistered` |
| `TypeCorrect`, `EnvironmentsAreOwn` | `AgentCallProof` | `Spec => [](TypeOK /\ Known)`, `Spec => []EnvironmentIsOwn` |
| `AnswersInOrder` | `AgentCallProof` | `Spec => []AnsweredInOrder` |
| `SessionChainsCount` | `AgentCallProof` | `Spec => []ChainsCount` |
| `OwnSessionsNamed` | `AgentCallProof` | if `~NestedRetrieved`: `Spec => []NamesOwnSession` |
| `TypeCorrect`, `EarnedSuccess` | `SessionCommandProof` | `Spec => []TypeOK`, `Spec => []SuccessIsEarned` |
| `NothingSent` | `SessionCommandProof` | `Spec => []OversizeNeverSent` |
| `OutcomeTold` | `SessionCommandProof` | `Spec => []FileTellsOutcome` |
| `CountsAreRight` | `SessionCommandProof` | `Spec => []RecordsCounted` |

Two proof modules hold two components each: `BrokerFilesProof` the registry and the
trace, the two files of a broker, and `SerialConsoleProof` the two ends of a serial
port. The components share no variable, and no proof uses facts about both.

*Lock.* `MutualExclusion` is not inductive: nothing in it stops a contender from
unlinking the holder's file and creating its own. `HolderOwnsFile` (the file at
the path is the one the holder created) is, given the assumption `Windows`: an
unlink needs that nobody has the file open, and the holder does from `os.open` to
`os.close`; a second `Create` needs that there is no file. `LockExcludes` is a
corollary, since a file has one creator. For `FileIsMutex`, `HolderChange` shows
that a step changes `Holder` only by `Take` from none or `Drop` to none.
Where an open file can be unlinked the assumption fails and so does the
property: a contender that reads the file between `Create` and `WritePid` takes
it for stale and removes it.

*Registry.* `EntryNamesOwner` needs two more facts (`OwnerInv`): the lock is held by
exactly the broker whose state says so (`LockMatches`), and each pid in the
file, in a client's copy or in a keeper's hands is of a broker that had the
lock once (`EntriesStarted`); a broker leaves the lock only after it removed its
entry or died. `HasBroker` (a client past the judging has loaded a broker) is
what types the clients' steps. `BornProtectedSurvives` needs `ProtInv`: a broker
started protected has `self.protected` set for life, so every copy of its entry,
in the file, read by its keeper or loaded by a client, is protected. A keeper that rewrote without
its own flag would break it. `GuardHolds` is the same for a protection that came later:
a settled guard stays in the broker's memory for as long as it lives, no later write
of its entry denies it, and so a stop that began afterwards loads it with the entry
(`GuardInv`).

*Link.* `NoHandleLeaks` is inductive with the type invariant: a handle leaves
`self._serial` only under the lock, into the local of the thread that closes it.
`ChangesAnnounced` is about a count: what was said so far, plus the threads about to say
"connected", minus those about to say "lost", is 1 while there is a port and 0
while there is none (`Announced`). Each step moves one thread (`OneMoves`), so the
two numbers change by at most one; that they are finite needs no bound on the threads.

*Deploy.* `AppliesOwnFiles` speaks of the end of a call; its invariant follows the
files through it. `PortInv`: a call from opening the port to leaving it
holds the control lock. `UploadInv`: while a call uploads, the upload file is its
own lines so far; its first line finds it empty, and by `PortInv` nobody else is in a transfer.
`OwnInv`: between the transfer and the post-pull commands the workspace is the
call's own, for the same reason, and from there on the history says so unless the
transfer is recorded as failed. `CountInv` (no line before the upload, not all of them in it) is what bounds
the counter in `TypeOK`. `Footprint` is the lemma that makes this short: a
step of one call changes nothing of another, and the device only in a transfer
stage. The proof is split into the five groups of steps by what they change.
`RefusalsAreTrue` and `FailedTransfersAreClean` share an invariant of what each call
has sent by the stage it is in (`CleanInv`): checks only before the transfer, nothing
harmful before the list of changes, and none after a pull that was recorded as failed;
the workspace is not the call's before its finalize command has been sent. A call ends as
refused or with the stage `transfer_artifacts` only from there.

*Launch.* `MarkerIsLaunchers` is an action property and follows from the type
invariant step by step: only a claim replaces a marker, and only one that is
dead; whoever removes one has read its token into `follows` and ends its
call in the same step.

*Artifact server.* `Places` says which process of a start can be where: there is a
server only when its command has spawned it, and once the command unregisters or has
failed, the server is over or dying. `FailedStartsAreClean` is part of it.
`AnsweredByOwn` needs who else may answer: an entry or a stop names only a
process that has chosen its port (`Registered`); two starts that use one
port, or a start and a stop of another's server, have made it contested (`Apart`); a
socket is that of a process of that port (`Listening`). So on a port that is not
contested the listener that answers is of the start that asks, and its command does not
listen. `ServerIsRegistered` is inductive with these: the entry of an uncontested
port is written by the command and the server of one start only, and while that server
serves both name it; a stop that removes the entry has ended the server first
(`RemovedIsOver`), and a process that unregisters has failed or no longer serves.

*Agent.* The messages on their way, and the call under way, go on only from
sessions that are there (`Known`), so that a loop has a parent and the numbers
of sessions are bounded by those that exist. `EnvironmentIsOwn` needs that what a
call has saved is what it has found (`SavedIsFound`): it is saved between two calls, and
restoring it undoes exactly the overrides. `Found` is the start environment with, of
each variable, the last value that a call has left which failed while it set its own; a
message that is done changes it by what it leaves (`FoundStep`), the step of such a call
changes the environment by the same, and no other does. An answer is given between two
calls too, so that nothing else of an earlier one makes a request ready.
`AnsweredInOrder` needs the numbers along the whole way (`Ordered`): those answered are
below the one of the call that is dealt with, which is below those that wait, which
rise; the answers with a null id are counted step by step with the messages without an
id that are due one.
`ChainsCount` needs that a new session is new: the code takes the number of directories
plus one, so sessions have to be numbered without a gap (`Numbered`, which also bounds
them by the lines sent and the calls of other terminals), and that an iteration that is
given is the one after its session's (`Following`). `NamesOwnSession` needs of a
call under way that what came since its snapshot is its own session or another terminal's
(`CallOK`). It has the hypothesis `~NestedRetrieved`: when the retrieved files lie below
the artifacts root, their directory is a new one that is nobody's session, which is
what the finding `agent_latest` shows.

*Session.* The nine kinds of command share one argument. A command has either not said
how it ended, and then none of its patches does, or it has, and this was its last patch
(`Open` and `Decided`, which also records what a success rests on). So whatever
is in the file, or in a copy that the command or a recorder is about to write, was
said before the end or is what was said last (`Sayings`): a success in the file
is the command's own, whoever wrote it. `OversizeNeverSent` adds that a command that is
too long can only be refused or blocked (`Careful`). For `FileTellsOutcome` and `RecordsCounted`
the processes must not overlap (`Alone`: then there is at most one copy, and after
the last patch it holds the last word); the count is that of the recorders that have
written, plus one in the copy of the one that writes (`Counts`). Until the
bootstrap has filled the summary, recorders have not begun or were refused (`Whole`), so
nothing is counted then. The upper bound of the count holds with overlaps and kills as well.

*Trace.* The proofs never look at a rotation as such but at the *chain*: the rotated
files by their stamps and the current one as the last. `InOrder` says that the chain is
in order: its stamps and files differ, each file's lines are consecutive numbers, each
file starts where the one before ends, and the last ends at `count`. Identities of
removed files are used again, so this needs `HeldIsCurrent`: the file that a
thread has open to append is the current one, because Windows renames no open file.
Every step of the writer is then one of four changes of the chain: a rename, a
pruning, a new file, a line more. For the follower `FollowInv` says that what it has
printed is `1..n` for some `n`, and that its cursor is at the end of `n` in the last
file of the chain, or in the last but one if the trace was rotated once since the
poll; a second rotation sets `hist.late`, from which nothing is claimed. Within a poll
the follower has the file open, so nothing is renamed under it (`Polls`).
`FollowerIsExact` and `FollowerIsUpToDate` follow.

For the case, `BeganAt` and `Covered` say where in the chain the line of its begin
marker is and which lines a set of files holds from there; `Recorded` that, while it
runs, all its lines are still in the chain unless one was pruned (`Calm`); `Marked`
where its two marks are once it has ended. Of what is left to read, `Remaining` says that it
starts in the file of the start mark and has the rest of the lines, and `Sliced` that
the slice so far is exactly those before it. `SliceIsExact` is the case in which
nothing remains.

*Shell.* Each line on the console is marked with the command it comes from (`Marked`). Two
chains of facts make the results true. `CallOrder`: commands are typed in the order of
the calls and run in that order, so the numbers of the commands, along the lines that are still to
come, rise up to that of the command the console runs, and rise further along the keys that were
typed; a command is on the console only when its call has typed it. Since the console
may lose keys and lines, break them, and add others between them, a step is
described by what it does to the marked lines only: they come from those before, in the
same order (`Comes`), each the same or a broken end (`Similar`); `StepKinds` sorts
all steps by that. `EndsOnce`: then each command ends at most once, and each end on its way
has the exit code of that run, or none, or one that lost a digit, which is a success only if
the code was one. `ResultsTrue` is the same of the results, and gives `ResultIsOwn`.

`OutputIsOwn` needs `CaptureInv`: a call collects only after the begin of its own
command, and when it receives that, by `CallOrder`, all that is still to come is of
this command or of none, and stays so until the call returns. `OutputComplete` needs that
nothing is lost on the way (`Whole`): what the command has printed so far and counts as
output is collected or still to come, in order, the collected before the rest and all of it
before the end; a line that does not count is dropped when it is read (`WholeDrops`);
and as long as the begin has not been received, it is still to come and first (`Begun`). A
broken line takes its command out of the claim, and `Carried` says that it leaves the
lines of the others as they were.

Assumptions are the named `ASSUME`s of each module (names differ, bounds are
naturals), `Windows` for the lock and for the trace, and for `OwnSessionsNamed`
`~NestedRetrieved`, which is the case when the artifacts root is named "artifacts", as by
default. For the trace `Windows` matters: where an open file can be renamed, a writer
that has opened the trace may write to the file after it was renamed, the follower
then misses the line, and TLC finds both follower properties violated already with one
thread, and `SliceExact` with two. `TraceTypes` does not need it.

Only model-checked: all liveness (`AcquireReturns`, `RegisteredAgain`, `Reconnects`,
`CallEnds`, `CallsReturn`, `StoppedIsGone`, `EveryRequestAnswered`), which needs fairness
and `ENABLED`, out of the prover's reach. Every invariant and step property of the
passing runs is proved. Induction over data and `RECURSIVE` operators are out of
its reach as well; no module here uses them.

## 7. Not modelled

- Payloads, encodings, JSON, TCP framing and socket buffers; a client that does
  not read and blocks the broker's `sendall`.
- The times of the reconnection backoff (the attempt is enabled at some time).
- Pids that are used again in the registry: a broker's pid is its own (the
  lock module has such pids).
- In `DeployWorkflow`: what a reboot does to the device, what the validation and
  the observation read there, the build itself, and the bootstrap commands apart
  (they are checks sent at the same place with the same failures).
- In `SessionCommand`: the event log, the manifest and the rendered report, which
  nobody reads back; the scoring of texts by `workflows/evaluation.py`.
- In `ArtifactServer`: the manifest and the pull script, which both processes
  write into the directory, and the list command, which only reads.
- In `AgentCall`: the schemas of the operations, `mcp/install.py`, a header that is no
  text (it ends the server as an array does).
- In `ShellControl`: a command of the user that ends the login shell (`exit`); the
  port that goes away, which is `SerialLink`'s subject.
- The watch TUI: pause, page and scrollback are one thread's state, shared with
  nobody. The follower of a broker's socket.
- Several cases of one port at a time, and the reports of a case.
- Profiles, settings, deployment helpers, MCP installation: pure parsing and
  copying without shared state.
