---------------------------- MODULE ShellControl ----------------------------
(***************************************************************************)
(* Running shell commands on a device through its serial console. The      *)
(* controller presses Enter until it sees a prompt, logs in when it is     *)
(* asked to, types the command between two markers of its own and takes    *)
(* what comes between them for the output. The console has no other        *)
(* framing: old prompts wait in the buffer, kernel messages run into other *)
(* lines, somebody else types in the same shell, a command that was given  *)
(* up goes on and the device may boot in between.                          *)
(*                                                                         *)
(* Source: control/controller.py, utils/text.py and the structured output  *)
(* of cli/transport.py. The console is what the controller expects of it.  *)
(* Lines are records; a line whose characters got mixed with another is    *)
(* noise. That the typed line is short enough is SessionCommand's subject, *)
(* and a port that goes away is SerialLink's.                              *)
(***************************************************************************)
EXTENDS Naturals, Sequences

CONSTANTS
    Lines,        \* command -> the lines of its output, each the set of its signs;
                  \* commands run in this order
    Codes,        \* command -> its exit code
    Structured,   \* the commands sent by _execute_structured_command
    Stray,        \* signs that what is no line of a command's output may have
    MaxPokes,     \* Enters per login, after the first
    MaxOthers,    \* lines somebody else types
    MaxNoises,    \* lines of the kernel and of other processes, alone or in others
    MaxBoots,
    NoCode        \* no exit code

Commands == DOMAIN Lines
Count(c) == Len(Lines[c])

\* What the controller can take a line for: it holds a shell prompt, the login prompt or
\* the word "password", or it is blank or the command itself.
Signs == {"prompt", "login", "password", "blank", "command"}

\* A line of structured output begins with a prefix.
ASSUME ControlAssumption ==
    /\ Lines \in Seq(Seq(SUBSET Signs)) \ {<<>>}
    /\ \A c \in Structured : \A n \in DOMAIN Lines[c] :
          Lines[c][n] \subseteq {"prompt", "login", "password"}
    /\ Codes \in [Commands -> Nat] /\ NoCode \notin Nat
    /\ Structured \subseteq Commands /\ Stray \subseteq Signs
    /\ {MaxPokes, MaxOthers, MaxNoises, MaxBoots} \subseteq Nat

VARIABLES
    host,      \* the controller; secret: its profile has a password
    results,   \* command -> what its call returned or raised
    typed,     \* lines on their way to the console
    rx,        \* lines on their way to the controller
    console,   \* who reads the console of the device, and the command it runs
    ended,     \* command -> the exit codes with which the device ran it
    bounds,    \* how often the things that are bounded happened
    spoilt     \* commands one of whose lines was broken

shellVars == <<host, results, typed, rx, console, ended, bounds, spoilt>>

Kinds   == {"prompt", "login", "password", "echo", "begin", "out", "end", "badend", "noise"}
Line    == [kind : Kinds, cmd : Commands \cup {0}, n : Nat]
Keys    == [kind : {"enter", "name", "secret", "other", "command"}, cmd : Commands \cup {0}]
HostPcs == {"idle", "login", "collect", "done"}
Hows    == {"none", "ended", "timeout", "raised"}

Plain(kind) == [kind |-> kind, cmd |-> 0, n |-> 0]
Of(kind, c, n) == [kind |-> kind, cmd |-> c, n |-> n]

\* The signs a line may have. What is noise, what was typed and what is left of a broken
\* line can hold anything; of several signs the one that is looked for first counts.
Held(line) ==
    CASE line.kind = "out" -> {Lines[line.cmd][line.n]}
      [] line.kind \in {"prompt", "login", "password"} -> {{line.kind}}
      [] line.kind \in {"noise", "echo", "badend"} -> {{}} \cup {{sign} : sign \in Stray}
      [] OTHER -> {{}}

-----------------------------------------------------------------------------
(* The device *)

Emits(lines) == rx' = rx \o lines

\* getty, login and the shell read a line.
LoginReads(key) ==
    IF key.kind = "enter"
    THEN Emits(<<Plain("login")>>) /\ console' = console
    ELSE Emits(<<Plain("password")>>) /\ console' = [console EXCEPT !.state = "password"]

PasswordReads(key) ==
    IF key.kind = "secret"
    THEN Emits(<<Plain("prompt")>>) /\ console' = [console EXCEPT !.state = "shell"]
    ELSE Emits(<<Plain("login")>>)  /\ console' = [console EXCEPT !.state = "login"]

ShellReads(key) ==
    CASE key.kind = "enter" ->
           Emits(<<Plain("prompt")>>) /\ console' = console
      [] key.kind = "command" ->
           /\ Emits(<<Of("echo", key.cmd, 0), Of("begin", key.cmd, 0)>>)
           /\ console' = [state |-> "run", cmd |-> key.cmd, next |-> 1]
      [] OTHER ->
           Emits(<<Plain("noise"), Plain("prompt")>>) /\ console' = console

ConsoleReads ==
    /\ typed # <<>> /\ console.state \in {"login", "password", "shell"}
    /\ typed' = Tail(typed)
    /\ CASE console.state = "login"    -> LoginReads(Head(typed))
         [] console.state = "password" -> PasswordReads(Head(typed))
         [] console.state = "shell"    -> ShellReads(Head(typed))
    /\ UNCHANGED <<host, results, ended, bounds, spoilt>>

\* The command prints a line, ends, or reads what was typed for the shell.
CommandPrints ==
    /\ console.state = "run" /\ console.next <= Count(console.cmd)
    /\ Emits(<<Of("out", console.cmd, console.next)>>)
    /\ console' = [console EXCEPT !.next = @ + 1]
    /\ UNCHANGED <<host, results, typed, ended, bounds, spoilt>>

CommandEnds ==
    LET c == console.cmd IN
    /\ console.state = "run" /\ console.next > Count(c)
    /\ Emits(<<Of("end", c, Codes[c]), Plain("prompt")>>)
    /\ console' = [console EXCEPT !.state = "shell"]
    /\ ended' = [ended EXCEPT ![c] = Append(@, Codes[c])]
    /\ UNCHANGED <<host, results, typed, bounds, spoilt>>

CommandReads ==
    /\ console.state = "run" /\ typed # <<>>
    /\ typed' = Tail(typed)
    /\ UNCHANGED <<host, results, rx, console, ended, bounds, spoilt>>

Happens(what, limit) ==
    bounds[what] < limit /\ bounds' = [bounds EXCEPT ![what] = @ + 1]

\* The device boots: what was typed or runs is lost, and the console asks again.
Boot ==
    /\ Happens("boots", MaxBoots)
    /\ typed' = <<>>
    /\ Emits(<<Plain("noise"), Plain("login")>>)
    /\ console' = [console EXCEPT !.state = "login"]
    /\ UNCHANGED <<host, results, ended, spoilt>>

Noise ==
    /\ Happens("noises", MaxNoises)
    /\ Emits(<<Plain("noise")>>)
    /\ UNCHANGED <<host, results, typed, console, ended, spoilt>>

OtherTypes ==
    /\ Happens("others", MaxOthers)
    /\ typed' = Append(typed, [kind |-> "other", cmd |-> 0])
    /\ UNCHANGED <<host, results, rx, console, ended, spoilt>>

\* What arrives of a line that gets mixed with another, or that readline gives out
\* in two pieces because its timeout fell in the middle of it. If it begins as the
\* end of a command does it may still begin so, and a code may lose its last digit.
Broken(line) ==
    {<<Plain("noise")>>, <<Plain("noise"), Plain("noise")>>}
      \cup (IF line.kind = "end" THEN {<<Of("badend", line.cmd, 0)>>} ELSE {})
      \cup (IF line.kind = "end" /\ line.n > 9
               THEN {<<Of("end", line.cmd, line.n \div 10), Plain("noise")>>} ELSE {})

Break ==
    /\ rx # <<>>
    /\ Happens("noises", MaxNoises)
    /\ \E i \in DOMAIN rx : \E lines \in Broken(rx[i]) :
          /\ rx' = SubSeq(rx, 1, i - 1) \o lines \o SubSeq(rx, i + 1, Len(rx))
          /\ spoilt' = spoilt \cup {rx[i].cmd}
    /\ UNCHANGED <<host, results, typed, console, ended>>

-----------------------------------------------------------------------------
(* _login_with_port *)

Types(kind, c) == typed' = Append(typed, [kind |-> kind, cmd |-> c])

\* Mutant of Finish.
FinishBeyond(how, exit, output) ==
    /\ results' = [results EXCEPT ![host.cmd] = [how |-> how, exit |-> exit, output |-> output]]
    /\ host' = [host EXCEPT !.pc = IF host.cmd = Len(Lines) THEN "done" ELSE "idle",
                            !.cmd = host.cmd + 1]

Finish(how, exit, output) ==
    /\ results' = [results EXCEPT ![host.cmd] = [how |-> how, exit |-> exit, output |-> output]]
    /\ host' = [host EXCEPT !.pc = IF host.cmd = Len(Lines) THEN "done" ELSE "idle",
                            !.cmd = IF host.cmd = Len(Lines) THEN host.cmd ELSE host.cmd + 1]

Received == Head(rx)

\* Mutant of BeginLogin.
CaptureAtOnce ==
    /\ host.pc = "idle"
    /\ Types("enter", 0)
    /\ host' = [host EXCEPT !.pc = "login", !.pokes = 0, !.capture = TRUE, !.output = <<>>]
    /\ UNCHANGED <<results, rx, console, ended, bounds, spoilt>>

BeginLogin ==
    /\ host.pc = "idle"
    /\ Types("enter", 0)
    /\ host' = [host EXCEPT !.pc = "login", !.pokes = 0, !.capture = FALSE, !.output = <<>>]
    /\ UNCHANGED <<results, rx, console, ended, bounds, spoilt>>

\* A prompt, however old, or a line that holds one: the command is typed, wrapped into
\* markers of this call.
LoginSeesPrompt ==
    /\ host.pc = "login" /\ rx # <<>>
    /\ \E signs \in Held(Received) : "prompt" \in signs
    /\ rx' = Tail(rx)
    /\ Types("command", host.cmd)
    /\ host' = [host EXCEPT !.pc = "collect"]
    /\ UNCHANGED <<results, console, ended, bounds, spoilt>>

LoginIsAsked ==
    /\ host.pc = "login" /\ rx # <<>>
    /\ \E signs \in Held(Received) : "prompt" \notin signs /\ "login" \in signs
    /\ rx' = Tail(rx)
    /\ Types("name", 0)
    /\ UNCHANGED <<host, results, console, ended, bounds, spoilt>>

LoginIsAskedPassword ==
    /\ host.pc = "login" /\ rx # <<>>
    /\ \E signs \in Held(Received) :
          signs \cap {"prompt", "login"} = {} /\ "password" \in signs
    /\ rx' = Tail(rx)
    /\ IF host.secret
          THEN Types("secret", 0) /\ UNCHANGED <<host, results>>
          ELSE Finish("raised", NoCode, <<>>) /\ UNCHANGED typed
    /\ UNCHANGED <<console, ended, bounds, spoilt>>

\* Any other line is skipped.
LoginSkips ==
    /\ host.pc = "login" /\ rx # <<>>
    /\ \E signs \in Held(Received) : signs \cap {"prompt", "login", "password"} = {}
    /\ rx' = Tail(rx)
    /\ UNCHANGED <<host, results, typed, console, ended, bounds, spoilt>>

\* Two seconds after the last Enter, after a line or after none.
LoginPokes ==
    /\ host.pc = "login" /\ host.pokes < MaxPokes
    /\ Types("enter", 0)
    /\ host' = [host EXCEPT !.pokes = @ + 1]
    /\ UNCHANGED <<results, rx, console, ended, bounds, spoilt>>

\* LoginRequiredError or RuntimeError.
LoginTimesOut ==
    /\ host.pc = "login"
    /\ Finish("raised", NoCode, <<>>)
    /\ UNCHANGED <<typed, rx, console, ended, bounds, spoilt>>

-----------------------------------------------------------------------------
(* _execute_with_port *)

\* Mutant of IsBegin.
FirstLineIsBegin(line) == line.kind = "out" /\ line.cmd = host.cmd

\* The markers are new for each call, and the '' keeps the echo from looking like one.
IsBegin(line) == line.kind = "begin" /\ line.cmd = host.cmd
\* Mutant of IsEnd.
AnyEnd(line) == line.kind \in {"end", "badend"}

IsEnd(line)   == line.kind \in {"end", "badend"} /\ line.cmd = host.cmd

\* _parse_exit_code.
ExitOf(line) == IF line.kind = "end" THEN line.n ELSE NoCode

\* _should_collect_output_line: blank lines, the command itself and whatever holds a shell
\* prompt are no output.
Unwanted == {"blank", "command", "prompt"}
Collects(signs) == host.capture /\ signs \cap Unwanted = {}

\* Where the lines of a command are in an output.
Own(output) == {i \in DOMAIN output : output[i].kind = "out"}

\* Structured output is told from noise by a prefix, and if there is none of it, the
\* noise is the output. What is taken out leaves a gap: the places give the order.
Extracted(c, output) ==
    IF c \in Structured /\ Own(output) # {}
    THEN [i \in Own(output) |-> output[i]] ELSE output

CollectReads ==
    /\ host.pc = "collect" /\ rx # <<>> /\ ~IsEnd(Received)
    /\ rx' = Tail(rx)
    /\ \E signs \in Held(Received) :
          host' = [host EXCEPT
             !.capture = @ \/ IsBegin(Received),
             !.output  = IF Collects(signs) /\ ~IsBegin(Received) THEN Append(@, Received)
                                                                 ELSE @]
    /\ UNCHANGED <<results, typed, console, ended, bounds, spoilt>>

CollectEnds ==
    /\ host.pc = "collect" /\ rx # <<>> /\ IsEnd(Received)
    /\ rx' = Tail(rx)
    /\ Finish("ended", ExitOf(Received), Extracted(host.cmd, host.output))
    /\ UNCHANGED <<typed, console, ended, bounds, spoilt>>

\* Mutant of CollectTimesOut.
CollectForEver ==
    /\ host.pc = "collect"
    /\ UNCHANGED shellVars

CollectTimesOut ==
    /\ host.pc = "collect"
    /\ Finish("timeout", NoCode, Extracted(host.cmd, host.output))
    /\ UNCHANGED <<typed, rx, console, ended, bounds, spoilt>>

-----------------------------------------------------------------------------
(* The specification *)

ShellInit ==
    /\ host \in [pc : {"idle"}, cmd : {1}, pokes : {0}, capture : {FALSE}, output : {<<>>},
                 secret : BOOLEAN]
    /\ results = [c \in Commands |-> [how |-> "none", exit |-> NoCode, output |-> <<>>]]
    /\ typed = <<>> /\ rx = <<>>
    /\ console \in [state : {"login", "shell"}, cmd : {0}, next : {0}]
    /\ ended = [c \in Commands |-> <<>>]
    /\ bounds = [what \in {"boots", "noises", "others"} |-> 0]
    /\ spoilt = {}

Device ==
    \/ ConsoleReads \/ CommandPrints \/ CommandEnds \/ CommandReads
    \/ Boot \/ Noise \/ OtherTypes \/ Break

Controller ==
    \/ BeginLogin \/ LoginSeesPrompt \/ LoginIsAsked \/ LoginIsAskedPassword
    \/ LoginSkips \/ LoginPokes \/ LoginTimesOut
    \/ CollectReads \/ CollectEnds \/ CollectTimesOut

ShellNext == Device \/ Controller

\* The controller goes on, and both of its loops look at the clock in every round,
\* after at most 0.2 seconds of reading. The device owes nothing.
Fairness == WF_shellVars(Controller) /\ WF_shellVars(LoginTimesOut) /\ WF_shellVars(CollectTimesOut)

ShellSpec == ShellInit /\ [][ShellNext]_shellVars /\ Fairness

-----------------------------------------------------------------------------
(* Properties *)

\* Type invariant.
ShellTypeOK ==
    /\ host \in [pc : HostPcs, cmd : Commands, pokes : 0..MaxPokes, capture : BOOLEAN,
                 output : Seq(Line), secret : BOOLEAN]
    /\ DOMAIN results = Commands
    /\ \A c \in Commands :
          /\ results[c].how \in Hows /\ results[c].exit \in Nat \cup {NoCode}
          /\ DOMAIN results[c].output \subseteq Nat
          /\ \A i \in DOMAIN results[c].output : results[c].output[i] \in Line
    /\ typed \in Seq(Keys) /\ rx \in Seq(Line)
    /\ console \in [state : {"login", "password", "shell", "run"},
                    cmd : Commands \cup {0}, next : Nat]
    /\ ended \in [Commands -> Seq(Nat)]
    /\ spoilt \subseteq Commands \cup {0}

\* A call that saw the end of its command took it from the run of its command, the
\* only one there was: no old end, echo or boot is taken for it. It returns the
\* exit code of that run, or none or another failure if the line was broken, but
\* never success for a failure or failure for a success.
ResultIsOwn ==
    \A c \in Commands :
        /\ Len(ended[c]) <= 1
        /\ results[c].how = "ended" =>
              /\ Len(ended[c]) = 1
              /\ c \notin spoilt => results[c].exit = ended[c][1]
              /\ results[c].exit # NoCode => (results[c].exit = 0 <=> ended[c][1] = 0)

\* What an earlier command that was given up still prints is not in the output of
\* a later one; structured output with a line of its own has no noise.
OutputIsOwn ==
    \A c \in Commands :
        \A i \in DOMAIN results[c].output :
            LET line == results[c].output[i] IN
            /\ line.kind = "out" => line.cmd = c
            /\ c \in Structured /\ line.kind # "out" =>
                  \A j \in DOMAIN results[c].output : results[c].output[j].kind # "out"

\* The lines of a command that count as its output.
Kept(c) == {n \in 1..Count(c) : Lines[c][n] \cap Unwanted = {}}

\* A call that saw the end has every line the command printed, in order, unless one of its
\* lines was broken on the way; those that the controller drops by what they hold it never
\* has: blank ones, the command itself, and any that holds a shell prompt.
OutputComplete ==
    \A c \in Commands :
        results[c].how = "ended" /\ c \notin spoilt =>
            LET output == results[c].output IN
            /\ {output[i] : i \in Own(output)} = {Of("out", c, n) : n \in Kept(c)}
            /\ \A i, j \in Own(output) : i < j => output[i].n < output[j].n

\* Every call returns, whatever the device does.
CallsReturn == \A c \in Commands : <>(results[c].how # "none")
=============================================================================
