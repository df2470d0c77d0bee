-------------------------- MODULE DeployWorkflow ---------------------------
(***************************************************************************)
(* The two commands that change the device: device-pull and deploy-verify  *)
(* (cli/main.py).  A call is a process that goes through its stages once.  *)
(* Calls share the control lock of the serial port, the device's workspace *)
(* with the upload file in it, and the host's HTTP port.                   *)
(*                                                                         *)
(* A command on the device ends in one of four ways: exit code 0; another  *)
(* code, or none because its end was not seen in time; LoginRequiredError; *)
(* another exception.  In all but the first it may have done all of its    *)
(* work, a part of it, or nothing.                                         *)
(***************************************************************************)
EXTENDS Naturals, Sequences

CONSTANTS Calls,        \* command-line calls, one process each
          None,         \* no call
          Options,      \* Options[c]: the command lines c may be started with
          Chunks        \* bound: upload lines of a serial bundle

Modes == {"sd_http_helper", "http", "serial_bundle"}

AllOptions ==
    [kind     : {"pull", "verify"},
     transfer : Modes \cup {"auto"},        \* --transfer-mode
     offline  : BOOLEAN,                    \* --mode offline
     long     : Modes \cup {"user", "none", "finalize"},
                                            \* the command that exceeds max_line_bytes; finalize:
                                            \* only with the real counts, not with those it is
                                            \* planned with
     apply    : BOOLEAN,                    \* --post-pull-command given
     reboot   : BOOLEAN,                    \* --reboot-command given
     observe  : BOOLEAN]                    \* an observation time given

ASSUME NoneIsNoCall   == None \notin Calls
ASSUME OptionsBound   == Options \in [Calls -> SUBSET AllOptions]
ASSUME ChunksBound    == Chunks \in Nat \ {0}

VARIABLES
    pc,         \* the stage of each call
    opt,        \* its options
    sees,       \* transfer_probe: the modes it found usable
    chunk,      \* upload lines it has sent
    bad,        \* which of its recorded results are not exit code 0
    out,        \* status and failure_stage of its summary, and what it prints of a refusal
    control,    \* the call inside the with-block of _acquire_control_lock
    serving,    \* calls whose transient HTTP server is up
    caps,       \* the modes the device can really use
    ws,         \* the workspace: whose files came last, and all of them?
    b64,        \* the upload file: whose lines it consists of
    sent,       \* history: what each call has sent to the device
    used        \* history: the workspace its post-pull commands worked on

local  == <<opt, sees, chunk, bad>>
device == <<ws, b64>>
vars   == <<pc, local, out, control, serving, caps, device, sent, used>>

PCs == {"idle", "build", "control", "checks", "probe", "serve", "http", "helper", "fallback",
        "prepare", "chunks", "finalize", "list", "apply", "reboot", "validate",
        "observe", "capture", "verdict", "done"}

Workspaces == [by : Calls \cup {None}, whole : BOOLEAN]
Files(c)   == [by |-> c, whole |-> TRUE]

Statuses == {"none", "refused", "blocked", "failed", "manual", "completed"}
Stages   == {"none", "prepare_transport", "validate_command", "establish_control",
             "validate_connectivity", "transfer_artifacts", "validate_transfer", "deploy",
             "observe_serial", "validation", "build", "prepare_artifact", "manual_upgrade"}

\* What a call that is refused says has gone to the device: nothing, only the
\* checks before the transfer, or a part of the upload.
Sayings  == {"none", "nothing", "checks", "partial"}
Outcomes == [status : Statuses, stage : Stages, says : Sayings]

Results  == {"checks", "pull", "list", "validation"}
Kinds    == {"check", "transfer", "apply", "reboot"}

TypeOK ==
    /\ pc \in [Calls -> PCs]
    /\ opt \in [Calls -> AllOptions]
    /\ sees \in [Calls -> SUBSET Modes]
    /\ chunk \in [Calls -> 0..Chunks]
    /\ bad \in [Calls -> SUBSET Results]
    /\ out \in [Calls -> Outcomes]
    /\ control \in Calls \cup {None}
    /\ serving \subseteq Calls
    /\ caps \subseteq Modes
    /\ ws \in Workspaces
    /\ b64 \in Seq(Calls)
    /\ sent \in [Calls -> SUBSET Kinds]
    /\ used \in [Calls -> Workspaces]

Init ==
    /\ pc = [c \in Calls |-> "idle"]
    /\ opt \in {o \in [Calls -> UNION {Options[c] : c \in Calls}] : \A c \in Calls : o[c] \in Options[c]}
    /\ sees = [c \in Calls |-> {}]
    /\ chunk = [c \in Calls |-> 0]
    /\ bad = [c \in Calls |-> {}]
    /\ out = [c \in Calls |-> [status |-> "none", stage |-> "none", says |-> "none"]]
    /\ control = None
    /\ serving = {}
    /\ caps \in SUBSET Modes
    /\ ws = Files(None)
    /\ b64 = <<>>
    /\ sent = [c \in Calls |-> {}]
    /\ used = [c \in Calls |-> Files(None)]

PortControl == INSTANCE Mutex WITH Procs <- Calls, holder <- control

----------------------------------------------------------------------------
Goto(c, from, to) == pc[c] = from /\ pc' = [pc EXCEPT ![c] = to]

\* The stages in which a call waits for a command on the device.
TransferPCs == {"http", "helper", "fallback", "prepare", "chunks", "finalize"}
CommandPCs  == {"checks", "probe", "list", "apply", "reboot", "validate"} \cup TransferPCs

\* What a command of this stage is, for the history.
SentAt(stage) == IF stage \in TransferPCs THEN {"transfer"}
                 ELSE IF stage \in {"apply", "reboot"} THEN {stage}
                 ELSE IF stage \in CommandPCs THEN {"check"}
                 ELSE {}

Sends(c) == sent' = [sent EXCEPT ![c] = @ \cup SentAt(pc[c])]

\* Mutant of StageOf: device_pull_stage is set after the post-pull commands.
StageOfLate(c) ==
    IF opt[c].kind = "verify" THEN "deploy"
    ELSE IF pc[c] = "list" THEN "validate_transfer"
    ELSE IF pc[c] \in {"reboot", "validate"} THEN "deploy"
    ELSE IF pc[c] \in {"observe", "capture"} THEN "observe_serial"
    ELSE "transfer_artifacts"

\* The names an exception is reported under: device_pull_stage of a pull; a
\* verify has one for all that follows the build.
StageOf(c) ==
    IF opt[c].kind = "verify" THEN "deploy"
    ELSE IF pc[c] = "list" THEN "validate_transfer"
    ELSE IF pc[c] \in {"apply", "reboot", "validate"} THEN "deploy"
    ELSE IF pc[c] \in {"observe", "capture"} THEN "observe_serial"
    ELSE "transfer_artifacts"

\* The call returns: what it held is released by with and finally, the
\* summary is written.
EndsSaying(c, status, stage, says) ==
    /\ pc' = [pc EXCEPT ![c] = "done"]
    /\ out' = [out EXCEPT ![c] = [status |-> status, stage |-> stage, says |-> says]]
    /\ control' = IF control = c THEN None ELSE control
    /\ serving' = serving \ {c}
    /\ UNCHANGED <<local, caps>>

Ends(c, status, stage) == EndsSaying(c, status, stage, "none")
Refused(c, says)       == EndsSaying(c, "refused", "validate_command", says)

\* The post-pull commands work on what is in the workspace.
Uses(c) == used' = IF pc[c] = "apply" THEN [used EXCEPT ![c] = ws] ELSE used

\* What a transfer command without a good end may leave behind.
Unfinished(c) ==
    \/ UNCHANGED device
    \/ /\ pc[c] \in {"http", "helper", "fallback"}
       /\ ws' \in {[by |-> c, whole |-> w] : w \in BOOLEAN}
       /\ UNCHANGED b64
    \/ pc[c] = "prepare" /\ b64' = <<>> /\ UNCHANGED ws
    \/ pc[c] = "chunks" /\ b64' = Append(b64, c) /\ UNCHANGED ws
    \/ pc[c] = "finalize" /\ ws' = [by |-> c, whole |-> FALSE] /\ UNCHANGED b64

----------------------------------------------------------------------------
\* The finalize command is planned for one upload line; with the real numbers
\* it may be too long, which shows when all lines have been sent.
TooLongNow(c) == pc[c] = "finalize" /\ opt[c].long = "finalize"

\* A command raises LoginRequiredError before it is typed, or another
\* exception; so does a workflow whose upload line, post-pull or reboot
\* command does not return 0.
Raises(c) ==
    /\ pc[c] \in CommandPCs /\ ~TooLongNow(c)
    /\ \/ Ends(c, "blocked", "establish_control") /\ UNCHANGED <<device, sent, used>>
       \/ Ends(c, "failed", StageOf(c)) /\ Unfinished(c) /\ Sends(c) /\ Uses(c)

\* The process is killed.  The next call finds a stale lock (PidLock).
Killed(c) ==
    /\ pc[c] \notin {"idle", "done"}
    /\ pc' = [pc EXCEPT ![c] = "done"]
    /\ control' = IF control = c THEN None ELSE control
    /\ serving' = serving \ {c}
    /\ IF TooLongNow(c)
       THEN UNCHANGED <<device, sent, used>>
       ELSE Unfinished(c) /\ Sends(c) /\ Uses(c)
    /\ UNCHANGED <<local, out, caps>>

----------------------------------------------------------------------------
\* The modes _select_transfer_mode may choose from.
Allowed(o) == IF o.transfer # "auto" THEN {o.transfer}
              ELSE IF o.offline THEN {"serial_bundle"}
              ELSE Modes

\* The mode of the transfer does not depend on the probe.
KnownUpFront(o) == o.transfer # "auto" \/ o.offline

\* Mutant of Planned: the transfer commands are not checked up front.
PlannedByUser(o) == {"user"}

\* The commands whose length is checked before the first one is sent: those
\* of the user, and those of the transfer when its mode is already known.
Planned(o) ==
    {"user"} \cup (IF o.kind = "pull" /\ KnownUpFront(o)
                   THEN Allowed(o)
                   ELSE {})

OnHost(c) == UNCHANGED <<device, sent, used>>

Unavailable(o) == o.kind = "pull" /\ o.offline /\ o.transfer \in {"http", "sd_http_helper"}

PullUnavailable(c) ==
    /\ pc[c] = "idle"
    /\ Unavailable(opt[c])
    /\ Ends(c, "blocked", "prepare_transport")
    /\ OnHost(c)

\* No bootstrap command, no connectivity check or no directory to serve.
PullMisconfigured(c) ==
    /\ pc[c] = "idle"
    /\ opt[c].kind = "pull" /\ ~Unavailable(opt[c])
    /\ Ends(c, "failed", "prepare_transport")
    /\ OnHost(c)

Refuse(c) ==
    /\ pc[c] = "idle"
    /\ opt[c].long \in Planned(opt[c]) /\ ~Unavailable(opt[c])
    /\ Refused(c, "nothing")
    /\ OnHost(c)

Begin(c) ==
    /\ opt[c].long \notin Planned(opt[c]) /\ ~Unavailable(opt[c])
    /\ Goto(c, "idle", IF opt[c].kind = "pull" THEN "control" ELSE "build")
    /\ UNCHANGED <<local, out, control, serving, caps>>
    /\ OnHost(c)

\* deploy-verify: the build returns an error or no artifact, runs into its
\* time-out (which is reported as "deploy"), or nothing says how to apply it.
BuildEnds(c) ==
    /\ pc[c] = "build"
    /\ \/ \E stage \in {"build", "prepare_artifact", "deploy"} : Ends(c, "failed", stage)
       \/ ~opt[c].apply /\ ~opt[c].reboot /\ Ends(c, "manual", "manual_upgrade")
    /\ OnHost(c)

\* What follows the commands on the device.
Afterwards(c) == IF opt[c].observe THEN "observe" ELSE "verdict"

\* A verify without any command for the device opens no control session.
Build(c) ==
    /\ \/ Goto(c, "build", "control")
       \/ ~opt[c].apply /\ ~opt[c].reboot /\ Goto(c, "build", Afterwards(c))
    /\ UNCHANGED <<local, out, control, serving, caps>>
    /\ OnHost(c)

----------------------------------------------------------------------------
\* The commands after the transfer.
AfterList(c)  == IF opt[c].apply THEN "apply" ELSE IF opt[c].reboot THEN "reboot" ELSE "validate"
AfterApply(c) == IF opt[c].reboot THEN "reboot" ELSE "validate"

\* open_serial_port gets the control lock: for the commands, and once more in
\* SerialObserver.capture, which is given no open port.
Open(c) ==
    /\ \/ Goto(c, "control", IF opt[c].kind = "pull" THEN "checks" ELSE AfterList(c))
       \/ Goto(c, "observe", "capture")
    /\ PortControl!Take(c)
    /\ UNCHANGED <<local, out, serving, caps>>
    /\ OnHost(c)

\* Mutant of LockWaitEnds: no deadline for a lock of this very process.
LockWaitEndsForOthers(c) ==
    /\ pc[c] \in {"control", "observe"}
    /\ control \notin {None, c}
    /\ Ends(c, "failed", StageOf(c))
    /\ OnHost(c)

\* It is held for the 20 seconds of _CONTROL_LOCK_WAIT_SECONDS.
LockWaitEnds(c) ==
    /\ pc[c] \in {"control", "observe"}
    /\ control # None
    /\ Ends(c, "failed", StageOf(c))
    /\ OnHost(c)

\* Anything else that opening or reading the port can raise.
PortFails(c) ==
    /\ pc[c] \in {"control", "observe", "capture"}
    /\ Ends(c, "failed", StageOf(c))
    /\ OnHost(c)

\* The results of this stage are recorded under key, well or badly.
Records(c, key) ==
    /\ bad' \in {bad, [bad EXCEPT ![c] = @ \cup {key}]}
    /\ UNCHANGED <<opt, sees, chunk>>

Checks(c) ==
    /\ Goto(c, "checks", "probe")
    /\ Records(c, "checks")
    /\ Sends(c)
    /\ UNCHANGED <<out, control, serving, caps, device, used>>

\* Its preference among those that the probe found.
Best(found) == IF "sd_http_helper" \in found THEN "sd_http_helper"
               ELSE IF "http" \in found THEN "http"
               ELSE IF "serial_bundle" \in found THEN "serial_bundle"
               ELSE "none"
Choice(o, found) == Best(found \cap Allowed(o))

\* The probe's answer may not come in time: then nothing is known to be usable.
Probe(c) ==
    \E found \in {caps, {}} :
        LET mode == Choice(opt[c], found) IN
        /\ mode \in Modes /\ mode # opt[c].long
        /\ Goto(c, "probe", IF mode = "serial_bundle" THEN "prepare" ELSE "serve")
        /\ sees' = [sees EXCEPT ![c] = found]
        /\ Sends(c)
        /\ UNCHANGED <<opt, chunk, bad, out, control, serving, caps, device, used>>

\* No mode is usable, or the command of the chosen one is too long.
ProbeEnds(c) ==
    /\ pc[c] = "probe"
    /\ \E found \in {caps, {}} :
          LET mode == Choice(opt[c], found) IN
          \/ mode \notin Modes /\ Ends(c, "failed", StageOf(c))
          \/ mode \in Modes /\ mode = opt[c].long /\ Refused(c, "checks")
    /\ Sends(c)
    /\ UNCHANGED <<device, used>>

----------------------------------------------------------------------------
\* The transfer.  serve_directory starts the server; the directory cannot be
\* written or the port is taken: the call fails.
Serve(c) ==
    /\ Goto(c, "serve", IF Choice(opt[c], sees[c]) = "http" THEN "http" ELSE "helper")
    /\ serving' = serving \cup {c}
    /\ UNCHANGED <<local, out, control, caps>>
    /\ OnHost(c)

ServeFails(c) ==
    /\ pc[c] = "serve"
    /\ Ends(c, "failed", StageOf(c))
    /\ OnHost(c)

\* The helper failed and the device has a downloader: the server stays up for it.
FallsBack(c) ==
    /\ pc[c] = "helper"
    /\ opt[c].transfer = "auto" /\ "http" \in sees[c] /\ opt[c].long # "http"

HelperFallsBack(c) ==
    /\ FallsBack(c)
    /\ Goto(c, "helper", "fallback")
    /\ Unfinished(c) /\ Sends(c)
    /\ UNCHANGED <<local, out, control, serving, caps, used>>

\* The device has pulled, or has not; either way the server is closed.
Pulled(c) ==
    /\ \E stage \in {"http", "helper", "fallback"} : Goto(c, stage, "list")
    /\ serving' = serving \ {c}
    /\ ws' = Files(c)
    /\ Sends(c)
    /\ UNCHANGED <<local, out, control, caps, b64, used>>

\* The with-block is left unless the call goes on to observe inside of it.
LeavesPort(c) ==
    control' = IF opt[c].kind = "pull" /\ opt[c].observe THEN control ELSE None

\* Mutant of TransferFails: the server is kept for a fallback that is refused.
TransferFailsServing(c) ==
    /\ pc[c] \in {"http", "helper", "fallback", "prepare", "finalize"}
    /\ ~FallsBack(c) /\ ~TooLongNow(c)
    /\ pc' = [pc EXCEPT ![c] = Afterwards(c)]
    /\ bad' = [bad EXCEPT ![c] = @ \cup {"pull"}]
    /\ serving' = IF pc[c] = "helper" /\ opt[c].transfer = "auto" THEN serving ELSE serving \ {c}
    /\ LeavesPort(c)
    /\ Unfinished(c) /\ Sends(c)
    /\ UNCHANGED <<opt, sees, chunk, out, caps, used>>

\* The transfer has not returned 0: nothing is listed, deployed or validated.
TransferFails(c) ==
    /\ pc[c] \in {"http", "helper", "fallback", "prepare", "finalize"}
    /\ ~FallsBack(c) /\ ~TooLongNow(c)
    /\ pc' = [pc EXCEPT ![c] = Afterwards(c)]
    /\ bad' = [bad EXCEPT ![c] = @ \cup {"pull"}]
    /\ serving' = serving \ {c}
    /\ LeavesPort(c)
    /\ Unfinished(c) /\ Sends(c)
    /\ UNCHANGED <<opt, sees, chunk, out, caps, used>>

\* Mutant of Prepare: the upload file is not emptied.
PrepareAppends(c) ==
    /\ Goto(c, "prepare", "chunks")
    /\ Sends(c)
    /\ UNCHANGED <<local, out, control, serving, caps, device, used>>

Prepare(c) ==
    /\ Goto(c, "prepare", "chunks")
    /\ b64' = <<>>
    /\ Sends(c)
    /\ UNCHANGED <<local, out, control, serving, caps, ws, used>>

Upload(c) ==
    /\ Goto(c, "chunks", IF chunk[c] + 1 = Chunks THEN "finalize" ELSE "chunks")
    /\ chunk' = [chunk EXCEPT ![c] = @ + 1]
    /\ b64' = Append(b64, c)
    /\ Sends(c)
    /\ UNCHANGED <<opt, sees, bad, out, control, serving, caps, ws, used>>

\* base64 -d and tar, whatever the upload file consists of.
Finalize(c) ==
    /\ ~TooLongNow(c)
    /\ Goto(c, "finalize", "list")
    /\ ws' = [by |-> c, whole |-> b64 = [i \in 1..Chunks |-> c]]
    /\ b64' = <<>>
    /\ Sends(c)
    /\ UNCHANGED <<local, out, control, serving, caps, used>>

FinalizeRefused(c) ==
    /\ TooLongNow(c)
    /\ Refused(c, "partial")
    /\ OnHost(c)

----------------------------------------------------------------------------
\* A listing that fails is recorded and does not keep the call from deploying.
List(c) ==
    /\ Goto(c, "list", AfterList(c))
    /\ Records(c, "list")
    /\ Sends(c)
    /\ UNCHANGED <<out, control, serving, caps, device, used>>

Apply(c) ==
    /\ Goto(c, "apply", AfterApply(c))
    /\ Sends(c) /\ Uses(c)
    /\ UNCHANGED <<local, out, control, serving, caps, device>>

Reboot(c) ==
    /\ Goto(c, "reboot", "validate")
    /\ Sends(c)
    /\ UNCHANGED <<local, out, control, serving, caps, device, used>>

Validate(c) ==
    /\ Goto(c, "validate", Afterwards(c))
    /\ Records(c, "validation")
    /\ LeavesPort(c)
    /\ Sends(c)
    /\ UNCHANGED <<out, serving, caps, device, used>>

Capture(c) ==
    /\ Goto(c, "capture", "verdict")
    /\ Records(c, "validation")
    /\ PortControl!Drop(c)
    /\ UNCHANGED <<out, serving, caps>>
    /\ OnHost(c)

\* failure_stage names the first of these that is bad.
PullStage(c) ==
    IF "checks" \in bad[c] THEN "validate_connectivity"
    ELSE IF "pull" \in bad[c] THEN "transfer_artifacts"
    ELSE IF "list" \in bad[c] THEN "validate_transfer"
    ELSE IF "validation" \in bad[c] THEN "validation"
    ELSE "none"

PullVerdict(c) ==
    /\ pc[c] = "verdict" /\ opt[c].kind = "pull"
    /\ Ends(c, IF bad[c] = {} THEN "completed" ELSE "failed", PullStage(c))
    /\ OnHost(c)

\* Without criteria a verify leaves the judgement to the user.
VerifyVerdict(c) ==
    /\ pc[c] = "verdict" /\ opt[c].kind = "verify"
    /\ IF bad[c] = {}
       THEN Ends(c, "completed", "none") \/ Ends(c, "manual", "validation")
       ELSE Ends(c, "failed", "validation")
    /\ OnHost(c)

----------------------------------------------------------------------------
\* The steps that carry a call on when nothing fails but what it waits for.
Goes(c) ==
    \/ PullUnavailable(c) \/ Refuse(c) \/ Begin(c) \/ Build(c)
    \/ Open(c) \/ LockWaitEnds(c)
    \/ Checks(c) \/ Probe(c) \/ ProbeEnds(c)
    \/ Serve(c) \/ HelperFallsBack(c) \/ Pulled(c)
    \/ Prepare(c) \/ Upload(c) \/ Finalize(c) \/ FinalizeRefused(c)
    \/ List(c) \/ Apply(c) \/ Reboot(c) \/ Validate(c)
    \/ Capture(c) \/ PullVerdict(c) \/ VerifyVerdict(c)

Fails(c) ==
    \/ PullMisconfigured(c) \/ BuildEnds(c) \/ PortFails(c) \/ ServeFails(c)
    \/ TransferFails(c) \/ Raises(c) \/ Killed(c)

Next == \E c \in Calls : Goes(c) \/ Fails(c)

Spec == Init /\ [][Next]_vars

\* A process that has been started runs on.
FairSpec == Spec /\ \A c \in Calls : WF_vars(pc[c] # "idle" /\ Goes(c))

----------------------------------------------------------------------------
\* The transient HTTP server is up only while the device pulls: it is closed
\* before anything else is sent, on every way out of the transfer.
ServesOnlyPulls == \A c \in serving : pc[c] \in {"http", "helper", "fallback"}

\* What the message of a refusal admits to have sent.
Admitted(says) == IF says = "partial" THEN {"check", "transfer"}
                  ELSE IF says = "checks" THEN {"check"}
                  ELSE {}

\* What a refusal says is true.  "Nothing was sent to the device": nothing was.
\* "Stopped before the transfer": only checks were, and only because the mode
\* was left to the probe.  "A partial upload may be left": nothing but checks
\* and upload lines.  The workspace is untouched each time.
RefusedIsUntouched ==
    \A c \in Calls : out[c].status = "refused" =>
        /\ sent[c] \subseteq Admitted(out[c].says)
        /\ out[c].says = "checks" => ~KnownUpFront(opt[c])
        /\ ws.by # c

\* What a pull applies is what it has transferred, complete, whatever other
\* calls and killed ones have left in the workspace and in the upload file.
AppliesOwnFiles ==
    \A c \in Calls : opt[c].kind = "pull" =>
        /\ "apply" \in sent[c] => used[c] = Files(c)
        /\ out[c].status = "completed" /\ opt[c].apply => used[c] = Files(c)

\* A call that reports a failed transfer has neither applied nor rebooted
\* anything and may be repeated.
TransferFailureIsClean ==
    \A c \in Calls : out[c].stage = "transfer_artifacts" =>
                         sent[c] \cap {"apply", "reboot"} = {}

\* A call never waits for a control lock that it holds itself.
WaitsForOthers == \A c \in Calls : pc[c] \in {"control", "observe"} => control # c

\* Every call returns, also when another one does not give the port back.
CallEnds == \A c \in Calls : pc[c] # "idle" ~> pc[c] = "done"
=============================================================================
