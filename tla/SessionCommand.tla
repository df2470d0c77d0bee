------------------------- MODULE SessionCommand -------------------------
(***************************************************************************)
(* One session of auto-debug: a command that works on the device and keeps *)
(* its verdict in summary.json, and record-intervention processes that     *)
(* change the same file while it runs or afterwards.                       *)
(*                                                                         *)
(* Source: cli/main.py (_command_run, _command_stage_sd,                   *)
(* _command_bootstrap_network, _command_health, _command_observe,          *)
(* _command_exec, _command_fetch_file, _command_fetch_path,                *)
(* _command_collect_evidence, _command_record_intervention),               *)
(* evidence/collector.py, workflows/evaluation.py, session/contract.py.    *)
(*                                                                         *)
(* The status strings lose their prefix ("run_blocked" is "blocked"), what *)
(* a shell command prints is reduced to the verdict it leads to, and the   *)
(* report, the manifest and the event log, which nobody reads back, are    *)
(* left out.                                                               *)
(***************************************************************************)
EXTENDS Naturals, FiniteSets

CONSTANTS
    Kinds,        \* the commands of this instance
    Recorders,    \* record-intervention processes, one record each
    MaxCrashes    \* processes that may be killed

AllKinds == {"run", "stage-sd", "bootstrap-network", "health", "observe",
             "exec", "fetch-file", "fetch-path", "collect-evidence"}

ASSUME KindsAssumption == Kinds \subseteq AllKinds
ASSUME BoundAssumption == MaxCrashes \in Nat

VARIABLES
    cmd,          \* the process of the command
    summary,      \* summary.json
    appended,     \* the recorders whose line is in interventions.jsonl
    erased,       \* history: those whose line the bootstrap has erased
    rec,          \* the recorders
    overlap,      \* one process began to update while another was updating
    crashes

lines == <<appended, erased>>
vars  == <<cmd, summary, lines, rec, overlap, crashes>>

Tasks     == {"precheck", "deploying", "waiting_boot", "establishing_control",
              "running_checks", "collecting_evidence", "completed", "failed"}
Statuses  == {"planned", "refused", "blocked", "failed", "partial", "completed"}
Decisions == {"pending", "continue", "blocked", "success"}
Stages    == {"none", "validate_command", "prepare_transport", "observe_serial",
              "establish_control", "baseline_checks", "collect_evidence",
              "validation", "run_bootstrap_commands", "validate_connectivity",
              "deploy_artifacts", "running_checks", "execute_command", "fetch"}
Parts     == {"observe", "app", "storage", "evidence", "validation", "connect",
              "stage", "command", "fetch"}
Outcomes  == {"none", "ok", "warn", "bad"}
Pcs       == {"idle", "bootstrap", "clear", "planned", "enter", "work", "observe", "open", "baseline",
              "enter_evidence", "collect", "validate", "finish", "read", "truncate",
              "fill", "raise", "reread", "returned", "crashed"}
RecPcs    == {"idle", "append", "read", "truncate", "fill", "check", "done",
              "failed", "crashed"}

\* "same" in a patch is a key the patch does not have.
Patches  == [status : Statuses \cup {"same"}, decision : Decisions \cup {"same"},
             stage : Stages \cup {"same"}, task : Tasks \cup {"same"}]
Contents == [status : Statuses, decision : Decisions, stage : Stages,
             task : Tasks, count : Nat]

\* A file that write_text has emptied and not filled yet: json.loads raises.
Torn    == [torn |-> TRUE]
NoFile  == [torn |-> FALSE]
NoPatch == [status |-> "same", decision |-> "same", stage |-> "same", task |-> "same"]

Updating(pc) == pc \in {"truncate", "fill"}

\* The state every command starts with.
FirstTask ==
    [k \in AllKinds |->
        IF k = "run" THEN "precheck"
        ELSE IF k = "stage-sd" THEN "deploying"
        ELSE IF k = "observe" THEN "waiting_boot"
        ELSE "establishing_control"]

\* EvidenceCollector.bootstrap: the summary of a session nothing has happened in.
Bootstrap(task) ==
    [status |-> "planned", decision |-> "pending", stage |-> "none",
     task |-> task, count |-> 0]

\* Mutant of Patched.
PatchedShallow(s, p) == [s EXCEPT !.status = IF p.status = "same" THEN @ ELSE p.status]

\* What dict.update makes of the file's content.
Patched(s, p) ==
    [status   |-> IF p.status = "same" THEN s.status ELSE p.status,
     decision |-> IF p.decision = "same" THEN s.decision ELSE p.decision,
     stage    |-> IF p.stage = "same" THEN s.stage ELSE p.stage,
     task     |-> IF p.task = "same" THEN s.task ELSE p.task,
     count    |-> s.count]

\* Mutant of Counted.
CountedOnlyLatest(s) == s

\* append_intervention counts the record in the content it has read.
Counted(s) == [s EXCEPT !.count = @ + 1]

-----------------------------------------------------------------------------
(* Verdicts *)

\* _finalize_evaluation
Verdict(errors, warnings) ==
    IF errors THEN "fail" ELSE IF warnings THEN "partial_pass" ELSE "pass"

\* evaluate_startup_run: "warn" of the observation is a silent window, "bad" a
\* fatal marker; "app" stands for the version and the process, "storage" for
\* the mount and the listing.
StartupVerdict(res) ==
    Verdict(res["app"] # "ok" \/ res["observe"] = "bad",
            res["storage"] # "ok" \/ res["observe"] = "warn")

\* evaluate_health_checks: storage is an error here, and "warn" is what dmesg
\* says of a card that otherwise works.
HealthVerdict(res) ==
    Verdict(res["app"] # "ok" \/ res["storage"] = "bad", res["storage"] = "warn")

\* Mutant of EvidenceFailed.
EvidenceFailedIfSkipped(c) == c.skip /\ c.res["evidence"] # "ok"

\* The parts of the run that decide, evidence and validation only if asked for.
EvidenceFailed(c)   == ~c.skip /\ c.res["evidence"] # "ok"

ValidationFailed(c) == c.spec /\ c.res["validation"] # "ok"

\* The conditions under which each command writes decision = "success".
Succeeds(c) ==
    \/ /\ c.kind = "run"
       /\ StartupVerdict(c.res) = "pass" /\ ~EvidenceFailed(c) /\ ~ValidationFailed(c)
    \/ c.kind = "stage-sd" /\ c.res["stage"] = "ok"
    \/ c.kind = "bootstrap-network" /\ c.res["connect"] = "ok"
    \/ c.kind = "health" /\ HealthVerdict(c.res) = "pass"
    \/ c.kind = "observe" /\ c.res["observe"] = "ok"
    \/ c.kind = "exec" /\ c.res["command"] = "ok"
    \/ c.kind \in {"fetch-file", "fetch-path"} /\ c.res["fetch"] = "ok"
    \/ c.kind = "collect-evidence" /\ c.res["evidence"] = "ok"

-----------------------------------------------------------------------------
(* EvidenceCollector.update_summary, in the steps another process can see *)

\* The call: the patch, where the command goes on, and whether an exception of
\* the update ends in the command's own handler.
Save(p, next, guarded) ==
    [cmd EXCEPT !.pc = "read", !.patch = p, !.then = next, !.guarded = guarded]

\* The last update of a command, and the code it returns.
Conclude(c, p, code) ==
    [c EXCEPT !.pc = "read", !.patch = p, !.then = "returned", !.guarded = FALSE,
              !.rc = code]

\* From the work of a command on, its controller has written to the device, or may have.
Sent(c) == [c EXCEPT !.sent = cmd.sent \/ cmd.pc = "work"]

State(task) == [NoPatch EXCEPT !.task = task]

Result(status, decision, stage) ==
    [status |-> status, decision |-> decision, stage |-> stage, task |-> "same"]

OthersUpdate == \E r \in Recorders : Updating(rec[r].pc)

\* json.loads(summary_path.read_text()) and the patch.
ReadSummary ==
    /\ cmd.pc = "read"
    /\ summary # Torn
    /\ cmd' = [cmd EXCEPT !.pc = "truncate", !.copy = Patched(summary, cmd.patch)]
    /\ overlap' = (overlap \/ OthersUpdate)
    /\ UNCHANGED <<summary, lines, rec, crashes>>

\* The file is empty: json raises, which inside the try goes to the handler and
\* elsewhere ends in the parser's error of main, code 2.
ReadTorn ==
    /\ cmd.pc = "read"
    /\ summary = Torn
    /\ cmd' = IF cmd.guarded
                 THEN [cmd EXCEPT !.pc = "raise"]
                 ELSE [cmd EXCEPT !.pc = "returned", !.rc = 2]
    /\ overlap' = (overlap \/ OthersUpdate)
    /\ UNCHANGED <<summary, lines, rec, crashes>>

\* write_text opens the file for writing, which empties it ...
TruncateSummary ==
    /\ cmd.pc = "truncate"
    /\ cmd' = [cmd EXCEPT !.pc = "fill"]
    /\ summary' = Torn
    /\ UNCHANGED <<lines, rec, overlap, crashes>>

\* ... and fills it.
FillSummary ==
    /\ cmd.pc = "fill"
    /\ cmd' = [cmd EXCEPT !.pc = cmd.then, !.copy = NoFile]
    /\ summary' = cmd.copy
    /\ UNCHANGED <<lines, rec, overlap, crashes>>

UpdateSummary == ReadSummary \/ ReadTorn \/ TruncateSummary \/ FillSummary

OnlyCmd == UNCHANGED <<summary, lines, rec, overlap, crashes>>

-----------------------------------------------------------------------------
(* The beginning of a command *)

\* The session is created, and EvidenceCollector.bootstrap opens its summary for
\* writing, which leaves an empty file first; skip is skip_evidence, spec says that
\* the request has validation criteria, long that one of the user's commands is
\* longer than the device shell takes.
Begin(k, skip, spec, long) ==
    /\ cmd.pc = "idle"
    /\ cmd' = [cmd EXCEPT !.pc = "bootstrap", !.kind = k, !.skip = skip, !.spec = spec,
                           !.long = long, !.task = FirstTask[k]]
    /\ summary' = Torn
    /\ UNCHANGED <<lines, rec, overlap, crashes>>

\* From here on the session can be read, and recorders find it.
BootstrapFill ==
    /\ cmd.pc = "bootstrap"
    /\ cmd' = [cmd EXCEPT !.pc = "clear"]
    /\ summary' = Bootstrap(cmd.task)
    /\ UNCHANGED <<lines, rec, overlap, crashes>>

\* The last of the other files that it writes is interventions.jsonl, empty.
BootstrapClear ==
    /\ cmd.pc = "clear"
    /\ cmd' = [cmd EXCEPT !.pc = "planned"]
    /\ appended' = {}
    /\ erased' = erased \cup appended
    /\ UNCHANGED <<summary, rec, overlap, crashes>>

\* stage-sd without a configured drive returns before it has a session.
NoDrive ==
    /\ cmd.pc = "idle"
    /\ "stage-sd" \in Kinds
    /\ cmd' = [cmd EXCEPT !.pc = "returned", !.kind = "stage-sd", !.rc = 1]
    /\ OnlyCmd

\* Mutant of ReportRefused.
ReportRefusedUndecided(c) ==
    Conclude(c, Result("refused", "none", "validate_command"), 1)

\* _report_refused_command
ReportRefused(c) == Conclude(c, Result("refused", "continue", "validate_command"), 1)

\* run, collect-evidence and bootstrap-network check every command of the user
\* before they send the first one.
RefusePlanned ==
    /\ cmd.pc = "planned"
    /\ cmd.kind \in {"run", "collect-evidence", "bootstrap-network"}
    /\ cmd.long
    /\ cmd' = ReportRefused(cmd)
    /\ OnlyCmd

\* bootstrap-network in offline mode.
BootstrapOffline ==
    /\ cmd.pc = "planned"
    /\ cmd.kind = "bootstrap-network"
    /\ cmd' = Conclude(cmd, [Result("blocked", "blocked", "prepare_transport")
                                EXCEPT !.task = cmd.task], 1)
    /\ OnlyCmd

\* wlan_script without commands, or no connectivity check.
BootstrapIncomplete ==
    /\ cmd.pc = "planned"
    /\ cmd.kind = "bootstrap-network"
    /\ cmd' = Conclude(cmd, [Result("failed", "continue", "prepare_transport")
                                EXCEPT !.task = cmd.task], 1)
    /\ OnlyCmd

\* Mutant of StartRun.
StartRunUnchecked ==
    /\ cmd.pc = "planned" /\ cmd.kind = "run"
    /\ cmd' = [Save(State("waiting_boot"), "observe", FALSE) EXCEPT !.task = "waiting_boot"]
    /\ OnlyCmd

\* run goes on to the observation window.
StartRun ==
    /\ cmd.pc = "planned" /\ cmd.kind = "run" /\ ~cmd.long
    /\ cmd' = [Save(State("waiting_boot"), "observe", FALSE) EXCEPT !.task = "waiting_boot"]
    /\ OnlyCmd

\* health saves its first state outside the try.
StartHealth ==
    /\ cmd.pc = "planned" /\ cmd.kind = "health"
    /\ cmd' = Save(State(cmd.task), "enter", FALSE)
    /\ OnlyCmd

\* The first lines of the try of health, collect-evidence and bootstrap-network.
EnterTry ==
    /\ \/ cmd.pc = "enter"
       \/ cmd.pc = "planned" /\ ~cmd.long
          /\ cmd.kind \in {"collect-evidence", "bootstrap-network"}
    /\ cmd' = [Save(State("running_checks"), "work", TRUE) EXCEPT !.task = "running_checks"]
    /\ OnlyCmd

\* The other commands have nothing to check or to save first.
StartPlain ==
    /\ cmd.pc = "planned"
    /\ cmd.kind \in {"stage-sd", "observe", "exec", "fetch-file", "fetch-path"}
    /\ cmd' = [cmd EXCEPT !.pc = "work"]
    /\ OnlyCmd

-----------------------------------------------------------------------------
(* run *)

\* The window ends: lines without a fatal marker, a fatal marker, or silence.
RunObserved(outcome) ==
    /\ cmd.pc = "observe"
    /\ cmd' = [Save(State("running_checks"), "open", FALSE)
                  EXCEPT !.task = "running_checks", !.res["observe"] = outcome]
    /\ OnlyCmd

RunObserveFails ==
    /\ cmd.pc = "observe"
    /\ cmd' = Conclude(cmd, [Result("failed", "continue", "observe_serial")
                                EXCEPT !.task = cmd.task], 1)
    /\ OnlyCmd

\* The port is open: the device state is saved inside the try.
RunOpens ==
    /\ cmd.pc = "open"
    /\ cmd' = [Save(State(cmd.task), "baseline", TRUE) EXCEPT !.sent = TRUE]
    /\ OnlyCmd

\* The four baseline checks ran, and the evaluation is saved.
RunBaseline(app, storage) ==
    /\ cmd.pc = "baseline"
    /\ cmd' = [Save(State(cmd.task), IF cmd.skip THEN "validate" ELSE "enter_evidence", TRUE)
                  EXCEPT !.res["app"] = app, !.res["storage"] = storage]
    /\ OnlyCmd

RunEntersEvidence ==
    /\ cmd.pc = "enter_evidence"
    /\ cmd' = [Save(State("collecting_evidence"), "collect", TRUE)
                  EXCEPT !.task = "collecting_evidence"]
    /\ OnlyCmd

\* _collect_evidence_bundle: every command and file is tried, a failing one is
\* an entry of the results.
RunCollects(outcome) ==
    /\ cmd.pc = "collect"
    /\ cmd' = [cmd EXCEPT !.pc = "validate", !.res["evidence"] = outcome]
    /\ OnlyCmd

\* Target validation, when the request has criteria for it.
RunValidates(outcome) ==
    /\ cmd.pc = "validate" /\ cmd.spec
    /\ cmd' = [Save(NoPatch, "finish", TRUE)
                  EXCEPT !.task = "running_checks", !.res["validation"] = outcome]
    /\ OnlyCmd

\* Mutant of RunSkipsValidation.
RunSkipsValidationNever ==
    /\ cmd.pc = "validate" /\ ~cmd.spec /\ cmd.skip
    /\ cmd' = [cmd EXCEPT !.pc = "finish"]
    /\ OnlyCmd

RunSkipsValidation ==
    /\ cmd.pc = "validate" /\ ~cmd.spec
    /\ cmd' = [cmd EXCEPT !.pc = "finish"]
    /\ OnlyCmd

\* The end of run: the verdict, the task state and the code.
RunFinishes ==
    /\ cmd.pc = "finish"
    /\ LET verdict  == StartupVerdict(cmd.res)
           bad      == EvidenceFailed(cmd) \/ verdict = "fail" \/ ValidationFailed(cmd)
           task     == IF bad THEN "failed" ELSE "completed"
           partial  == bad \/ verdict # "pass"
           stage    == IF Succeeds(cmd) THEN "none"
                       ELSE IF EvidenceFailed(cmd) THEN "collect_evidence"
                       ELSE "validation"
       IN  cmd' = [Conclude(cmd,
                     [status   |-> IF partial THEN "partial" ELSE "completed",
                      decision |-> IF Succeeds(cmd) THEN "success" ELSE "continue",
                      stage    |-> stage,
                      task     |-> task],
                     IF Succeeds(cmd) THEN 0 ELSE 1)
                     EXCEPT !.task = task, !.then = "reread"]
    /\ OnlyCmd

\* A login that was not established while a command of the run was to be sent.
RunBlocked ==
    /\ cmd.kind = "run" /\ cmd.pc \in {"baseline", "collect", "validate"}
    /\ cmd.pc = "validate" => cmd.spec
    /\ cmd' = Conclude(cmd, [Result("blocked", "blocked", "establish_control")
                                EXCEPT !.task = cmd.task], 1)
    /\ OnlyCmd

\* Any other exception of the try; the stage is that of run_stage, and all but
\* the evidence counts as the baseline checks.
RunFails ==
    /\ cmd.kind = "run"
    /\ cmd.pc \in {"open", "baseline", "collect", "validate", "raise"}
    /\ cmd.pc = "validate" => cmd.spec
    /\ LET place == IF cmd.pc = "raise" THEN cmd.then ELSE cmd.pc
       IN  cmd' = Conclude(cmd,
                     [Result("failed", "continue",
                             IF place = "collect" THEN "collect_evidence" ELSE "baseline_checks")
                        EXCEPT !.task = cmd.task], 1)
    /\ OnlyCmd

\* run and health read the file again for what they print.
Reread ==
    /\ cmd.pc = "reread"
    /\ cmd' = [cmd EXCEPT !.pc = "returned", !.rc = IF summary = Torn THEN 2 ELSE @]
    /\ OnlyCmd

-----------------------------------------------------------------------------
(* The other commands *)

Working(k) == cmd.kind = k /\ cmd.pc = "work"
Trying(k)  == cmd.kind = k /\ cmd.pc \in {"work", "raise"}

\* Every probe ran; the code is 0 whatever the verdict.
HealthFinishes(app, storage) ==
    /\ Working("health")
    /\ LET res     == [cmd.res EXCEPT !["app"] = app, !["storage"] = storage]
           verdict == HealthVerdict(res)
           task    == IF verdict = "fail" THEN "failed" ELSE "completed"
       IN  cmd' = [Conclude(cmd,
                     [status   |-> "completed",
                      decision |-> IF verdict = "pass" THEN "success" ELSE "continue",
                      stage    |-> IF verdict = "pass" THEN "none" ELSE "validation",
                      task     |-> task], 0)
                     EXCEPT !.sent = TRUE, !.res = res, !.task = task, !.then = "reread"]
    /\ OnlyCmd

HealthBlocked ==
    /\ Working("health")
    /\ cmd' = Sent(Conclude(cmd, [Result("blocked", "blocked", "establish_control")
                                EXCEPT !.task = cmd.task], 1))
    /\ OnlyCmd

HealthFails ==
    /\ Trying("health")
    /\ cmd' = Sent([Conclude(cmd, [Result("failed", "continue", "running_checks")
                                 EXCEPT !.task = "failed"], 1) EXCEPT !.task = "failed"])
    /\ OnlyCmd

\* The window of observe: "ok" is at least one line, or Ctrl+C.
ObserveFinishes(outcome) ==
    /\ Working("observe")
    /\ cmd' = [Conclude(cmd,
                  Result("completed",
                         IF outcome = "ok" THEN "success" ELSE "continue",
                         IF outcome = "ok" THEN "none" ELSE "observe_serial"), 0)
                  EXCEPT !.res["observe"] = outcome]
    /\ OnlyCmd

ObserveFails ==
    /\ Working("observe")
    /\ cmd' = Conclude(cmd, Result("failed", "continue", "observe_serial"), 1)
    /\ OnlyCmd

\* The controller refuses a line that is too long before it opens the port.
ExecRefused ==
    /\ Working("exec") /\ cmd.long
    /\ cmd' = ReportRefused(cmd)
    /\ OnlyCmd

\* The command ran; the code is 0 whatever its exit code.
ExecFinishes(outcome) ==
    /\ Working("exec") /\ ~cmd.long
    /\ cmd' = [Conclude(cmd,
                  Result("completed",
                         IF outcome = "ok" THEN "success" ELSE "continue",
                         IF outcome = "ok" THEN "none" ELSE "execute_command"), 0)
                  EXCEPT !.sent = TRUE, !.res["command"] = outcome]
    /\ OnlyCmd

ExecBlocked ==
    /\ Working("exec") /\ ~cmd.long
    /\ cmd' = Sent(Conclude(cmd, Result("blocked", "blocked", "establish_control"), 1))
    /\ OnlyCmd

ExecFails ==
    /\ Working("exec") /\ ~cmd.long
    /\ cmd' = Sent(Conclude(cmd, Result("failed", "continue", "execute_command"), 1))
    /\ OnlyCmd


\* The transfer came to a file, or to nothing; a path that makes the command too
\* long is refused inside, with nothing sent.
Transferred(outcome) == cmd.long => outcome = "bad"

FetchEnds(outcome) ==
    LET task == IF outcome = "ok" THEN "completed" ELSE "failed"
    IN  [Conclude(cmd,
            [status   |-> task,
             decision |-> IF outcome = "ok" THEN "success" ELSE "continue",
             stage    |-> IF outcome = "ok" THEN "none" ELSE "fetch",
             task     |-> task],
            IF outcome = "ok" THEN 0 ELSE 1)
            EXCEPT !.sent = ~cmd.long, !.res["fetch"] = outcome, !.task = task]

FetchFileFinishes(outcome) ==
    /\ Working("fetch-file")
    /\ Transferred(outcome)
    /\ cmd' = FetchEnds(outcome)
    /\ OnlyCmd

FetchPathFinishes(outcome) ==
    /\ Working("fetch-path")
    /\ Transferred(outcome)
    /\ cmd' = FetchEnds(outcome)
    /\ OnlyCmd

FetchBlocked(k) ==
    /\ Working(k) /\ ~cmd.long
    /\ cmd' = Sent(Conclude(cmd, [Result("blocked", "blocked", "establish_control")
                                EXCEPT !.task = cmd.task], 1))
    /\ OnlyCmd

FetchFails(k) ==
    /\ Working(k) /\ ~cmd.long
    /\ cmd' = Sent(Conclude(cmd, [Result("failed", "continue", "fetch")
                                     EXCEPT !.task = cmd.task], 1))
    /\ OnlyCmd

\* The bundle is done; "bad" is a command or a file that failed.
CollectFinishes(outcome) ==
    /\ Working("collect-evidence")
    /\ LET task == IF outcome = "ok" THEN "completed" ELSE "failed"
       IN  cmd' = [Conclude(cmd,
                     [status   |-> IF outcome = "ok" THEN "completed" ELSE "partial",
                      decision |-> IF outcome = "ok" THEN "success" ELSE "continue",
                      stage    |-> IF outcome = "ok" THEN "none" ELSE "collect_evidence",
                      task     |-> task],
                     IF outcome = "ok" THEN 0 ELSE 1)
                     EXCEPT !.sent = TRUE, !.res["evidence"] = outcome, !.task = task]
    /\ OnlyCmd

CollectBlocked ==
    /\ Working("collect-evidence")
    /\ cmd' = Sent(Conclude(cmd, [Result("blocked", "blocked", "establish_control")
                                EXCEPT !.task = cmd.task], 1))
    /\ OnlyCmd

CollectFails ==
    /\ Trying("collect-evidence")
    /\ cmd' = Sent([Conclude(cmd, [Result("failed", "continue", "collect_evidence")
                                 EXCEPT !.task = "failed"], 1) EXCEPT !.task = "failed"])
    /\ OnlyCmd

\* The exit codes of the bootstrap commands are not looked at, those of the
\* connectivity checks are.
BootstrapRuns(outcome) ==
    /\ Working("bootstrap-network")
    /\ LET task == IF outcome = "ok" THEN "completed" ELSE "failed"
       IN  cmd' = [Conclude(cmd,
                     [status   |-> task,
                      decision |-> IF outcome = "ok" THEN "success" ELSE "continue",
                      stage    |-> IF outcome = "ok" THEN "none" ELSE "validate_connectivity",
                      task     |-> task],
                     IF outcome = "ok" THEN 0 ELSE 1)
                     EXCEPT !.sent = TRUE, !.res["connect"] = outcome, !.task = task]
    /\ OnlyCmd

BootstrapBlocked ==
    /\ Working("bootstrap-network")
    /\ cmd' = Sent(Conclude(cmd, [Result("blocked", "blocked", "establish_control")
                                EXCEPT !.task = cmd.task], 1))
    /\ OnlyCmd

BootstrapFails ==
    /\ Trying("bootstrap-network")
    /\ cmd' = Sent([Conclude(cmd, [Result("failed", "continue", "run_bootstrap_commands")
                                 EXCEPT !.task = "failed"], 1) EXCEPT !.task = "failed"])
    /\ OnlyCmd

\* The file is on the card, or stage_to_sd raised.
StageFinishes(outcome) ==
    /\ Working("stage-sd")
    /\ LET task == IF outcome = "ok" THEN "completed" ELSE "failed"
       IN  cmd' = [Conclude(cmd,
                     [status   |-> task,
                      decision |-> IF outcome = "ok" THEN "success" ELSE "continue",
                      stage    |-> IF outcome = "ok" THEN "none" ELSE "deploy_artifacts",
                      task     |-> task],
                     IF outcome = "ok" THEN 0 ELSE 1)
                     EXCEPT !.res["stage"] = outcome, !.task = task]
    /\ OnlyCmd

-----------------------------------------------------------------------------
(* record-intervention *)

RecStep(r, pc) == rec' = [rec EXCEPT ![r].pc = pc]

\* The summary is loaded before anything is written; a record of a session that
\* cannot be read is refused.
RecLoad(r) ==
    /\ rec[r].pc = "idle"
    /\ summary # NoFile
    /\ RecStep(r, IF summary = Torn THEN "failed" ELSE "append")
    /\ UNCHANGED <<cmd, summary, lines, overlap, crashes>>

\* The line goes to interventions.jsonl first.
RecAppend(r) ==
    /\ rec[r].pc = "append"
    /\ appended' = appended \cup {r}
    /\ RecStep(r, "read")
    /\ UNCHANGED <<cmd, summary, erased, overlap, crashes>>

OthersWrite(r) == Updating(cmd.pc) \/ \E q \in Recorders \ {r} : Updating(rec[q].pc)

\* The second reading, from which the counted summary is made.
RecRead(r) ==
    /\ rec[r].pc = "read"
    /\ rec' = IF summary = Torn
                 THEN [rec EXCEPT ![r].pc = "failed"]
                 ELSE [rec EXCEPT ![r].pc = "truncate", ![r].copy = Counted(summary)]
    /\ overlap' = (overlap \/ OthersWrite(r))
    /\ UNCHANGED <<cmd, summary, lines, crashes>>

RecTruncate(r) ==
    /\ rec[r].pc = "truncate"
    /\ RecStep(r, "fill")
    /\ summary' = Torn
    /\ UNCHANGED <<cmd, lines, overlap, crashes>>

RecFill(r) ==
    /\ rec[r].pc = "fill"
    /\ rec' = [rec EXCEPT ![r] = [pc |-> "check", copy |-> NoFile]]
    /\ summary' = rec[r].copy
    /\ UNCHANGED <<cmd, lines, overlap, crashes>>

\* The file is read once more for the count that is printed.
RecCheck(r) ==
    /\ rec[r].pc = "check"
    /\ RecStep(r, IF summary = Torn THEN "failed" ELSE "done")
    /\ UNCHANGED <<cmd, summary, lines, overlap, crashes>>

Record(r) == RecLoad(r) \/ RecAppend(r) \/ RecRead(r) \/ RecTruncate(r) \/ RecFill(r)
             \/ RecCheck(r)

-----------------------------------------------------------------------------
(* Kills *)

CrashCmd ==
    /\ crashes < MaxCrashes
    /\ cmd.pc \notin {"idle", "returned", "crashed"}
    /\ cmd' = [cmd EXCEPT !.pc = "crashed"]
    /\ crashes' = crashes + 1
    /\ UNCHANGED <<summary, lines, rec, overlap>>

CrashRecorder(r) ==
    /\ crashes < MaxCrashes
    /\ rec[r].pc \notin {"idle", "done", "failed", "crashed"}
    /\ RecStep(r, "crashed")
    /\ crashes' = crashes + 1
    /\ UNCHANGED <<cmd, summary, lines, overlap>>

-----------------------------------------------------------------------------
(* The specification *)

\* The kinds whose user gives a command or a path that may be too long.
TakesCommand == {"run", "collect-evidence", "bootstrap-network", "exec",
                 "fetch-file", "fetch-path"}

Init ==
    /\ cmd = [pc |-> "idle", kind |-> "run", skip |-> FALSE, spec |-> FALSE,
              long |-> FALSE, task |-> "precheck", res |-> [p \in Parts |-> "none"],
              sent |-> FALSE, patch |-> NoPatch, copy |-> NoFile, then |-> "idle",
              rc |-> 0, guarded |-> FALSE]
    /\ summary = NoFile
    /\ appended = {}
    /\ erased = {}
    /\ rec = [r \in Recorders |-> [pc |-> "idle", copy |-> NoFile]]
    /\ overlap = FALSE
    /\ crashes = 0

Start ==
    \/ \E k \in Kinds, skip, spec, long \in BOOLEAN :
          /\ k # "run" => ~skip /\ ~spec
          /\ long => k \in TakesCommand /\ (k = "run" => spec)
          /\ Begin(k, skip, spec, long)
    \/ NoDrive

Judged == {"ok", "warn", "bad"}

RunStep ==
    \/ \E o \in Judged : RunObserved(o)
    \/ \E a \in {"ok", "bad"}, s \in {"ok", "warn"} : RunBaseline(a, s)
    \/ \E o \in {"ok", "bad"} : RunCollects(o) \/ RunValidates(o)
    \/ StartRun \/ RunObserveFails \/ RunOpens \/ RunEntersEvidence
    \/ RunSkipsValidation \/ RunFinishes \/ RunBlocked \/ RunFails \/ Reread

DeviceStep ==
    \/ \E a \in {"ok", "bad"}, s \in Judged : HealthFinishes(a, s)
    \/ \E o \in {"ok", "bad"} :
          \/ ExecFinishes(o) \/ CollectFinishes(o) \/ BootstrapRuns(o) \/ StageFinishes(o)
          \/ FetchFileFinishes(o) \/ FetchPathFinishes(o)
    \/ \E o \in {"ok", "warn"} : ObserveFinishes(o)
    \/ \E k \in {"fetch-file", "fetch-path"} : FetchBlocked(k) \/ FetchFails(k)
    \/ StartHealth \/ EnterTry \/ StartPlain
    \/ HealthBlocked \/ HealthFails \/ ObserveFails
    \/ ExecRefused \/ ExecBlocked \/ ExecFails
    \/ CollectBlocked \/ CollectFails \/ BootstrapBlocked \/ BootstrapFails

EndEarly == RefusePlanned \/ BootstrapOffline \/ BootstrapIncomplete

\* What the command does once it has a session.
Command == BootstrapFill \/ BootstrapClear \/ EndEarly \/ RunStep \/ DeviceStep \/ UpdateSummary

Next ==
    \/ Start \/ Command \/ CrashCmd
    \/ \E r \in Recorders : Record(r) \/ CrashRecorder(r)

\* A running process goes on; the user need not start one.
Fairness == WF_vars(Command)

Spec == Init /\ [][Next]_vars /\ Fairness

-----------------------------------------------------------------------------
(* Properties *)

Readable == summary \notin {NoFile, Torn}

\* Type invariant.
TypeOK ==
    /\ cmd \in [pc : Pcs, kind : AllKinds, skip : BOOLEAN, spec : BOOLEAN,
                long : BOOLEAN, task : Tasks, res : [Parts -> Outcomes],
                sent : BOOLEAN, patch : Patches, copy : Contents \cup {NoFile},
                then : Pcs, rc : 0..2, guarded : BOOLEAN]
    /\ summary \in Contents \cup {NoFile, Torn}
    /\ appended \subseteq Recorders
    /\ erased \subseteq Recorders
    /\ rec \in [Recorders -> [pc : RecPcs, copy : Contents \cup {NoFile}]]
    /\ overlap \in BOOLEAN
    /\ crashes \in 0..MaxCrashes

\* What a success has to rest on, kind by kind.
Needed(c) ==
    CASE c.kind = "run" -> {"observe", "app", "storage"}
                              \cup (IF c.skip THEN {} ELSE {"evidence"})
                              \cup (IF c.spec THEN {"validation"} ELSE {})
      [] c.kind = "stage-sd" -> {"stage"}
      [] c.kind = "bootstrap-network" -> {"connect"}
      [] c.kind = "health" -> {"app", "storage"}
      [] c.kind = "observe" -> {"observe"}
      [] c.kind = "exec" -> {"command"}
      [] c.kind \in {"fetch-file", "fetch-path"} -> {"fetch"}
      [] c.kind = "collect-evidence" -> {"evidence"}

\* A summary that says "success", whoever wrote it last, is of a command whose
\* every required part was fine, and its task state is not "failed": no handler,
\* no early return and no intervention recorded from an older copy of the file
\* leaves a success behind that the device did not give.
SuccessIsEarned ==
    Readable /\ summary.decision = "success" =>
        /\ \A p \in Needed(cmd) : cmd.res[p] = "ok"
        /\ summary.task # "failed"
        /\ summary.status \notin {"refused", "blocked", "failed", "partial"}

\* A command that is longer than the device shell takes never reaches the device,
\* and its session does not end as a success; a session that says "refused" has
\* sent nothing at all.
OversizeNeverSent ==
    /\ cmd.long => ~cmd.sent /\ (Readable => summary.decision # "success")
    /\ Readable /\ summary.status = "refused" => ~cmd.sent /\ cmd.long

\* When the command has returned 0 or 1 and no two updates of the file overlapped,
\* the file a reader can parse holds the last thing the command said about itself,
\* and no recorder has put back what was there before.
FileTellsOutcome ==
    /\ cmd.pc = "returned" /\ cmd.rc < 2 /\ Readable /\ ~overlap =>
        /\ summary.status = cmd.patch.status /\ summary.status # "planned"
        /\ summary.decision = cmd.patch.decision /\ summary.decision # "pending"
        /\ summary.stage = cmd.patch.stage
        /\ cmd.patch.task # "same" => summary.task = cmd.patch.task
    /\ cmd.pc = "returned" /\ cmd.rc = 1 /\ Readable =>
        summary.decision # "success"

\* The count of the summary never exceeds the records that were written.  As long as
\* no updates overlapped and nobody was killed or turned away it is the number of
\* the recorders that have counted theirs, whatever the command wrote in between.  A
\* record that is written during the bootstrap is counted although the bootstrap
\* erases its line from interventions.jsonl.
RecordsCounted ==
    Readable =>
        LET written == appended \cup erased
            counted == {r \in written : rec[r].pc \in {"check", "done"}}
        IN  /\ summary.count <= Cardinality(written)
            /\ ~overlap /\ crashes = 0
               /\ (\A r \in Recorders : rec[r].pc # "failed")
               => summary.count = Cardinality(counted)

\* A command that has begun returns, whatever the device answers, unless it is killed.
CallsReturn == (cmd.pc = "bootstrap") ~> (cmd.pc \in {"returned", "crashed"})
=============================================================================
