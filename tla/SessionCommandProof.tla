------------------------ MODULE SessionCommandProof ------------------------
(***************************************************************************)
(* Proofs about SessionCommand: the values of the variables, that a        *)
(* success is earned, that a command which is too long is never sent, that *)
(* the file tells how the command ended, and that records are counted.     *)
(*                                                                         *)
(* The inductive invariant IInv has one part per question. A command has   *)
(* not decided, and no patch of it says how it ends, or it has, and its    *)
(* patch is the last (CmdInv). Everything in the file and in the copies    *)
(* the processes are about to write was said before that decision or is    *)
(* that last word (Sayings). While nobody began to update during another   *)
(* update there is at most one copy, and after the last patch it holds the *)
(* last word (Alone). A count is at most the number of recorders past      *)
(* their reading, and without overlaps and kills it is the number of those *)
(* that have written (Counts).                                             *)
(***************************************************************************)
EXTENDS SessionCommand, FiniteSetTheorems, TLAPS

Commands == [pc : Pcs, kind : AllKinds, skip : BOOLEAN, spec : BOOLEAN,
             long : BOOLEAN, task : Tasks, res : [Parts -> Outcomes],
             sent : BOOLEAN, patch : Patches, copy : Contents \cup {NoFile},
             then : Pcs, rc : 0..2, guarded : BOOLEAN]

-----------------------------------------------------------------------------
(* What is known of a command *)

Begun       == {"bootstrap", "clear", "planned"}
Writing     == {"read", "truncate", "fill"}
Over        == {"reread", "returned", "crashed"}
Last        == {"reread", "returned"}
AfterWindow == {"open", "baseline", "enter_evidence", "collect", "validate", "finish"}

\* Where a command is, or goes on after the update it makes.
Where(c) == IF c.pc \in Writing \cup {"raise"} THEN c.then ELSE c.pc

\* A command that has not said how it ended: nothing it has written says so.
Open(c) ==
    /\ c.patch.decision = "same" /\ c.patch.status = "same" /\ c.patch.stage = "same"
    /\ c.patch.task # "failed" /\ c.task # "failed"
    /\ c.pc # "reread" /\ c.then \notin Last

\* One that has: this was its last patch, and a success has what it needs.
Decided(c) ==
    /\ c.pc \in Writing \cup Over /\ c.then \in Last /\ ~c.guarded
    /\ c.patch.decision \notin {"same", "pending"}
    /\ c.patch.status \notin {"same", "planned"} /\ c.patch.stage # "same"
    /\ c.patch.status = "refused" => ~c.sent /\ c.long
    /\ c.patch.decision = "success" =>
          /\ \A p \in Needed(c) : c.res[p] = "ok"
          /\ c.patch.status = "completed" /\ c.patch.task # "failed"
          /\ c.rc # 1 /\ ~c.long

\* One with a command that is too long has sent nothing, and will not.
Careful(c) ==
    /\ c.pc \in Begun \cup {"idle"} => ~c.sent
    /\ c.long =>
          /\ c.kind \in TakesCommand /\ ~c.sent
          /\ c.pc \in Begun \cup {"work"} \cup Writing \cup Over
          /\ c.pc \in Writing => Decided(c)
          /\ c.pc = "work" => c.kind \in {"exec", "fetch-file", "fetch-path"}

CmdInv(c) ==
    /\ c.then \notin Writing \cup {"raise"}
    /\ c.pc \in Writing \cup {"raise"} => c.then \notin Begun \cup {"idle"}
    /\ Where(c) \in AfterWindow => c.kind = "run" /\ c.res["observe"] # "none"
    /\ Where(c) = "observe" => c.kind = "run"
    /\ Open(c) \/ Decided(c)
    /\ Careful(c)

-----------------------------------------------------------------------------
(* What is known of the file *)

\* What a summary says before the command has decided, and afterwards.
Early(s) ==
    s.decision = "pending" /\ s.status = "planned" /\ s.stage = "none" /\ s.task # "failed"

Told(s) ==
    /\ s.decision = cmd.patch.decision /\ s.status = cmd.patch.status
    /\ s.stage = cmd.patch.stage
    /\ IF cmd.patch.task = "same" THEN s.task # "failed" ELSE s.task = cmd.patch.task

\* A copy somebody is about to write is as whole as the file.
Whole ==
    /\ cmd.pc \in {"idle"} => summary = NoFile
    /\ cmd.pc \notin {"idle", "returned"} => summary # NoFile
    /\ cmd.pc = "bootstrap" =>
          summary = Torn /\ \A r \in Recorders : rec[r].pc \in {"idle", "failed"}
    /\ Updating(cmd.pc) => cmd.copy \in Contents
    /\ \A r \in Recorders :
          /\ rec[r].pc # "idle" => summary # NoFile
          /\ Updating(rec[r].pc) => rec[r].copy \in Contents

Says(s) == Early(s) \/ (Decided(cmd) /\ Told(s))

\* Whatever is in the file or in a copy was said before or is what was said last.
Sayings ==
    /\ summary \in Contents => Says(summary)
    /\ Updating(cmd.pc) => Says(cmd.copy) /\ (Decided(cmd) => Told(cmd.copy))
    /\ \A r \in Recorders : Updating(rec[r].pc) => Says(rec[r].copy)

\* The command has written its last patch.
Written == cmd.pc = "reread" \/ (cmd.pc = "returned" /\ cmd.rc < 2)

\* One at a time, as long as nobody began an update during another one; after the last
\* patch of the command everybody works with it.
Alone ==
    ~overlap =>
        /\ Updating(cmd.pc) => \A r \in Recorders : ~Updating(rec[r].pc)
        /\ \A q, r \in Recorders : Updating(rec[q].pc) /\ Updating(rec[r].pc) => q = r
        /\ Written /\ summary # NoFile =>
              /\ Decided(cmd)
              /\ summary \in Contents => Told(summary)
              /\ \A r \in Recorders : Updating(rec[r].pc) => Told(rec[r].copy)

\* The recorders that have written their line, those whose line is counted, or about to
\* be, and those that have counted it.
Recorded == appended \cup erased
Past     == {r \in Recorded : rec[r].pc # "read"}
Tallied  == {r \in Recorded : rec[r].pc \in {"check", "done"}}

Smooth == ~overlap /\ crashes = 0 /\ \A r \in Recorders : rec[r].pc # "failed"

Counts ==
    /\ IsFiniteSet(Recorded)
    /\ \A r \in Recorders :
          /\ rec[r].pc \in {"idle", "append"} => r \notin Recorded
          /\ rec[r].pc \in {"read", "truncate", "fill", "check", "done"} => r \in Recorded
    /\ summary \in Contents => summary.count <= Cardinality(Past)
    /\ Updating(cmd.pc) => cmd.copy.count <= Cardinality(Past)
    /\ \A r \in Recorders : Updating(rec[r].pc) => rec[r].copy.count <= Cardinality(Past)
    /\ Smooth =>
          /\ summary \in Contents => summary.count = Cardinality(Tallied)
          /\ Updating(cmd.pc) => cmd.copy.count = Cardinality(Tallied)
          /\ \A r \in Recorders :
                Updating(rec[r].pc) => rec[r].copy.count = Cardinality(Tallied) + 1

IInv == CmdInv(cmd) /\ Whole /\ Sayings /\ Alone /\ Counts

-----------------------------------------------------------------------------
(* Types *)

\* The names the steps use.
LEMMA Names ==
    /\ {"planned", "enter", "work", "observe", "open", "baseline", "enter_evidence",
        "collect", "validate", "finish", "read", "truncate", "fill", "raise", "reread",
        "returned", "crashed"} \subseteq Pcs
    /\ {"waiting_boot", "running_checks", "collecting_evidence", "completed", "failed"}
          \subseteq Tasks
    /\ {"refused", "blocked", "failed", "partial", "completed"} \subseteq Statuses
    /\ {"continue", "blocked", "success"} \subseteq Decisions
    /\ {"none", "validate_command", "prepare_transport", "observe_serial",
        "establish_control", "baseline_checks", "collect_evidence", "validation",
        "run_bootstrap_commands", "validate_connectivity", "deploy_artifacts",
        "running_checks", "execute_command", "fetch"} \subseteq Stages
    /\ {"observe", "app", "storage", "evidence", "validation", "connect", "stage",
        "command", "fetch"} \subseteq Parts
    /\ {"ok", "warn", "bad"} \subseteq Outcomes
    /\ 0 \in 0..2 /\ 1 \in 0..2 /\ 2 \in 0..2
  BY DEF Pcs, Tasks, Statuses, Decisions, Stages, Parts, Outcomes

\* What the commands say of themselves.
LEMMA PatchTypes ==
    /\ NoPatch \in Patches
    /\ \A t \in Tasks : State(t) \in Patches
    /\ \A s \in Statuses, d \in Decisions, g \in Stages :
          /\ Result(s, d, g) \in Patches
          /\ \A t \in Tasks :
                /\ [Result(s, d, g) EXCEPT !.task = t] \in Patches
                /\ [status |-> s, decision |-> d, stage |-> g, task |-> t] \in Patches
  BY DEF NoPatch, State, Result, Patches

\* What a command is once it has made up its mind, and with what it found.
LEMMA Concluded ==
    ASSUME cmd \in Commands, NEW p \in Patches, NEW code \in 0..2
    PROVE  Conclude(cmd, p, code) \in Commands
  BY Names DEF Conclude, Commands

LEMMA Answered ==
    ASSUME NEW c \in Commands, NEW part \in Parts, NEW o \in Outcomes, NEW t \in Tasks,
           NEW b \in BOOLEAN
    PROVE  /\ [c EXCEPT !.sent = b, !.res[part] = o, !.task = t] \in Commands
           /\ [c EXCEPT !.sent = b, !.res[part] = o] \in Commands
           /\ [c EXCEPT !.res[part] = o, !.task = t] \in Commands
           /\ [c EXCEPT !.res[part] = o] \in Commands
<1>1. [c.res EXCEPT ![part] = o] \in [Parts -> Outcomes]
  BY DEF Commands
<1> QED
  BY <1>1 DEF Commands

\* What is said of a fetch that has ended.
LEMMA FetchTypes ==
    ASSUME cmd \in Commands, NEW outcome \in {"ok", "bad"}
    PROVE  FetchEnds(outcome) \in Commands
<1> DEFINE task == IF outcome = "ok" THEN "completed" ELSE "failed"
           said == IF outcome = "ok" THEN "success" ELSE "continue"
           stage == IF outcome = "ok" THEN "none" ELSE "fetch"
           p    == [status |-> task, decision |-> said, stage |-> stage, task |-> task]
           code == IF outcome = "ok" THEN 0 ELSE 1
           c    == Conclude(cmd, p, code)
<1>1. /\ task \in Statuses /\ task \in Tasks /\ said \in Decisions /\ stage \in Stages
      /\ code \in 0..2 /\ "fetch" \in Parts /\ outcome \in Outcomes
  BY Names
<1>2. p \in Patches
  BY <1>1, PatchTypes
<1>3. FetchEnds(outcome) = [c EXCEPT !.sent = ~cmd.long, !.res["fetch"] = outcome, !.task = task]
  BY DEF FetchEnds
<1> HIDE DEF task, said, stage, p, code
<1>4. c \in Commands
  BY <1>1, <1>2, Names DEF Conclude, Commands
<1> HIDE DEF c
<1>5. [c.res EXCEPT !["fetch"] = outcome] \in [Parts -> Outcomes]
  BY <1>1, <1>4 DEF Commands
<1> QED
  BY <1>1, <1>3, <1>4, <1>5 DEF Commands

-----------------------------------------------------------------------------
(* The steps of a command that leave the file alone *)

\* The two shapes they have: the command goes on, or it makes its last update.
Quiet ==
    /\ cmd.pc \notin Writing \cup Over \cup {"idle"} /\ OnlyCmd
    /\ cmd' \in Commands

GoesOn ==
    /\ Quiet
    /\ CmdInv(cmd') /\ Open(cmd')
    /\ cmd'.pc \notin {"bootstrap", "truncate", "fill", "idle"} \cup Over

Ends ==
    /\ Quiet
    /\ Decided(cmd') /\ cmd'.pc = "read"
    /\ cmd'.long => cmd'.kind \in TakesCommand /\ ~cmd'.sent

\* A last word keeps what is known of a command.
LEMMA EndsInv == ASSUME Ends PROVE CmdInv(cmd')
  BY DEF Ends, Quiet, CmdInv, Decided, Careful, Where, Writing, Last, AfterWindow, Begun

\* A refusal, the offline mode and an incomplete request are a last word.
LEMMA EarlyEnds ==
    ASSUME cmd \in Commands, CmdInv(cmd)
    PROVE  /\ (RefusePlanned => Ends)
           /\ (BootstrapOffline => Ends)
           /\ (BootstrapIncomplete => Ends)
<1>1. ASSUME RefusePlanned PROVE Ends
  <2>1. cmd' \in Commands
    BY <1>1, Names, PatchTypes DEF RefusePlanned, Conclude, Commands, ReportRefused
  <2>2. Decided(cmd') /\ cmd'.pc = "read"
    BY <1>1, <2>1 DEF RefusePlanned, Conclude, Result, Decided, Writing, Last, Needed, Commands,
       Over, CmdInv, Careful, ReportRefused, Begun
  <2>3. OnlyCmd /\ cmd.pc \notin Writing \cup Over \cup {"idle"}
    BY <1>1 DEF RefusePlanned, Writing, Over, ReportRefused
  <2>4. cmd'.long => cmd'.kind \in TakesCommand /\ ~cmd'.sent
    BY <1>1, <2>1 DEF RefusePlanned, Conclude, Commands, CmdInv, Careful, Over, Writing,
       ReportRefused, Begun
  <2> QED
    BY <2>1, <2>2, <2>3, <2>4 DEF Ends, Quiet
<1>2. ASSUME BootstrapOffline PROVE Ends
  <2>1. cmd' \in Commands
    BY <1>2, Names, PatchTypes DEF BootstrapOffline, Conclude, Commands
  <2>2. Decided(cmd') /\ cmd'.pc = "read"
    BY <1>2, <2>1 DEF BootstrapOffline, Conclude, Result, Decided, Writing, Last, Needed,
       Commands, Over, CmdInv, Careful, Begun
  <2>3. OnlyCmd /\ cmd.pc \notin Writing \cup Over \cup {"idle"}
    BY <1>2 DEF BootstrapOffline, Writing, Over
  <2>4. cmd'.long => cmd'.kind \in TakesCommand /\ ~cmd'.sent
    BY <1>2, <2>1 DEF BootstrapOffline, Conclude, Commands, CmdInv, Careful, Over, Writing,
       Begun
  <2> QED
    BY <2>1, <2>2, <2>3, <2>4 DEF Ends, Quiet
<1>3. ASSUME BootstrapIncomplete PROVE Ends
  <2>1. cmd' \in Commands
    BY <1>3, Names, PatchTypes DEF BootstrapIncomplete, Conclude, Commands
  <2>2. Decided(cmd') /\ cmd'.pc = "read"
    BY <1>3, <2>1 DEF BootstrapIncomplete, Conclude, Result, Decided, Writing, Last, Needed,
       Commands, Over, CmdInv, Careful, Begun
  <2>3. OnlyCmd /\ cmd.pc \notin Writing \cup Over \cup {"idle"}
    BY <1>3 DEF BootstrapIncomplete, Writing, Over
  <2>4. cmd'.long => cmd'.kind \in TakesCommand /\ ~cmd'.sent
    BY <1>3, <2>1 DEF BootstrapIncomplete, Conclude, Commands, CmdInv, Careful, Over, Writing,
       Begun
  <2> QED
    BY <2>1, <2>2, <2>3, <2>4 DEF Ends, Quiet
<1> QED
  BY <1>1, <1>2, <1>3

\* The stages of run; the window is behind it from its end on.
LEMMA RunGoesOn ==
    ASSUME cmd \in Commands, CmdInv(cmd)
    PROVE  /\ \A o \in Judged : RunObserved(o) => GoesOn
           /\ \A a \in {"ok", "bad"}, s \in {"ok", "warn"} : RunBaseline(a, s) => GoesOn
           /\ \A o \in {"ok", "bad"} : RunCollects(o) => GoesOn
           /\ \A o \in {"ok", "bad"} : RunValidates(o) => GoesOn
           /\ (StartRun => GoesOn)
           /\ (RunOpens => GoesOn)
           /\ (RunEntersEvidence => GoesOn)
           /\ (RunSkipsValidation => GoesOn)
<1>1. ASSUME NEW o \in Judged, RunObserved(o) PROVE GoesOn
  <2>1. cmd' \in Commands
    BY <1>1, Names, PatchTypes DEF RunObserved, Save, Commands, Judged
  <2>2. /\ cmd.pc = "observe" /\ OnlyCmd
        /\ cmd'.pc = "read" /\ cmd'.then = "open" /\ cmd'.task = "running_checks"
        /\ cmd'.patch = State("running_checks")
        /\ cmd'.kind = cmd.kind /\ cmd'.res["observe"] = o /\ cmd'.long = cmd.long
    BY <1>1, Names DEF RunObserved, Save, Commands
  <2>3. cmd.kind = "run" /\ ~cmd.long
    BY <2>2 DEF CmdInv, Where, Careful, Writing, Over, Begun
  <2>4. Open(cmd')
    BY <2>2 DEF Open, State, NoPatch, Last
  <2>5. CmdInv(cmd')
    BY <2>2, <2>3, <2>4 DEF CmdInv, Where, Careful, Writing, AfterWindow, Judged, Begun
  <2> QED
    BY <2>1, <2>2, <2>4, <2>5 DEF GoesOn, Quiet, Writing, Over
<1>2. ASSUME NEW app \in {"ok", "bad"}, NEW storage \in {"ok", "warn"},
             RunBaseline(app, storage)
      PROVE  GoesOn
  <2> DEFINE next == IF cmd.skip THEN "validate" ELSE "enter_evidence"
  <2>1. next \in {"validate", "enter_evidence"} /\ next \in Pcs
    BY Names
  <2>2. cmd' = [Save(State(cmd.task), next, TRUE)
                  EXCEPT !.res["app"] = app, !.res["storage"] = storage]
    BY <1>2 DEF RunBaseline
  <2> HIDE DEF next
  <2>3. cmd' \in Commands
    <3> DEFINE c == Save(State(cmd.task), next, TRUE)
    <3>1. State(cmd.task) \in Patches
      BY PatchTypes DEF Commands
    <3>2. c \in Commands
      BY <2>1, <3>1, Names DEF Save, Commands
    <3> HIDE DEF c
    <3>3. [c.res EXCEPT !["app"] = app, !["storage"] = storage] \in [Parts -> Outcomes]
      BY <3>2 DEF Commands, Outcomes
    <3> QED
      BY <2>2, <3>2, <3>3 DEF Commands, c
  <2>4. cmd.pc = "baseline" /\ OnlyCmd
    BY <1>2 DEF RunBaseline
  <2>5. /\ cmd'.pc = "read" /\ cmd'.then = next /\ cmd'.patch = State(cmd.task)
        /\ cmd'.task = cmd.task /\ cmd'.kind = cmd.kind /\ cmd'.long = cmd.long
        /\ cmd'.res["observe"] = cmd.res["observe"]
    BY <2>1, <2>2, Names DEF Save, Commands
  <2>6. cmd.kind = "run" /\ ~cmd.long /\ cmd.res["observe"] # "none" /\ cmd.task # "failed"
    BY <2>4 DEF CmdInv, Where, AfterWindow, Careful, Writing, Over, Decided, Open, Begun
  <2>7. Open(cmd')
    BY <2>1, <2>5, <2>6 DEF Open, State, NoPatch, Last
  <2>8. CmdInv(cmd')
    BY <2>1, <2>5, <2>6, <2>7 DEF CmdInv, Where, Careful, Writing, AfterWindow, Begun
  <2> QED
    BY <2>3, <2>4, <2>5, <2>7, <2>8 DEF GoesOn, Quiet, Writing, Over
<1>3. ASSUME NEW o \in {"ok", "bad"}, RunCollects(o) PROVE GoesOn
  <2>1. cmd' \in Commands
    BY <1>3, Names, PatchTypes DEF RunCollects, Save, Commands
  <2>2. /\ CmdInv(cmd') /\ Open(cmd')
        /\ cmd'.pc \notin {"bootstrap", "truncate", "fill", "idle"} \cup Over
    BY <1>3, <2>1 DEF RunCollects, Save, State, NoPatch, Open, Decided, Writing, Last, Commands,
       CmdInv, Careful, Where, Over, AfterWindow, Begun
  <2>3. OnlyCmd /\ cmd.pc \notin Writing \cup Over \cup {"idle"}
    BY <1>3 DEF RunCollects, Writing, Over
  <2> QED
    BY <2>1, <2>2, <2>3 DEF GoesOn, Quiet
<1>4. ASSUME NEW o \in {"ok", "bad"}, RunValidates(o) PROVE GoesOn
  <2>1. cmd' \in Commands
    BY <1>4, Names, PatchTypes, ZenonT(30) DEF RunValidates, Save, Commands
  <2>2. /\ CmdInv(cmd') /\ Open(cmd')
        /\ cmd'.pc \notin {"bootstrap", "truncate", "fill", "idle"} \cup Over
    BY <1>4, <2>1 DEF RunValidates, Save, State, NoPatch, Open, Decided, Writing, Last,
       Commands, CmdInv, Careful, Where, Over, AfterWindow, Begun
  <2>3. OnlyCmd /\ cmd.pc \notin Writing \cup Over \cup {"idle"}
    BY <1>4 DEF RunValidates, Writing, Over
  <2> QED
    BY <2>1, <2>2, <2>3 DEF GoesOn, Quiet
<1>5. ASSUME StartRun PROVE GoesOn
  <2>1. cmd' \in Commands
    BY <1>5, Names, PatchTypes DEF StartRun, Save, Commands
  <2>2. /\ CmdInv(cmd') /\ Open(cmd')
        /\ cmd'.pc \notin {"bootstrap", "truncate", "fill", "idle"} \cup Over
    BY <1>5, <2>1 DEF StartRun, Save, State, NoPatch, Open, Decided, Writing, Last, Commands,
       CmdInv, Careful, Where, Over, AfterWindow, Begun
  <2>3. OnlyCmd /\ cmd.pc \notin Writing \cup Over \cup {"idle"}
    BY <1>5 DEF StartRun, Writing, Over
  <2> QED
    BY <2>1, <2>2, <2>3 DEF GoesOn, Quiet
<1>6. ASSUME RunOpens PROVE GoesOn
  <2>1. cmd' \in Commands
    BY <1>6, Names, PatchTypes DEF RunOpens, Save, Commands
  <2>2. /\ CmdInv(cmd') /\ Open(cmd')
        /\ cmd'.pc \notin {"bootstrap", "truncate", "fill", "idle"} \cup Over
    BY <1>6, <2>1 DEF RunOpens, Save, State, NoPatch, Open, Decided, Writing, Last, Commands,
       CmdInv, Careful, Where, Over, AfterWindow, Begun
  <2>3. OnlyCmd /\ cmd.pc \notin Writing \cup Over \cup {"idle"}
    BY <1>6 DEF RunOpens, Writing, Over
  <2> QED
    BY <2>1, <2>2, <2>3 DEF GoesOn, Quiet
<1>7. ASSUME RunEntersEvidence PROVE GoesOn
  <2>1. cmd' \in Commands
    BY <1>7, Names, PatchTypes DEF RunEntersEvidence, Save, Commands
  <2>2. /\ CmdInv(cmd') /\ Open(cmd')
        /\ cmd'.pc \notin {"bootstrap", "truncate", "fill", "idle"} \cup Over
    BY <1>7, <2>1 DEF RunEntersEvidence, Save, State, NoPatch, Open, Decided, Writing, Last,
       Commands, CmdInv, Careful, Where, Over, AfterWindow, Begun
  <2>3. OnlyCmd /\ cmd.pc \notin Writing \cup Over \cup {"idle"}
    BY <1>7 DEF RunEntersEvidence, Writing, Over
  <2> QED
    BY <2>1, <2>2, <2>3 DEF GoesOn, Quiet
<1>8. ASSUME RunSkipsValidation PROVE GoesOn
  <2>1. cmd' \in Commands
    BY <1>8, Names, PatchTypes DEF RunSkipsValidation, Save, Commands
  <2>2. /\ CmdInv(cmd') /\ Open(cmd')
        /\ cmd'.pc \notin {"bootstrap", "truncate", "fill", "idle"} \cup Over
    BY <1>8, <2>1 DEF RunSkipsValidation, Save, State, NoPatch, Open, Decided, Writing, Last,
       Commands, CmdInv, Careful, Where, Over, AfterWindow, Begun
  <2>3. OnlyCmd /\ cmd.pc \notin Writing \cup Over \cup {"idle"}
    BY <1>8 DEF RunSkipsValidation, Writing, Over
  <2> QED
    BY <2>1, <2>2, <2>3 DEF GoesOn, Quiet
<1> QED
  BY <1>1, <1>2, <1>3, <1>4, <1>5, <1>6, <1>7, <1>8

\* The ends of run; a success of it has every part the request asked for.
LEMMA RunEnds ==
    ASSUME cmd \in Commands, CmdInv(cmd)
    PROVE  /\ (RunObserveFails => Ends)
           /\ (RunBlocked => Ends)
           /\ (RunFails => Ends)
           /\ (RunFinishes => Ends)
<1>1. ASSUME RunObserveFails PROVE Ends
  <2>1. cmd' \in Commands
    BY <1>1, Names, PatchTypes DEF RunObserveFails, Conclude, Commands
  <2>2. Decided(cmd') /\ cmd'.pc = "read"
    BY <1>1, <2>1 DEF RunObserveFails, Conclude, Result, Decided, Writing, Last, Needed,
       Commands, Over, CmdInv, Careful, Begun
  <2>3. OnlyCmd /\ cmd.pc \notin Writing \cup Over \cup {"idle"}
    BY <1>1 DEF RunObserveFails, Writing, Over
  <2>4. cmd'.long => cmd'.kind \in TakesCommand /\ ~cmd'.sent
    BY <1>1, <2>1 DEF RunObserveFails, Conclude, Commands, CmdInv, Careful, Over, Writing, Begun
  <2> QED
    BY <2>1, <2>2, <2>3, <2>4 DEF Ends, Quiet
<1>2. ASSUME RunBlocked PROVE Ends
  <2>1. cmd' \in Commands
    BY <1>2, Names, PatchTypes DEF RunBlocked, Conclude, Commands
  <2>2. Decided(cmd') /\ cmd'.pc = "read"
    BY <1>2, <2>1 DEF RunBlocked, Conclude, Result, Decided, Writing, Last, Needed, Commands,
       Over, CmdInv, Careful, Begun
  <2>3. OnlyCmd /\ cmd.pc \notin Writing \cup Over \cup {"idle"}
    BY <1>2 DEF RunBlocked, Writing, Over
  <2>4. cmd'.long => cmd'.kind \in TakesCommand /\ ~cmd'.sent
    BY <1>2, <2>1 DEF RunBlocked, Conclude, Commands, CmdInv, Careful, Over, Writing, Begun
  <2> QED
    BY <2>1, <2>2, <2>3, <2>4 DEF Ends, Quiet
<1>3. ASSUME RunFails PROVE Ends
  <2>1. cmd' \in Commands
    BY <1>3, Names, PatchTypes DEF RunFails, Conclude, Commands
  <2>2. Decided(cmd') /\ cmd'.pc = "read"
    BY <1>3, <2>1 DEF RunFails, Conclude, Result, Decided, Writing, Last, Needed, Commands,
       Over, CmdInv, Careful, Begun
  <2>3. OnlyCmd /\ cmd.pc \notin Writing \cup Over \cup {"idle"}
    BY <1>3 DEF RunFails, Writing, Over
  <2>4. cmd'.long => cmd'.kind \in TakesCommand /\ ~cmd'.sent
    BY <1>3, <2>1 DEF RunFails, Conclude, Commands, CmdInv, Careful, Over, Writing, Begun
  <2> QED
    BY <2>1, <2>2, <2>3, <2>4 DEF Ends, Quiet
<1>4. ASSUME RunFinishes PROVE Ends
  <2> DEFINE won     == Succeeds(cmd)
             bad     == EvidenceFailed(cmd) \/ StartupVerdict(cmd.res) = "fail"
                          \/ ValidationFailed(cmd)
             partial == bad \/ StartupVerdict(cmd.res) # "pass"
             status  == IF partial THEN "partial" ELSE "completed"
             said    == IF won THEN "success" ELSE "continue"
             stage   == IF won THEN "none"
                        ELSE IF EvidenceFailed(cmd) THEN "collect_evidence"
                        ELSE "validation"
             task    == IF bad THEN "failed" ELSE "completed"
             code    == IF won THEN 0 ELSE 1
             p       == [status |-> status, decision |-> said, stage |-> stage,
                         task |-> task]
  <2>1. /\ status \in Statuses \ {"planned", "refused"} /\ said \in Decisions \ {"pending"}
        /\ stage \in Stages /\ task \in Tasks /\ code \in 0..2
        /\ said # "same" /\ stage # "same" /\ status # "same"
    BY DEF Statuses, Decisions, Stages, Tasks
  <2>2. p \in Patches
    BY <2>1, PatchTypes
  <2>3. cmd' = [[cmd EXCEPT !.pc = "read", !.patch = p, !.then = "returned",
                            !.guarded = FALSE, !.rc = code]
                   EXCEPT !.task = task, !.then = "reread"]
    BY <1>4 DEF RunFinishes, Conclude
  <2>4. cmd.pc = "finish" /\ OnlyCmd
    BY <1>4 DEF RunFinishes
  <2>5. cmd.kind = "run" /\ cmd.res["observe"] # "none" /\ ~cmd.long
    BY <2>4 DEF CmdInv, Where, AfterWindow, Writing, Careful, Over, Begun
  <2>6. ASSUME won PROVE (\A q \in Needed(cmd) : cmd.res[q] = "ok") /\ ~bad /\ ~partial
    <3>1. StartupVerdict(cmd.res) = "pass" /\ ~EvidenceFailed(cmd) /\ ~ValidationFailed(cmd)
      BY <2>5, <2>6 DEF Succeeds
    <3>2. /\ cmd.res["app"] = "ok" /\ cmd.res["storage"] = "ok"
          /\ cmd.res["observe"] \notin {"bad", "warn"}
      BY <3>1 DEF StartupVerdict, Verdict
    <3>3. cmd.res["observe"] = "ok"
      BY <3>2, <2>5 DEF Commands, Parts, Outcomes
    <3>4. Needed(cmd) = {"observe", "app", "storage"}
                           \cup (IF cmd.skip THEN {} ELSE {"evidence"})
                           \cup (IF cmd.spec THEN {"validation"} ELSE {})
      BY <2>5 DEF Needed
    <3> QED
      BY <3>1, <3>2, <3>3, <3>4 DEF EvidenceFailed, ValidationFailed
  <2>7. /\ cmd'.pc = "read" /\ cmd'.then = "reread" /\ ~cmd'.guarded /\ cmd'.patch = p
        /\ cmd'.rc = code /\ cmd'.kind = "run" /\ cmd'.res = cmd.res /\ ~cmd'.long
        /\ cmd'.skip = cmd.skip /\ cmd'.spec = cmd.spec
    <3> HIDE DEF p, code, task
    <3> QED
      BY <2>1, <2>2, <2>3, <2>5 DEF Commands
  <2>8. Needed(cmd') = Needed(cmd)
    BY <2>5, <2>7 DEF Needed
  <2>9. Decided(cmd')
    <3>1. said = "success" =>
             /\ \A q \in Needed(cmd) : cmd.res[q] = "ok"
             /\ status = "completed" /\ task # "failed" /\ code # 1
      BY <2>6
    <3> HIDE DEF status, said, stage, task, code
    <3> QED
      BY <2>1, <2>7, <2>8, <3>1 DEF Decided, Writing, Last
  <2>10. cmd' \in Commands
    <3> HIDE DEF p, code, task
    <3> QED
      BY <2>1, <2>2, <2>3, Names DEF Commands
  <2> QED
    BY <2>4, <2>7, <2>9, <2>10 DEF Ends, Quiet, Writing, Over
<1> QED
  BY <1>1, <1>2, <1>3, <1>4

\* The beginnings of the other commands.
LEMMA Starts ==
    ASSUME cmd \in Commands, CmdInv(cmd)
    PROVE  /\ (StartHealth => GoesOn)
           /\ (EnterTry => GoesOn)
           /\ (StartPlain => GoesOn)
<1>1. ASSUME StartHealth PROVE GoesOn
  <2>1. cmd' \in Commands
    BY <1>1, Names, PatchTypes DEF StartHealth, Save, Commands
  <2>2. /\ cmd.pc = "planned" /\ cmd.kind = "health" /\ OnlyCmd
        /\ cmd'.pc = "read" /\ cmd'.then = "enter" /\ cmd'.patch = State(cmd.task)
        /\ cmd'.task = cmd.task /\ cmd'.long = cmd.long
    BY <1>1, Names DEF StartHealth, Save, Commands
  <2>3. ~cmd.long /\ cmd.task # "failed"
    BY <2>2 DEF CmdInv, Careful, TakesCommand, Decided, Open, Writing, Over, Begun
  <2>4. Open(cmd')
    BY <2>2, <2>3 DEF Open, State, NoPatch, Last
  <2>5. CmdInv(cmd')
    BY <2>2, <2>3, <2>4 DEF CmdInv, Where, Careful, Writing, AfterWindow, Begun
  <2> QED
    BY <2>1, <2>2, <2>4, <2>5 DEF GoesOn, Quiet, Writing, Over
<1>2. ASSUME EnterTry PROVE GoesOn
  <2>1. cmd' \in Commands
    BY <1>2, Names, PatchTypes DEF EnterTry, Save, Commands
  <2>2. /\ CmdInv(cmd') /\ Open(cmd')
        /\ cmd'.pc \notin {"bootstrap", "truncate", "fill", "idle"} \cup Over
    BY <1>2, <2>1 DEF EnterTry, Save, State, NoPatch, Open, Decided, Writing, Last, Commands,
       CmdInv, Careful, Where, Over, AfterWindow, Begun
  <2>3. OnlyCmd /\ cmd.pc \notin Writing \cup Over \cup {"idle"}
    BY <1>2 DEF EnterTry, Writing, Over
  <2> QED
    BY <2>1, <2>2, <2>3 DEF GoesOn, Quiet
<1>3. ASSUME StartPlain PROVE GoesOn
  <2>1. cmd' \in Commands
    BY <1>3, Names DEF StartPlain, Commands
  <2>2. /\ cmd.pc = "planned" /\ OnlyCmd /\ cmd' = [cmd EXCEPT !.pc = "work"]
        /\ cmd.kind \in {"stage-sd", "observe", "exec", "fetch-file", "fetch-path"}
    BY <1>3 DEF StartPlain
  <2>3. /\ cmd'.pc = "work" /\ cmd'.then = cmd.then /\ cmd'.patch = cmd.patch
        /\ cmd'.res = cmd.res /\ cmd'.task = cmd.task /\ cmd'.long = cmd.long
        /\ cmd'.kind = cmd.kind /\ cmd'.sent = cmd.sent
    BY <2>2 DEF Commands
  <2>4. Open(cmd) /\ ~cmd.sent
    BY <2>2 DEF CmdInv, Decided, Writing, Over, Careful, Begun
  <2>5. Open(cmd')
    BY <2>3, <2>4 DEF Open
  <2>6. CmdInv(cmd')
    BY <2>2, <2>3, <2>4, <2>5 DEF CmdInv, Where, Careful, Writing, AfterWindow, TakesCommand,
       Begun
  <2> QED
    BY <2>1, <2>2, <2>3, <2>5, <2>6 DEF GoesOn, Quiet, Writing, Over
<1> QED
  BY <1>1, <1>2, <1>3

\* What the device or the host answers is the last word of the other commands.
LEMMA DeviceAnswers ==
    ASSUME cmd \in Commands, CmdInv(cmd)
    PROVE  /\ (ExecFinishes("ok") => Ends)
           /\ (ExecFinishes("bad") => Ends)
           /\ (CollectFinishes("ok") => Ends)
           /\ (CollectFinishes("bad") => Ends)
           /\ (BootstrapRuns("ok") => Ends)
           /\ (BootstrapRuns("bad") => Ends)
           /\ (StageFinishes("ok") => Ends)
           /\ (StageFinishes("bad") => Ends)
           /\ (FetchFileFinishes("ok") => Ends)
           /\ (FetchFileFinishes("bad") => Ends)
           /\ (FetchPathFinishes("ok") => Ends)
           /\ (FetchPathFinishes("bad") => Ends)
           /\ (ObserveFinishes("ok") => Ends)
           /\ (ObserveFinishes("warn") => Ends)
<1>1. ASSUME ExecFinishes("ok") PROVE Ends
  <2>1. cmd' \in Commands
    BY <1>1, Names, PatchTypes, Concluded, Answered DEF ExecFinishes
  <2>2. /\ cmd'.pc = "read" /\ cmd'.then = "returned" /\ ~cmd'.guarded
        /\ cmd'.patch.decision = "success" /\ cmd'.patch.status = "completed"
        /\ cmd'.patch.stage = "none" /\ cmd'.patch.task # "failed"
        /\ cmd'.rc = 0 /\ cmd'.kind = "exec" /\ cmd'.res["command"] = "ok"
    BY <1>1, Names DEF ExecFinishes, Conclude, Result, Commands, Working
  <2>3. ~cmd'.long
    BY <1>1 DEF ExecFinishes, Conclude, Commands, CmdInv, Careful, TakesCommand, Working, Begun
  <2>4. Needed(cmd') = {"command"}
    BY <2>2 DEF Needed
  <2>5. Decided(cmd')
    BY <2>2, <2>3, <2>4 DEF Decided, Writing, Last
  <2>6. OnlyCmd /\ cmd.pc \notin Writing \cup Over \cup {"idle"}
    BY <1>1 DEF ExecFinishes, Writing, Over, Working
  <2> QED
    BY <2>1, <2>2, <2>3, <2>5, <2>6 DEF Ends, Quiet
<1>2. ASSUME ExecFinishes("bad") PROVE Ends
  <2>1. cmd' \in Commands
    BY <1>2, Names, PatchTypes, Concluded, Answered DEF ExecFinishes
  <2>2. Decided(cmd') /\ cmd'.pc = "read"
    BY <1>2, <2>1 DEF ExecFinishes, Conclude, Result, Decided, Writing, Last, Needed, Commands,
       Over, CmdInv, Careful, Working, Begun
  <2>3. OnlyCmd /\ cmd.pc \notin Writing \cup Over \cup {"idle"}
    BY <1>2 DEF ExecFinishes, Writing, Over, Working
  <2>4. cmd'.long => cmd'.kind \in TakesCommand /\ ~cmd'.sent
    BY <1>2, <2>1 DEF ExecFinishes, Conclude, Commands, CmdInv, Careful, Over, Writing,
       Working, Begun
  <2> QED
    BY <2>1, <2>2, <2>3, <2>4 DEF Ends, Quiet
<1>3. ASSUME CollectFinishes("ok") PROVE Ends
  <2>1. cmd' \in Commands
    BY <1>3, Names, PatchTypes, Concluded, Answered DEF CollectFinishes
  <2>2. /\ cmd'.pc = "read" /\ cmd'.then = "returned" /\ ~cmd'.guarded
        /\ cmd'.patch.decision = "success" /\ cmd'.patch.status = "completed"
        /\ cmd'.patch.stage = "none" /\ cmd'.patch.task # "failed"
        /\ cmd'.rc = 0 /\ cmd'.kind = "collect-evidence" /\ cmd'.res["evidence"] = "ok"
    BY <1>3, Names DEF CollectFinishes, Conclude, Result, Commands, Working
  <2>3. ~cmd'.long
    BY <1>3 DEF CollectFinishes, Conclude, Commands, CmdInv, Careful, TakesCommand, Working,
       Begun
  <2>4. Needed(cmd') = {"evidence"}
    BY <2>2 DEF Needed
  <2>5. Decided(cmd')
    BY <2>2, <2>3, <2>4 DEF Decided, Writing, Last
  <2>6. OnlyCmd /\ cmd.pc \notin Writing \cup Over \cup {"idle"}
    BY <1>3 DEF CollectFinishes, Writing, Over, Working
  <2> QED
    BY <2>1, <2>2, <2>3, <2>5, <2>6 DEF Ends, Quiet
<1>4. ASSUME CollectFinishes("bad") PROVE Ends
  <2>1. cmd' \in Commands
    BY <1>4, Names, PatchTypes, Concluded, Answered DEF CollectFinishes
  <2>2. Decided(cmd') /\ cmd'.pc = "read"
    BY <1>4, <2>1 DEF CollectFinishes, Conclude, Result, Decided, Writing, Last, Needed,
       Commands, Over, CmdInv, Careful, Working, Begun
  <2>3. OnlyCmd /\ cmd.pc \notin Writing \cup Over \cup {"idle"}
    BY <1>4 DEF CollectFinishes, Writing, Over, Working
  <2>4. cmd'.long => cmd'.kind \in TakesCommand /\ ~cmd'.sent
    BY <1>4, <2>1 DEF CollectFinishes, Conclude, Commands, CmdInv, Careful, Over, Writing,
       Working, Begun
  <2> QED
    BY <2>1, <2>2, <2>3, <2>4 DEF Ends, Quiet
<1>5. ASSUME BootstrapRuns("ok") PROVE Ends
  <2>1. cmd' \in Commands
    BY <1>5, Names, PatchTypes, Concluded, Answered DEF BootstrapRuns
  <2>2. /\ cmd'.pc = "read" /\ cmd'.then = "returned" /\ ~cmd'.guarded
        /\ cmd'.patch.decision = "success" /\ cmd'.patch.status = "completed"
        /\ cmd'.patch.stage = "none" /\ cmd'.patch.task # "failed"
        /\ cmd'.rc = 0 /\ cmd'.kind = "bootstrap-network" /\ cmd'.res["connect"] = "ok"
    BY <1>5, Names DEF BootstrapRuns, Conclude, Result, Commands, Working
  <2>3. ~cmd'.long
    BY <1>5 DEF BootstrapRuns, Conclude, Commands, CmdInv, Careful, TakesCommand, Working, Begun
  <2>4. Needed(cmd') = {"connect"}
    BY <2>2 DEF Needed
  <2>5. Decided(cmd')
    BY <2>2, <2>3, <2>4 DEF Decided, Writing, Last
  <2>6. OnlyCmd /\ cmd.pc \notin Writing \cup Over \cup {"idle"}
    BY <1>5 DEF BootstrapRuns, Writing, Over, Working
  <2> QED
    BY <2>1, <2>2, <2>3, <2>5, <2>6 DEF Ends, Quiet
<1>6. ASSUME BootstrapRuns("bad") PROVE Ends
  <2>1. cmd' \in Commands
    BY <1>6, Names, PatchTypes, Concluded, Answered DEF BootstrapRuns
  <2>2. Decided(cmd') /\ cmd'.pc = "read"
    BY <1>6, <2>1 DEF BootstrapRuns, Conclude, Result, Decided, Writing, Last, Needed, Commands,
       Over, CmdInv, Careful, Working, Begun
  <2>3. OnlyCmd /\ cmd.pc \notin Writing \cup Over \cup {"idle"}
    BY <1>6 DEF BootstrapRuns, Writing, Over, Working
  <2>4. cmd'.long => cmd'.kind \in TakesCommand /\ ~cmd'.sent
    BY <1>6, <2>1 DEF BootstrapRuns, Conclude, Commands, CmdInv, Careful, Over, Writing,
       Working, Begun
  <2> QED
    BY <2>1, <2>2, <2>3, <2>4 DEF Ends, Quiet
<1>7. ASSUME StageFinishes("ok") PROVE Ends
  <2>1. cmd' \in Commands
    BY <1>7, Names, PatchTypes, Concluded, Answered DEF StageFinishes
  <2>2. /\ cmd'.pc = "read" /\ cmd'.then = "returned" /\ ~cmd'.guarded
        /\ cmd'.patch.decision = "success" /\ cmd'.patch.status = "completed"
        /\ cmd'.patch.stage = "none" /\ cmd'.patch.task # "failed"
        /\ cmd'.rc = 0 /\ cmd'.kind = "stage-sd" /\ cmd'.res["stage"] = "ok"
    BY <1>7, Names DEF StageFinishes, Conclude, Result, Commands, Working
  <2>3. ~cmd'.long
    BY <1>7 DEF StageFinishes, Conclude, Commands, CmdInv, Careful, TakesCommand, Working, Begun
  <2>4. Needed(cmd') = {"stage"}
    BY <2>2 DEF Needed
  <2>5. Decided(cmd')
    BY <2>2, <2>3, <2>4 DEF Decided, Writing, Last
  <2>6. OnlyCmd /\ cmd.pc \notin Writing \cup Over \cup {"idle"}
    BY <1>7 DEF StageFinishes, Writing, Over, Working
  <2> QED
    BY <2>1, <2>2, <2>3, <2>5, <2>6 DEF Ends, Quiet
<1>8. ASSUME StageFinishes("bad") PROVE Ends
  <2>1. cmd' \in Commands
    BY <1>8, Names, PatchTypes, Concluded, Answered DEF StageFinishes
  <2>2. Decided(cmd') /\ cmd'.pc = "read"
    BY <1>8, <2>1 DEF StageFinishes, Conclude, Result, Decided, Writing, Last, Needed, Commands,
       Over, CmdInv, Careful, Working, Begun
  <2>3. OnlyCmd /\ cmd.pc \notin Writing \cup Over \cup {"idle"}
    BY <1>8 DEF StageFinishes, Writing, Over, Working
  <2>4. cmd'.long => cmd'.kind \in TakesCommand /\ ~cmd'.sent
    BY <1>8, <2>1 DEF StageFinishes, Conclude, Commands, CmdInv, Careful, Over, Writing,
       Working, Begun
  <2> QED
    BY <2>1, <2>2, <2>3, <2>4 DEF Ends, Quiet
<1>9. ASSUME FetchFileFinishes("ok") PROVE Ends
  <2>1. cmd' \in Commands
    BY <1>9, FetchTypes DEF FetchFileFinishes
  <2>2. /\ cmd'.pc = "read" /\ cmd'.then = "returned" /\ ~cmd'.guarded
        /\ cmd'.patch.decision = "success" /\ cmd'.patch.status = "completed"
        /\ cmd'.patch.stage = "none" /\ cmd'.patch.task # "failed"
        /\ cmd'.rc = 0 /\ cmd'.kind = "fetch-file" /\ cmd'.res["fetch"] = "ok"
    BY <1>9, Names DEF FetchFileFinishes, Conclude, Result, Commands, Working, FetchEnds,
       Transferred
  <2>3. ~cmd'.long
    BY <1>9 DEF FetchFileFinishes, Conclude, Commands, CmdInv, Careful, TakesCommand, Working,
       FetchEnds, Transferred, Begun
  <2>4. Needed(cmd') = {"fetch"}
    BY <2>2 DEF Needed
  <2>5. Decided(cmd')
    BY <2>2, <2>3, <2>4 DEF Decided, Writing, Last
  <2>6. OnlyCmd /\ cmd.pc \notin Writing \cup Over \cup {"idle"}
    BY <1>9 DEF FetchFileFinishes, Writing, Over, Working, FetchEnds, Transferred
  <2> QED
    BY <2>1, <2>2, <2>3, <2>5, <2>6 DEF Ends, Quiet
<1>10. ASSUME FetchFileFinishes("bad") PROVE Ends
  <2>1. cmd' \in Commands
    BY <1>10, FetchTypes DEF FetchFileFinishes
  <2>2. Decided(cmd') /\ cmd'.pc = "read"
    BY <1>10, <2>1 DEF FetchFileFinishes, Conclude, Result, Decided, Writing, Last, Needed,
       Commands, Over, CmdInv, Careful, Working, FetchEnds, Transferred, Begun
  <2>3. OnlyCmd /\ cmd.pc \notin Writing \cup Over \cup {"idle"}
    BY <1>10 DEF FetchFileFinishes, Writing, Over, Working, FetchEnds, Transferred
  <2>4. cmd'.long => cmd'.kind \in TakesCommand /\ ~cmd'.sent
    BY <1>10, <2>1 DEF FetchFileFinishes, Conclude, Commands, CmdInv, Careful, Over, Writing,
       Working, FetchEnds, Transferred, Begun
  <2> QED
    BY <2>1, <2>2, <2>3, <2>4 DEF Ends, Quiet
<1>11. ASSUME FetchPathFinishes("ok") PROVE Ends
  <2>1. cmd' \in Commands
    BY <1>11, FetchTypes DEF FetchPathFinishes
  <2>2. /\ cmd'.pc = "read" /\ cmd'.then = "returned" /\ ~cmd'.guarded
        /\ cmd'.patch.decision = "success" /\ cmd'.patch.status = "completed"
        /\ cmd'.patch.stage = "none" /\ cmd'.patch.task # "failed"
        /\ cmd'.rc = 0 /\ cmd'.kind = "fetch-path" /\ cmd'.res["fetch"] = "ok"
    BY <1>11, Names DEF FetchPathFinishes, Conclude, Result, Commands, Working, FetchEnds,
       Transferred
  <2>3. ~cmd'.long
    BY <1>11 DEF FetchPathFinishes, Conclude, Commands, CmdInv, Careful, TakesCommand, Working,
       FetchEnds, Transferred, Begun
  <2>4. Needed(cmd') = {"fetch"}
    BY <2>2 DEF Needed
  <2>5. Decided(cmd')
    BY <2>2, <2>3, <2>4 DEF Decided, Writing, Last
  <2>6. OnlyCmd /\ cmd.pc \notin Writing \cup Over \cup {"idle"}
    BY <1>11 DEF FetchPathFinishes, Writing, Over, Working, FetchEnds, Transferred
  <2> QED
    BY <2>1, <2>2, <2>3, <2>5, <2>6 DEF Ends, Quiet
<1>12. ASSUME FetchPathFinishes("bad") PROVE Ends
  <2>1. cmd' \in Commands
    BY <1>12, FetchTypes DEF FetchPathFinishes
  <2>2. Decided(cmd') /\ cmd'.pc = "read"
    BY <1>12, <2>1 DEF FetchPathFinishes, Conclude, Result, Decided, Writing, Last, Needed,
       Commands, Over, CmdInv, Careful, Working, FetchEnds, Transferred, Begun
  <2>3. OnlyCmd /\ cmd.pc \notin Writing \cup Over \cup {"idle"}
    BY <1>12 DEF FetchPathFinishes, Writing, Over, Working, FetchEnds, Transferred
  <2>4. cmd'.long => cmd'.kind \in TakesCommand /\ ~cmd'.sent
    BY <1>12, <2>1 DEF FetchPathFinishes, Conclude, Commands, CmdInv, Careful, Over, Writing,
       Working, FetchEnds, Transferred, Begun
  <2> QED
    BY <2>1, <2>2, <2>3, <2>4 DEF Ends, Quiet
<1>13. ASSUME ObserveFinishes("ok") PROVE Ends
  <2>1. cmd' \in Commands
    BY <1>13, Names, PatchTypes, Concluded, Answered DEF ObserveFinishes
  <2>2. /\ cmd'.pc = "read" /\ cmd'.then = "returned" /\ ~cmd'.guarded
        /\ cmd'.patch.decision = "success" /\ cmd'.patch.status = "completed"
        /\ cmd'.patch.stage = "none" /\ cmd'.patch.task # "failed"
        /\ cmd'.rc = 0 /\ cmd'.kind = "observe" /\ cmd'.res["observe"] = "ok"
    BY <1>13, Names DEF ObserveFinishes, Conclude, Result, Commands, Working
  <2>3. ~cmd'.long
    BY <1>13 DEF ObserveFinishes, Conclude, Commands, CmdInv, Careful, TakesCommand, Working,
       Begun
  <2>4. Needed(cmd') = {"observe"}
    BY <2>2 DEF Needed
  <2>5. Decided(cmd')
    BY <2>2, <2>3, <2>4 DEF Decided, Writing, Last
  <2>6. OnlyCmd /\ cmd.pc \notin Writing \cup Over \cup {"idle"}
    BY <1>13 DEF ObserveFinishes, Writing, Over, Working
  <2> QED
    BY <2>1, <2>2, <2>3, <2>5, <2>6 DEF Ends, Quiet
<1>14. ASSUME ObserveFinishes("warn") PROVE Ends
  <2>1. cmd' \in Commands
    BY <1>14, Names, PatchTypes, Concluded, Answered DEF ObserveFinishes
  <2>2. Decided(cmd') /\ cmd'.pc = "read"
    BY <1>14, <2>1 DEF ObserveFinishes, Conclude, Result, Decided, Writing, Last, Needed,
       Commands, Over, CmdInv, Careful, Working, Begun
  <2>3. OnlyCmd /\ cmd.pc \notin Writing \cup Over \cup {"idle"}
    BY <1>14 DEF ObserveFinishes, Writing, Over, Working
  <2>4. cmd'.long => cmd'.kind \in TakesCommand /\ ~cmd'.sent
    BY <1>14, <2>1 DEF ObserveFinishes, Conclude, Commands, CmdInv, Careful, Over, Writing,
       Working, Begun
  <2> QED
    BY <2>1, <2>2, <2>3, <2>4 DEF Ends, Quiet
<1> QED
  BY <1>1, <1>2, <1>3, <1>4, <1>5, <1>6, <1>7, <1>8, <1>9, <1>10, <1>11, <1>12, <1>13, <1>14

\* health writes a success only when both of its parts are fine.
LEMMA HealthAnswers ==
    ASSUME cmd \in Commands, CmdInv(cmd)
    PROVE  \A a \in {"ok", "bad"}, s \in Judged : HealthFinishes(a, s) => Ends
<1>1. ASSUME NEW app \in {"ok", "bad"}, NEW storage \in Judged, HealthFinishes(app, storage)
      PROVE  Ends
  <2> DEFINE res   == [cmd.res EXCEPT !["app"] = app, !["storage"] = storage]
             said  == IF HealthVerdict(res) = "pass" THEN "success" ELSE "continue"
             stage == IF HealthVerdict(res) = "pass" THEN "none" ELSE "validation"
             task  == IF HealthVerdict(res) = "fail" THEN "failed" ELSE "completed"
             p     == [status |-> "completed", decision |-> said, stage |-> stage,
                       task |-> task]
  <2>1. /\ "completed" \in Statuses /\ said \in Decisions \ {"pending"}
        /\ stage \in Stages /\ task \in Tasks
        /\ said # "same" /\ stage # "same"
    BY DEF Statuses, Decisions, Stages, Tasks
  <2>2. p \in Patches
    BY <2>1, PatchTypes
  <2>3. cmd' = [[cmd EXCEPT !.pc = "read", !.patch = p, !.then = "returned",
                            !.guarded = FALSE, !.rc = 0]
                   EXCEPT !.sent = TRUE, !.res = res, !.task = task, !.then = "reread"]
    BY <1>1 DEF HealthFinishes, Conclude
  <2>4. cmd.pc = "work" /\ cmd.kind = "health" /\ OnlyCmd
    BY <1>1 DEF HealthFinishes, Working
  <2>5. ~cmd.long
    BY <2>4 DEF CmdInv, Careful, TakesCommand, Begun
  <2>6. res \in [Parts -> Outcomes] /\ res["app"] = app /\ res["storage"] = storage
    BY DEF Commands, Parts, Outcomes, Judged
  <2>7. said = "success" => (\A q \in {"app", "storage"} : res[q] = "ok") /\ task # "failed"
    BY <2>6 DEF HealthVerdict, Verdict, Judged
  <2>8. /\ cmd'.pc = "read" /\ cmd'.then = "reread" /\ ~cmd'.guarded /\ cmd'.patch = p
        /\ cmd'.rc = 0 /\ cmd'.kind = "health" /\ cmd'.res = res /\ ~cmd'.long
    <3> HIDE DEF p, task, res
    <3> QED
      BY <2>1, <2>2, <2>3, <2>4, <2>5 DEF Commands
  <2>9. Needed(cmd') = {"app", "storage"}
    BY <2>8 DEF Needed
  <2>10. Decided(cmd')
    <3> HIDE DEF said, stage, task, res
    <3> QED
      BY <2>1, <2>7, <2>8, <2>9 DEF Decided, Writing, Last
  <2>11. cmd' \in Commands
    <3> HIDE DEF p, task, res
    <3> QED
      BY <2>1, <2>2, <2>3, <2>6, Names DEF Commands
  <2> QED
    BY <2>4, <2>8, <2>10, <2>11 DEF Ends, Quiet, Writing, Over
<1> QED
  BY <1>1

\* So is a refused command, a login that was not established, or an exception.
LEMMA DeviceFails ==
    ASSUME cmd \in Commands, CmdInv(cmd)
    PROVE  /\ (FetchBlocked("fetch-file") => Ends)
           /\ (FetchBlocked("fetch-path") => Ends)
           /\ (FetchFails("fetch-file") => Ends)
           /\ (FetchFails("fetch-path") => Ends)
           /\ (HealthBlocked => Ends)
           /\ (ObserveFails => Ends)
           /\ (ExecBlocked => Ends)
           /\ (ExecFails => Ends)
           /\ (CollectBlocked => Ends)
           /\ (BootstrapBlocked => Ends)
           /\ (HealthFails => Ends)
           /\ (CollectFails => Ends)
           /\ (BootstrapFails => Ends)
           /\ (ExecRefused => Ends)
<1>1. ASSUME FetchBlocked("fetch-file") PROVE Ends
  <2>1. cmd' \in Commands
    BY <1>1, Names, PatchTypes DEF FetchBlocked, Conclude, Commands, Working, Sent
  <2>2. Decided(cmd') /\ cmd'.pc = "read"
    BY <1>1, <2>1 DEF FetchBlocked, Conclude, Result, Decided, Writing, Last, Needed, Commands,
       Over, CmdInv, Careful, Working, Sent, Begun
  <2>3. OnlyCmd /\ cmd.pc \notin Writing \cup Over \cup {"idle"}
    BY <1>1 DEF FetchBlocked, Writing, Over, Working, Sent
  <2>4. cmd'.long => cmd'.kind \in TakesCommand /\ ~cmd'.sent
    BY <1>1, <2>1 DEF FetchBlocked, Conclude, Commands, CmdInv, Careful, Over, Writing, Working,
       Sent, Begun
  <2> QED
    BY <2>1, <2>2, <2>3, <2>4 DEF Ends, Quiet
<1>2. ASSUME FetchBlocked("fetch-path") PROVE Ends
  <2>1. cmd' \in Commands
    BY <1>2, Names, PatchTypes DEF FetchBlocked, Conclude, Commands, Working, Sent
  <2>2. Decided(cmd') /\ cmd'.pc = "read"
    BY <1>2, <2>1 DEF FetchBlocked, Conclude, Result, Decided, Writing, Last, Needed, Commands,
       Over, CmdInv, Careful, Working, Sent, Begun
  <2>3. OnlyCmd /\ cmd.pc \notin Writing \cup Over \cup {"idle"}
    BY <1>2 DEF FetchBlocked, Writing, Over, Working, Sent
  <2>4. cmd'.long => cmd'.kind \in TakesCommand /\ ~cmd'.sent
    BY <1>2, <2>1 DEF FetchBlocked, Conclude, Commands, CmdInv, Careful, Over, Writing, Working,
       Sent, Begun
  <2> QED
    BY <2>1, <2>2, <2>3, <2>4 DEF Ends, Quiet
<1>3. ASSUME FetchFails("fetch-file") PROVE Ends
  <2>1. cmd' \in Commands
    BY <1>3, Names, PatchTypes DEF FetchFails, Conclude, Commands, Working, Sent
  <2>2. Decided(cmd') /\ cmd'.pc = "read"
    BY <1>3, <2>1 DEF FetchFails, Conclude, Result, Decided, Writing, Last, Needed, Commands,
       Over, CmdInv, Careful, Working, Sent, Begun
  <2>3. OnlyCmd /\ cmd.pc \notin Writing \cup Over \cup {"idle"}
    BY <1>3 DEF FetchFails, Writing, Over, Working, Sent
  <2>4. cmd'.long => cmd'.kind \in TakesCommand /\ ~cmd'.sent
    BY <1>3, <2>1 DEF FetchFails, Conclude, Commands, CmdInv, Careful, Over, Writing, Working,
       Sent, Begun
  <2> QED
    BY <2>1, <2>2, <2>3, <2>4 DEF Ends, Quiet
<1>4. ASSUME FetchFails("fetch-path") PROVE Ends
  <2>1. cmd' \in Commands
    BY <1>4, Names, PatchTypes DEF FetchFails, Conclude, Commands, Working, Sent
  <2>2. Decided(cmd') /\ cmd'.pc = "read"
    BY <1>4, <2>1 DEF FetchFails, Conclude, Result, Decided, Writing, Last, Needed, Commands,
       Over, CmdInv, Careful, Working, Sent, Begun
  <2>3. OnlyCmd /\ cmd.pc \notin Writing \cup Over \cup {"idle"}
    BY <1>4 DEF FetchFails, Writing, Over, Working, Sent
  <2>4. cmd'.long => cmd'.kind \in TakesCommand /\ ~cmd'.sent
    BY <1>4, <2>1 DEF FetchFails, Conclude, Commands, CmdInv, Careful, Over, Writing, Working,
       Sent, Begun
  <2> QED
    BY <2>1, <2>2, <2>3, <2>4 DEF Ends, Quiet
<1>5. ASSUME HealthBlocked PROVE Ends
  <2>1. cmd' \in Commands
    BY <1>5, Names, PatchTypes DEF HealthBlocked, Conclude, Commands, Working, Sent
  <2>2. Decided(cmd') /\ cmd'.pc = "read"
    BY <1>5, <2>1 DEF HealthBlocked, Conclude, Result, Decided, Writing, Last, Needed, Commands,
       Over, CmdInv, Careful, Working, Sent, Begun
  <2>3. OnlyCmd /\ cmd.pc \notin Writing \cup Over \cup {"idle"}
    BY <1>5 DEF HealthBlocked, Writing, Over, Working, Sent
  <2>4. cmd'.long => cmd'.kind \in TakesCommand /\ ~cmd'.sent
    BY <1>5, <2>1 DEF HealthBlocked, Conclude, Commands, CmdInv, Careful, Over, Writing,
       Working, Sent, Begun
  <2> QED
    BY <2>1, <2>2, <2>3, <2>4 DEF Ends, Quiet
<1>6. ASSUME ObserveFails PROVE Ends
  <2>1. cmd' \in Commands
    BY <1>6, Names, PatchTypes DEF ObserveFails, Conclude, Commands, Working, Sent
  <2>2. Decided(cmd') /\ cmd'.pc = "read"
    BY <1>6, <2>1 DEF ObserveFails, Conclude, Result, Decided, Writing, Last, Needed, Commands,
       Over, CmdInv, Careful, Working, Sent, Begun
  <2>3. OnlyCmd /\ cmd.pc \notin Writing \cup Over \cup {"idle"}
    BY <1>6 DEF ObserveFails, Writing, Over, Working, Sent
  <2>4. cmd'.long => cmd'.kind \in TakesCommand /\ ~cmd'.sent
    BY <1>6, <2>1 DEF ObserveFails, Conclude, Commands, CmdInv, Careful, Over, Writing, Working,
       Sent, Begun
  <2> QED
    BY <2>1, <2>2, <2>3, <2>4 DEF Ends, Quiet
<1>7. ASSUME ExecBlocked PROVE Ends
  <2>1. cmd' \in Commands
    BY <1>7, Names, PatchTypes DEF ExecBlocked, Conclude, Commands, Working, Sent
  <2>2. Decided(cmd') /\ cmd'.pc = "read"
    BY <1>7, <2>1 DEF ExecBlocked, Conclude, Result, Decided, Writing, Last, Needed, Commands,
       Over, CmdInv, Careful, Working, Sent, Begun
  <2>3. OnlyCmd /\ cmd.pc \notin Writing \cup Over \cup {"idle"}
    BY <1>7 DEF ExecBlocked, Writing, Over, Working, Sent
  <2>4. cmd'.long => cmd'.kind \in TakesCommand /\ ~cmd'.sent
    BY <1>7, <2>1 DEF ExecBlocked, Conclude, Commands, CmdInv, Careful, Over, Writing, Working,
       Sent, Begun
  <2> QED
    BY <2>1, <2>2, <2>3, <2>4 DEF Ends, Quiet
<1>8. ASSUME ExecFails PROVE Ends
  <2>1. cmd' \in Commands
    BY <1>8, Names, PatchTypes DEF ExecFails, Conclude, Commands, Working, Sent
  <2>2. Decided(cmd') /\ cmd'.pc = "read"
    BY <1>8, <2>1 DEF ExecFails, Conclude, Result, Decided, Writing, Last, Needed, Commands,
       Over, CmdInv, Careful, Working, Sent, Begun
  <2>3. OnlyCmd /\ cmd.pc \notin Writing \cup Over \cup {"idle"}
    BY <1>8 DEF ExecFails, Writing, Over, Working, Sent
  <2>4. cmd'.long => cmd'.kind \in TakesCommand /\ ~cmd'.sent
    BY <1>8, <2>1 DEF ExecFails, Conclude, Commands, CmdInv, Careful, Over, Writing, Working,
       Sent, Begun
  <2> QED
    BY <2>1, <2>2, <2>3, <2>4 DEF Ends, Quiet
<1>9. ASSUME CollectBlocked PROVE Ends
  <2>1. cmd' \in Commands
    BY <1>9, Names, PatchTypes DEF CollectBlocked, Conclude, Commands, Working, Sent
  <2>2. Decided(cmd') /\ cmd'.pc = "read"
    BY <1>9, <2>1 DEF CollectBlocked, Conclude, Result, Decided, Writing, Last, Needed,
       Commands, Over, CmdInv, Careful, Working, Sent, Begun
  <2>3. OnlyCmd /\ cmd.pc \notin Writing \cup Over \cup {"idle"}
    BY <1>9 DEF CollectBlocked, Writing, Over, Working, Sent
  <2>4. cmd'.long => cmd'.kind \in TakesCommand /\ ~cmd'.sent
    BY <1>9, <2>1 DEF CollectBlocked, Conclude, Commands, CmdInv, Careful, Over, Writing,
       Working, Sent, Begun
  <2> QED
    BY <2>1, <2>2, <2>3, <2>4 DEF Ends, Quiet
<1>10. ASSUME BootstrapBlocked PROVE Ends
  <2>1. cmd' \in Commands
    BY <1>10, Names, PatchTypes DEF BootstrapBlocked, Conclude, Commands, Working, Sent
  <2>2. Decided(cmd') /\ cmd'.pc = "read"
    BY <1>10, <2>1 DEF BootstrapBlocked, Conclude, Result, Decided, Writing, Last, Needed,
       Commands, Over, CmdInv, Careful, Working, Sent, Begun
  <2>3. OnlyCmd /\ cmd.pc \notin Writing \cup Over \cup {"idle"}
    BY <1>10 DEF BootstrapBlocked, Writing, Over, Working, Sent
  <2>4. cmd'.long => cmd'.kind \in TakesCommand /\ ~cmd'.sent
    BY <1>10, <2>1 DEF BootstrapBlocked, Conclude, Commands, CmdInv, Careful, Over, Writing,
       Working, Sent, Begun
  <2> QED
    BY <2>1, <2>2, <2>3, <2>4 DEF Ends, Quiet
<1>11. ASSUME HealthFails PROVE Ends
  <2>1. cmd' \in Commands
    BY <1>11, Names, PatchTypes DEF HealthFails, Conclude, Commands, Trying, Sent
  <2>2. Decided(cmd') /\ cmd'.pc = "read"
    BY <1>11, <2>1 DEF HealthFails, Conclude, Result, Decided, Writing, Last, Needed, Commands,
       Over, CmdInv, Careful, Trying, Sent, Begun
  <2>3. OnlyCmd /\ cmd.pc \notin Writing \cup Over \cup {"idle"}
    BY <1>11 DEF HealthFails, Writing, Over, Trying, Sent
  <2>4. cmd'.long => cmd'.kind \in TakesCommand /\ ~cmd'.sent
    BY <1>11, <2>1 DEF HealthFails, Conclude, Commands, CmdInv, Careful, Over, Writing, Trying,
       Sent, Begun
  <2> QED
    BY <2>1, <2>2, <2>3, <2>4 DEF Ends, Quiet
<1>12. ASSUME CollectFails PROVE Ends
  <2>1. cmd' \in Commands
    BY <1>12, Names, PatchTypes DEF CollectFails, Conclude, Commands, Trying, Sent
  <2>2. Decided(cmd') /\ cmd'.pc = "read"
    BY <1>12, <2>1 DEF CollectFails, Conclude, Result, Decided, Writing, Last, Needed, Commands,
       Over, CmdInv, Careful, Trying, Sent, Begun
  <2>3. OnlyCmd /\ cmd.pc \notin Writing \cup Over \cup {"idle"}
    BY <1>12 DEF CollectFails, Writing, Over, Trying, Sent
  <2>4. cmd'.long => cmd'.kind \in TakesCommand /\ ~cmd'.sent
    BY <1>12, <2>1 DEF CollectFails, Conclude, Commands, CmdInv, Careful, Over, Writing, Trying,
       Sent, Begun
  <2> QED
    BY <2>1, <2>2, <2>3, <2>4 DEF Ends, Quiet
<1>13. ASSUME BootstrapFails PROVE Ends
  <2>1. cmd' \in Commands
    BY <1>13, Names, PatchTypes DEF BootstrapFails, Conclude, Commands, Trying, Sent
  <2>2. Decided(cmd') /\ cmd'.pc = "read"
    BY <1>13, <2>1 DEF BootstrapFails, Conclude, Result, Decided, Writing, Last, Needed,
       Commands, Over, CmdInv, Careful, Trying, Sent, Begun
  <2>3. OnlyCmd /\ cmd.pc \notin Writing \cup Over \cup {"idle"}
    BY <1>13 DEF BootstrapFails, Writing, Over, Trying, Sent
  <2>4. cmd'.long => cmd'.kind \in TakesCommand /\ ~cmd'.sent
    BY <1>13, <2>1 DEF BootstrapFails, Conclude, Commands, CmdInv, Careful, Over, Writing,
       Trying, Sent, Begun
  <2> QED
    BY <2>1, <2>2, <2>3, <2>4 DEF Ends, Quiet
<1>14. ASSUME ExecRefused PROVE Ends
  <2>1. cmd' \in Commands
    BY <1>14, Names, PatchTypes DEF ExecRefused, Conclude, Commands, Working, ReportRefused
  <2>2. Decided(cmd') /\ cmd'.pc = "read"
    BY <1>14, <2>1 DEF ExecRefused, Conclude, Result, Decided, Writing, Last, Needed, Commands,
       Over, CmdInv, Careful, Working, ReportRefused, Begun
  <2>3. OnlyCmd /\ cmd.pc \notin Writing \cup Over \cup {"idle"}
    BY <1>14 DEF ExecRefused, Writing, Over, Working, ReportRefused
  <2>4. cmd'.long => cmd'.kind \in TakesCommand /\ ~cmd'.sent
    BY <1>14, <2>1 DEF ExecRefused, Conclude, Commands, CmdInv, Careful, Over, Writing, Working,
       ReportRefused, Begun
  <2> QED
    BY <2>1, <2>2, <2>3, <2>4 DEF Ends, Quiet
<1> QED
  BY <1>1, <1>2, <1>3, <1>4, <1>5, <1>6, <1>7, <1>8, <1>9, <1>10, <1>11, <1>12, <1>13, <1>14

\* What separates the states of the file.
LEMMA FileStates == Torn # NoFile /\ Torn \notin Contents /\ NoFile \notin Contents
<1>1. \A s \in Contents : s # Torn /\ s # NoFile
  <2> SUFFICES ASSUME NEW s \in Contents PROVE s # Torn /\ s # NoFile
    OBVIOUS
  <2>1. DOMAIN s = {"status", "decision", "stage", "task", "count"}
    BY DEF Contents
  <2>2. DOMAIN Torn = {"torn"} /\ DOMAIN NoFile = {"torn"}
    BY DEF Torn, NoFile
  <2> QED
    BY <2>1, <2>2
<1>2. Torn # NoFile
  <2>1. Torn.torn /\ ~NoFile.torn
    BY DEF Torn, NoFile
  <2> QED
    BY <2>1
<1> QED
  BY <1>1, <1>2

-----------------------------------------------------------------------------
(* The steps of the command and the invariant *)

\* A step that leaves the file alone is of a command that has not decided, or that
\* decides now: what is in the file was said before.
LEMMA QuietStep ==
    ASSUME TypeOK, IInv, GoesOn \/ Ends
    PROVE  (TypeOK /\ IInv)'
<1>1. CmdInv(cmd') /\ Quiet
  BY EndsInv DEF GoesOn, Ends
<1>2. ~Decided(cmd) /\ ~Updating(cmd.pc) /\ cmd.pc # "idle"
  BY <1>1 DEF Quiet, Decided, Updating, Writing, Over
<1>3. cmd'.pc \notin {"bootstrap", "truncate", "fill", "idle"} \cup Over
  BY DEF GoesOn, Ends, Over
<1>4. UNCHANGED <<summary, appended, erased, rec, overlap, crashes>>
  BY <1>1 DEF Quiet, OnlyCmd, lines
<1>5. TypeOK'
  BY <1>1, <1>4 DEF TypeOK, Quiet, Commands
<1>6. Whole'
  BY <1>1, <1>2, <1>3, <1>4 DEF IInv, Whole, Updating, Quiet, Over
<1>7. Sayings'
  <2>1. ASSUME NEW s, Says(s) PROVE Says(s)'
    BY <2>1, <1>2 DEF Says, Early
  <2> QED
    BY <2>1, <1>3, <1>4 DEF IInv, Sayings, Updating
<1>8. Alone'
  BY <1>3, <1>4 DEF IInv, Alone, Updating, Written, Over
<1>9. Counts'
  BY <1>3, <1>4 DEF IInv, Counts, Updating, Past, Tallied, Smooth, Recorded
<1> QED
  BY <1>1, <1>5, <1>6, <1>7, <1>8, <1>9 DEF IInv

\* What a command has decided does not change while it writes it down or ends.
LEMMA SameWord ==
    ASSUME TypeOK, CmdInv(cmd), cmd' \in Commands,
           cmd'.kind = cmd.kind, cmd'.skip = cmd.skip, cmd'.spec = cmd.spec,
           cmd'.long = cmd.long, cmd'.task = cmd.task, cmd'.res = cmd.res,
           cmd'.sent = cmd.sent, cmd'.patch = cmd.patch, cmd'.then = cmd.then,
           cmd'.guarded = cmd.guarded
    PROVE  /\ \A s : Told(s)' = Told(s)
           /\ Open(cmd) /\ cmd'.pc # "reread" => Open(cmd')
           /\ Decided(cmd) /\ cmd'.pc \in Writing \cup Over /\ cmd'.rc \in {cmd.rc, 2}
                 => Decided(cmd')
           /\ ~(Decided(cmd) /\ Open(cmd)) /\ ~(Decided(cmd') /\ Open(cmd'))
<1>1. Needed(cmd') = Needed(cmd)
  BY DEF Needed
<1>2. \A s : Told(s)' = Told(s)
  BY DEF Told
<1>3. Open(cmd) /\ cmd'.pc # "reread" => Open(cmd')
  BY DEF Open
<1>4. Decided(cmd) /\ cmd'.pc \in Writing \cup Over /\ cmd'.rc \in {cmd.rc, 2}
         => Decided(cmd')
  BY <1>1 DEF Decided
<1>5. ~(Decided(cmd) /\ Open(cmd)) /\ ~(Decided(cmd') /\ Open(cmd'))
  BY DEF Decided, Open
<1> QED
  BY <1>2, <1>3, <1>4, <1>5

\* The update reads the file and applies the patch: the copy says what was last said.
LEMMA ReadStep ==
    ASSUME TypeOK, IInv, ReadSummary
    PROVE  (TypeOK /\ IInv)'
<1> DEFINE new == Patched(summary, cmd.patch)
<1>1. /\ cmd.pc = "read" /\ cmd' = [cmd EXCEPT !.pc = "truncate", !.copy = new]
      /\ summary # Torn /\ UNCHANGED <<summary, appended, erased, rec, crashes>>
      /\ overlap' = (overlap \/ OthersUpdate)
  BY DEF ReadSummary, lines
<1>2. summary \in Contents /\ cmd \in Commands /\ cmd.patch \in Patches
  BY <1>1 DEF TypeOK, IInv, Whole, Commands
<1>3. new \in Contents /\ new.count = summary.count
  BY <1>2 DEF Patched, Contents, Patches
<1>4. Says(summary) /\ (Open(cmd) \/ Decided(cmd)) /\ CmdInv(cmd)
  BY <1>2 DEF IInv, Sayings, CmdInv
<1>5. Decided(cmd) => Told(new)
  BY <1>2, <1>4 DEF Says, Early, Told, Patched, Patches, Contents, Decided
<1>6. ~Decided(cmd) => Early(new)
  BY <1>2, <1>3, <1>4 DEF Says, Early, Open, Patched
<1> HIDE DEF new
<1>7. /\ cmd' \in Commands /\ cmd'.pc = "truncate" /\ cmd'.copy = new
      /\ cmd'.kind = cmd.kind /\ cmd'.skip = cmd.skip /\ cmd'.spec = cmd.spec
      /\ cmd'.long = cmd.long /\ cmd'.task = cmd.task /\ cmd'.res = cmd.res
      /\ cmd'.sent = cmd.sent /\ cmd'.patch = cmd.patch /\ cmd'.then = cmd.then
      /\ cmd'.guarded = cmd.guarded /\ cmd'.rc = cmd.rc
  BY <1>1, <1>2, <1>3, Names DEF Commands
<1>8. /\ \A s : Told(s)' = Told(s)
      /\ Decided(cmd) <=> Decided(cmd')
      /\ Open(cmd) => Open(cmd')
  BY <1>4, <1>7, SameWord DEF Writing
<1>9. TypeOK'
  BY <1>1, <1>7 DEF TypeOK, Commands
<1>10. CmdInv(cmd')
  BY <1>1, <1>4, <1>7, <1>8 DEF CmdInv, Where, Careful, Writing, Over, Begun
<1>11. Whole'
  BY <1>1, <1>2, <1>3, <1>7, FileStates DEF IInv, Whole, Updating
<1>12. Sayings'
  <2>1. \A s : Says(s) => Says(s)'
    BY <1>8 DEF Says, Early
  <2>2. Updating(cmd'.pc) => Says(cmd.copy)' /\ (Decided(cmd') => Told(cmd.copy)')
    BY <1>5, <1>6, <1>7, <1>8 DEF Says, Early, Told
  <2> QED
    BY <1>1, <2>1, <2>2 DEF IInv, Sayings
<1>13. Alone'
  BY <1>1, <1>7 DEF IInv, Alone, OthersUpdate, Updating, Written
<1>14. Counts'
  BY <1>1, <1>2, <1>3, <1>7 DEF IInv, Counts, Smooth, Past, Tallied, Updating, Recorded
<1> QED
  BY <1>9, <1>10, <1>11, <1>12, <1>13, <1>14 DEF IInv

\* An update that finds the file empty ends in the handler or ends the command.
LEMMA TornStep ==
    ASSUME TypeOK, IInv, ReadTorn
    PROVE  (TypeOK /\ IInv)'
<1>1. /\ cmd.pc = "read" /\ summary = Torn /\ UNCHANGED <<summary, appended, erased, rec, crashes>>
      /\ overlap' = (overlap \/ OthersUpdate) /\ cmd \in Commands
      /\ Open(cmd) \/ Decided(cmd)
  BY DEF ReadTorn, TypeOK, Commands, IInv, CmdInv, lines
<1>2. /\ cmd' \in Commands
      /\ cmd'.kind = cmd.kind /\ cmd'.skip = cmd.skip /\ cmd'.spec = cmd.spec
      /\ cmd'.long = cmd.long /\ cmd'.task = cmd.task /\ cmd'.res = cmd.res
      /\ cmd'.sent = cmd.sent /\ cmd'.patch = cmd.patch /\ cmd'.then = cmd.then
      /\ cmd'.guarded = cmd.guarded
      /\ \/ cmd.guarded /\ cmd'.pc = "raise" /\ cmd'.rc = cmd.rc
         \/ ~cmd.guarded /\ cmd'.pc = "returned" /\ cmd'.rc = 2
  BY <1>1, Names DEF ReadTorn, Commands, lines
<1>3. Decided(cmd) => ~cmd.guarded
  BY DEF Decided
<1>4. /\ \A s : Told(s)' = Told(s)
      /\ Decided(cmd) => Decided(cmd')
      /\ Open(cmd) => Open(cmd')
  BY <1>2, <1>3, SameWord DEF Over, IInv
<1>5. TypeOK'
  BY <1>1, <1>2 DEF TypeOK, Commands
<1>6. CmdInv(cmd')
  BY <1>1, <1>2, <1>3, <1>4 DEF IInv, CmdInv, Where, Careful, Writing, Over, AfterWindow, Begun
<1>7. Whole'
  BY <1>1, <1>2, FileStates DEF IInv, Whole, Updating
<1>8. Sayings'
  <2>1. \A s : Says(s) => Says(s)'
    BY <1>4 DEF Says, Early
  <2> QED
    BY <1>1, <1>2, <2>1 DEF IInv, Sayings, Updating
<1>9. Alone'
  <2>1. ~Written' /\ ~Updating(cmd'.pc)
    BY <1>2 DEF Written, Updating
  <2> QED
    BY <1>1, <2>1 DEF IInv, Alone, Updating
<1>10. Counts'
  BY <1>1, <1>2 DEF IInv, Counts, Smooth, Past, Tallied, Updating, Recorded
<1> QED
  BY <1>5, <1>6, <1>7, <1>8, <1>9, <1>10 DEF IInv

\* The file is emptied; what will be in it is in the copy.
LEMMA TruncateStep ==
    ASSUME TypeOK, IInv, TruncateSummary
    PROVE  (TypeOK /\ IInv)'
<1>1. /\ cmd.pc = "truncate" /\ summary' = Torn
      /\ UNCHANGED <<appended, erased, rec, overlap, crashes>>
      /\ cmd \in Commands /\ (Open(cmd) \/ Decided(cmd))
  BY DEF TruncateSummary, TypeOK, Commands, IInv, CmdInv, lines
<1>2. /\ cmd' \in Commands /\ cmd'.pc = "fill" /\ cmd'.copy = cmd.copy
      /\ cmd'.kind = cmd.kind /\ cmd'.skip = cmd.skip /\ cmd'.spec = cmd.spec
      /\ cmd'.long = cmd.long /\ cmd'.task = cmd.task /\ cmd'.res = cmd.res
      /\ cmd'.sent = cmd.sent /\ cmd'.patch = cmd.patch /\ cmd'.then = cmd.then
      /\ cmd'.guarded = cmd.guarded /\ cmd'.rc = cmd.rc
  BY <1>1, Names DEF TruncateSummary, Commands, lines
<1>3. /\ \A s : Told(s)' = Told(s)
      /\ Decided(cmd) <=> Decided(cmd')
      /\ Open(cmd) => Open(cmd')
  BY <1>1, <1>2, SameWord DEF Writing, IInv
<1>4. TypeOK'
  BY <1>1, <1>2 DEF TypeOK, Commands
<1>5. CmdInv(cmd')
  BY <1>1, <1>2, <1>3 DEF IInv, CmdInv, Where, Careful, Writing, Over, Begun
<1>6. Whole'
  BY <1>1, <1>2, FileStates DEF IInv, Whole, Updating
<1>7. Sayings'
  <2>1. \A s : Says(s) => Says(s)'
    BY <1>3 DEF Says, Early
  <2> QED
    BY <1>1, <1>2, <1>3, <2>1, FileStates DEF IInv, Sayings, Updating
<1>8. Alone'
  BY <1>1, <1>2 DEF IInv, Alone, Updating, Written
<1>9. Counts'
  BY <1>1, <1>2, FileStates DEF IInv, Counts, Smooth, Past, Tallied, Updating, Recorded
<1> QED
  BY <1>4, <1>5, <1>6, <1>7, <1>8, <1>9 DEF IInv

\* The copy is in the file: after the last patch that is the last word, and nobody who
\* works alone has another one in hand.
LEMMA FillStep ==
    ASSUME TypeOK, IInv, FillSummary
    PROVE  (TypeOK /\ IInv)'
<1>1. /\ cmd.pc = "fill" /\ summary' = cmd.copy
      /\ UNCHANGED <<appended, erased, rec, overlap, crashes>>
      /\ cmd \in Commands /\ (Open(cmd) \/ Decided(cmd)) /\ cmd.copy \in Contents
      /\ summary # NoFile
  BY DEF FillSummary, TypeOK, Commands, IInv, CmdInv, Whole, Updating, lines
<1>2. /\ cmd' \in Commands /\ cmd'.pc = cmd.then /\ cmd'.copy = NoFile
      /\ cmd'.kind = cmd.kind /\ cmd'.skip = cmd.skip /\ cmd'.spec = cmd.spec
      /\ cmd'.long = cmd.long /\ cmd'.task = cmd.task /\ cmd'.res = cmd.res
      /\ cmd'.sent = cmd.sent /\ cmd'.patch = cmd.patch /\ cmd'.then = cmd.then
      /\ cmd'.guarded = cmd.guarded /\ cmd'.rc = cmd.rc
  BY <1>1 DEF FillSummary, Commands, lines
<1>3. cmd.then \notin Writing \cup Begun \cup {"raise", "idle"}
  BY <1>1 DEF IInv, CmdInv, Writing
<1>4. /\ Decided(cmd) => cmd.then \in Last
      /\ Open(cmd) => cmd.then \notin Last
      /\ cmd.long => Decided(cmd)
  BY <1>1 DEF Decided, Open, IInv, CmdInv, Careful, Writing, Begun
<1>5. /\ \A s : Told(s)' = Told(s)
      /\ Decided(cmd) <=> Decided(cmd')
      /\ Open(cmd) => Open(cmd')
  BY <1>1, <1>2, <1>4, SameWord DEF Last, Over, IInv
<1>6. TypeOK'
  BY <1>1, <1>2 DEF TypeOK, Commands
<1>7. CmdInv(cmd')
  BY <1>1, <1>2, <1>3, <1>4, <1>5 DEF IInv, CmdInv, Where, Careful, Writing, Over, Last, Begun
<1>8. Whole'
  BY <1>1, <1>2, <1>3, FileStates DEF IInv, Whole, Updating, Writing, Begun
<1>9. Sayings'
  <2>1. \A s : Says(s) => Says(s)'
    BY <1>5 DEF Says, Early
  <2> QED
    BY <1>1, <1>2, <1>3, <2>1 DEF IInv, Sayings, Updating, Writing
<1>10. Alone'
  BY <1>1, <1>2, <1>3, <1>4, <1>5
     DEF IInv, Alone, Sayings, Updating, Written, Writing, Last
<1>11. Counts'
  BY <1>1, <1>2, <1>3 DEF IInv, Counts, Smooth, Past, Tallied, Updating, Writing, Recorded
<1> QED
  BY <1>6, <1>7, <1>8, <1>9, <1>10, <1>11 DEF IInv

\* What run and health print is read again, and says nothing new.
LEMMA RereadStep ==
    ASSUME TypeOK, IInv, Reread
    PROVE  (TypeOK /\ IInv)'
<1>1. /\ cmd.pc = "reread" /\ UNCHANGED <<summary, appended, erased, rec, overlap, crashes>>
      /\ cmd \in Commands
  BY DEF Reread, OnlyCmd, TypeOK, Commands, lines
<1>2. /\ cmd' \in Commands /\ cmd'.pc = "returned" /\ cmd'.rc \in {cmd.rc, 2}
      /\ cmd'.kind = cmd.kind /\ cmd'.skip = cmd.skip /\ cmd'.spec = cmd.spec
      /\ cmd'.long = cmd.long /\ cmd'.task = cmd.task /\ cmd'.res = cmd.res
      /\ cmd'.sent = cmd.sent /\ cmd'.patch = cmd.patch /\ cmd'.then = cmd.then
      /\ cmd'.guarded = cmd.guarded
  BY <1>1, Names DEF Reread, Commands, lines
<1>3. Decided(cmd)
  BY <1>1 DEF IInv, CmdInv, Open
<1>4. (\A s : Told(s)' = Told(s)) /\ Decided(cmd')
  BY <1>1, <1>2, <1>3, SameWord DEF Over, IInv
<1>5. TypeOK'
  BY <1>1, <1>2 DEF TypeOK, Commands
<1>6. CmdInv(cmd')
  BY <1>1, <1>2, <1>4 DEF IInv, CmdInv, Where, Careful, Writing, Over, AfterWindow, Begun
<1>7. Whole'
  BY <1>1, <1>2 DEF IInv, Whole, Updating
<1>8. Sayings'
  <2>1. \A s : Says(s) => Says(s)'
    BY <1>4 DEF Says, Early
  <2> QED
    BY <1>1, <1>2, <2>1 DEF IInv, Sayings, Updating
<1>9. Alone'
  BY <1>1, <1>2, <1>3, <1>4 DEF IInv, Alone, Updating, Written
<1>10. Counts'
  BY <1>1, <1>2 DEF IInv, Counts, Smooth, Past, Tallied, Updating, Recorded
<1> QED
  BY <1>5, <1>6, <1>7, <1>8, <1>9, <1>10 DEF IInv

\* A session begins with no recorder in it, and its summary is empty.
LEMMA BeginStep ==
    ASSUME TypeOK, IInv, NEW k \in Kinds, NEW skip \in BOOLEAN, NEW spec \in BOOLEAN,
           NEW long \in BOOLEAN, long => k \in TakesCommand, Begin(k, skip, spec, long)
    PROVE  (TypeOK /\ IInv)'
<1> DEFINE first == FirstTask[k]
<1>1. k \in AllKinds /\ first \in Tasks /\ first # "failed" /\ "bootstrap" \in Pcs
  BY KindsAssumption DEF FirstTask, Tasks, Pcs
<1> HIDE DEF first
<1>2. /\ cmd.pc = "idle" /\ summary' = Torn /\ cmd \in Commands
      /\ UNCHANGED <<appended, erased, rec, overlap, crashes>>
      /\ cmd' = [cmd EXCEPT !.pc = "bootstrap", !.kind = k, !.skip = skip, !.spec = spec,
                            !.long = long, !.task = first]
  BY DEF Begin, TypeOK, Commands, first, lines
<1>3. /\ cmd' \in Commands /\ cmd'.pc = "bootstrap" /\ cmd'.kind = k /\ cmd'.long = long
      /\ cmd'.task = first /\ cmd'.sent = cmd.sent /\ cmd'.patch = cmd.patch
      /\ cmd'.then = cmd.then
  BY <1>1, <1>2 DEF Commands
<1>4. \A r \in Recorders : rec[r].pc = "idle"
  BY <1>2 DEF IInv, Whole
<1>5. ~cmd.sent /\ Open(cmd)
  BY <1>2 DEF IInv, CmdInv, Careful, Decided, Writing, Over, Begun
<1>6. TypeOK'
  BY <1>2, <1>3 DEF TypeOK, Commands
<1>7. CmdInv(cmd')
  <2>1. Open(cmd')
    BY <1>1, <1>3, <1>5 DEF Open
  <2> QED
    BY <1>2, <1>3, <1>5, <2>1
       DEF IInv, CmdInv, Where, Careful, Begun, Writing, Over, AfterWindow
<1>8. Whole' /\ Sayings' /\ Alone'
  BY <1>2, <1>3, <1>4, FileStates DEF Whole, Sayings, Alone, Updating, Written
<1>9. Counts'
  BY <1>2, <1>3, <1>4, FileStates DEF IInv, Counts, Recorded, Updating
<1> QED
  BY <1>6, <1>7, <1>8, <1>9 DEF IInv

\* The summary is filled before anybody has recorded anything, and says nothing yet.
LEMMA BootstrapFillStep ==
    ASSUME TypeOK, IInv, BootstrapFill
    PROVE  (TypeOK /\ IInv)'
<1>1. /\ cmd.pc = "bootstrap" /\ summary' = Bootstrap(cmd.task) /\ cmd \in Commands
      /\ UNCHANGED <<appended, erased, rec, overlap, crashes>>
      /\ cmd' = [cmd EXCEPT !.pc = "clear"]
  BY DEF BootstrapFill, TypeOK, Commands, lines
<1>2. Open(cmd) /\ ~cmd.sent
  BY <1>1 DEF IInv, CmdInv, Careful, Decided, Begun, Writing, Over
<1>3. \A r \in Recorders : rec[r].pc \in {"idle", "failed"}
  BY <1>1 DEF IInv, Whole
<1>4. /\ cmd' \in Commands /\ cmd'.pc = "clear" /\ cmd'.kind = cmd.kind
      /\ cmd'.long = cmd.long /\ cmd'.task = cmd.task /\ cmd'.res = cmd.res
      /\ cmd'.sent = cmd.sent /\ cmd'.patch = cmd.patch /\ cmd'.then = cmd.then
  <2>1. "clear" \in Pcs
    BY DEF Pcs
  <2> QED BY <1>1, <2>1 DEF Commands
<1>5. /\ summary' \in Contents /\ Early(summary') /\ summary'.count = 0
  BY <1>1, <1>2, Names DEF Bootstrap, Contents, Commands, Early, Open, Statuses, Decisions
<1>6. TypeOK'
  BY <1>1, <1>4, <1>5 DEF TypeOK, Commands
<1>7. CmdInv(cmd')
  <2>1. Open(cmd')
    BY <1>2, <1>4 DEF Open
  <2> QED
    BY <1>1, <1>2, <1>4, <2>1
       DEF IInv, CmdInv, Where, Careful, Begun, Writing, Over, AfterWindow
<1>8. Whole'
  BY <1>1, <1>3, <1>4, <1>5, FileStates DEF Whole, Updating
<1>9. Sayings'
  BY <1>1, <1>3, <1>4, <1>5 DEF Sayings, Says, Early, Updating
<1>10. Alone'
  BY <1>1, <1>3, <1>4 DEF Alone, Updating, Written
<1>11. Counts'
  <2>1. Past' = Past /\ Tallied' = Tallied /\ Recorded' = Recorded
    BY <1>1 DEF Past, Tallied, Recorded
  <2>2. Cardinality(Past) \in Nat
    BY FS_Subset, FS_CardinalityType DEF IInv, Counts, Past, Recorded
  <2>3. Smooth' => Cardinality(Tallied) = 0
    <3>1. Smooth' => Recorded \subseteq Recorders /\ \A r \in Recorders : rec[r].pc = "idle"
      BY <1>1, <1>3 DEF Smooth, Recorded, TypeOK
    <3>2. Smooth' => Tallied = {}
      BY <3>1 DEF Tallied, Recorded
    <3> QED
      BY <3>2, FS_EmptySet
  <2> QED
    BY <1>1, <1>3, <1>4, <1>5, <2>1, <2>2, <2>3 DEF IInv, Counts, Updating
<1> QED
  BY <1>6, <1>7, <1>8, <1>9, <1>10, <1>11 DEF IInv

\* The lines that are erased were written.
LEMMA BootstrapClearStep ==
    ASSUME TypeOK, IInv, BootstrapClear
    PROVE  (TypeOK /\ IInv)'
<1>1. /\ cmd.pc = "clear" /\ appended' = {} /\ erased' = erased \cup appended
      /\ UNCHANGED <<summary, rec, overlap, crashes>> /\ cmd \in Commands
      /\ cmd' = [cmd EXCEPT !.pc = "planned"]
  BY DEF BootstrapClear, TypeOK, Commands
<1>2. Open(cmd) /\ ~cmd.sent
  BY <1>1 DEF IInv, CmdInv, Careful, Decided, Begun, Writing, Over
<1>3. /\ cmd' \in Commands /\ cmd'.pc = "planned" /\ cmd'.kind = cmd.kind
      /\ cmd'.long = cmd.long /\ cmd'.task = cmd.task /\ cmd'.res = cmd.res
      /\ cmd'.sent = cmd.sent /\ cmd'.patch = cmd.patch /\ cmd'.then = cmd.then
  BY <1>1, Names DEF Commands
<1>4. Recorded' = Recorded /\ Past' = Past /\ Tallied' = Tallied
  BY <1>1 DEF Recorded, Past, Tallied
<1>5. TypeOK'
  BY <1>1, <1>3 DEF TypeOK, Commands
<1>6. Open(cmd')
  BY <1>2, <1>3 DEF Open
<1>7. CmdInv(cmd')
  BY <1>1, <1>2, <1>3, <1>6 DEF IInv, CmdInv, Where, Careful, Begun, Writing, Over, AfterWindow
<1>8. Whole'
  BY <1>1, <1>3 DEF IInv, Whole, Updating
<1>9. ~Decided(cmd)
  BY <1>2 DEF Open, Decided
<1>10. Sayings'
  BY <1>1, <1>3, <1>9 DEF IInv, Sayings, Says, Early, Updating
<1>11. Alone'
  BY <1>1, <1>3 DEF IInv, Alone, Updating, Written
<1>12. Counts'
  BY <1>1, <1>3, <1>4 DEF IInv, Counts, Smooth, Updating
<1> QED
  BY <1>5, <1>7, <1>8, <1>10, <1>11, <1>12 DEF IInv

\* stage-sd without a drive has no session at all.
LEMMA NoDriveStep ==
    ASSUME TypeOK, IInv, NoDrive
    PROVE  (TypeOK /\ IInv)'
<1>1. /\ cmd.pc = "idle" /\ UNCHANGED <<summary, appended, erased, rec, overlap, crashes>>
      /\ cmd \in Commands /\ summary = NoFile
  BY DEF NoDrive, OnlyCmd, TypeOK, Commands, IInv, Whole, lines
<1>2. /\ cmd' \in Commands /\ cmd'.pc = "returned" /\ cmd'.kind = "stage-sd"
      /\ cmd'.long = cmd.long /\ cmd'.task = cmd.task
      /\ cmd'.sent = cmd.sent /\ cmd'.patch = cmd.patch /\ cmd'.then = cmd.then
  BY <1>1, Names DEF NoDrive, Commands, AllKinds, lines
<1>3. Open(cmd) /\ ~cmd.long
  BY <1>1 DEF IInv, CmdInv, Careful, Decided, Writing, Over, Begun
<1>4. TypeOK'
  BY <1>1, <1>2 DEF TypeOK, Commands
<1>5. CmdInv(cmd')
  <2>1. Open(cmd')
    BY <1>2, <1>3 DEF Open
  <2> QED
    BY <1>1, <1>2, <1>3, <2>1
       DEF IInv, CmdInv, Where, Careful, Writing, Over, AfterWindow, Begun
<1>6. Whole' /\ Sayings'
  BY <1>1, <1>2, FileStates DEF IInv, Whole, Sayings, Updating
<1>7. Alone' /\ Counts'
  BY <1>1, <1>2, FileStates DEF IInv, Alone, Counts, Updating, Written, Past, Tallied, Smooth,
     Recorded
<1> QED
  BY <1>4, <1>5, <1>6, <1>7 DEF IInv

\* A command that is killed leaves its update as far as it was.
LEMMA CrashCmdStep ==
    ASSUME TypeOK, IInv, CrashCmd
    PROVE  (TypeOK /\ IInv)'
<1>1. /\ cmd.pc \notin {"idle", "returned", "crashed"} /\ crashes' = crashes + 1
      /\ crashes < MaxCrashes /\ UNCHANGED <<summary, appended, erased, rec, overlap>>
      /\ cmd \in Commands /\ (Open(cmd) \/ Decided(cmd))
  BY DEF CrashCmd, TypeOK, Commands, IInv, CmdInv, lines
<1>2. /\ cmd' \in Commands /\ cmd'.pc = "crashed"
      /\ cmd'.kind = cmd.kind /\ cmd'.skip = cmd.skip /\ cmd'.spec = cmd.spec
      /\ cmd'.long = cmd.long /\ cmd'.task = cmd.task /\ cmd'.res = cmd.res
      /\ cmd'.sent = cmd.sent /\ cmd'.patch = cmd.patch /\ cmd'.then = cmd.then
      /\ cmd'.guarded = cmd.guarded /\ cmd'.rc = cmd.rc
  BY <1>1, Names DEF CrashCmd, Commands, lines
<1>3. /\ \A s : Told(s)' = Told(s)
      /\ Decided(cmd) => Decided(cmd')
      /\ Open(cmd) => Open(cmd')
  BY <1>2, SameWord DEF Over, IInv
<1>4. TypeOK'
  BY <1>1, <1>2, BoundAssumption DEF TypeOK, Commands
<1>5. CmdInv(cmd')
  BY <1>1, <1>2, <1>3 DEF IInv, CmdInv, Where, Careful, Writing, Over, AfterWindow, Begun
<1>6. Whole'
  BY <1>1, <1>2 DEF IInv, Whole, Updating
<1>7. Sayings'
  <2>1. \A s : Says(s) => Says(s)'
    BY <1>3 DEF Says, Early
  <2> QED
    BY <1>1, <1>2, <2>1 DEF IInv, Sayings, Updating
<1>8. Alone'
  BY <1>1, <1>2 DEF IInv, Alone, Updating, Written
<1>9. Counts'
  BY <1>1, <1>2 DEF IInv, Counts, Updating, Past, Tallied, Smooth, TypeOK, Recorded
<1> QED
  BY <1>4, <1>5, <1>6, <1>7, <1>8, <1>9 DEF IInv

-----------------------------------------------------------------------------
(* The steps of the recorders and the invariant *)

\* What a recorder does not change.
LEMMA CmdStays ==
    ASSUME TypeOK, IInv, cmd' = cmd
    PROVE  /\ cmd' \in Commands /\ CmdInv(cmd')
           /\ \A s : Says(s)' = Says(s)
           /\ \A s : Told(s)' = Told(s)
           /\ Decided(cmd)' = Decided(cmd)
  BY DEF TypeOK, Commands, IInv, Says, Early, Told

\* The recorders before their line, and the one that checks what it has counted.
LEMMA RecLoadStep ==
    ASSUME TypeOK, IInv, NEW r \in Recorders, RecLoad(r)
    PROVE  (TypeOK /\ IInv)'
<1> DEFINE pc == IF summary = Torn THEN "failed" ELSE "append"
<1>1. pc \in {"failed", "append"}
  OBVIOUS
<1>2. /\ rec[r].pc = "idle" /\ summary # NoFile /\ rec' = [rec EXCEPT ![r].pc = pc]
      /\ UNCHANGED <<cmd, summary, appended, erased, overlap, crashes>>
      /\ r \notin Recorded
  BY DEF RecLoad, RecStep, IInv, Counts, lines
<1> HIDE DEF pc
<1>3. /\ rec' \in [Recorders -> [pc : RecPcs, copy : Contents \cup {NoFile}]]
      /\ rec'[r].pc = pc
      /\ \A q \in Recorders : q # r => rec'[q] = rec[q]
  BY <1>1, <1>2 DEF TypeOK, RecPcs
<1>4. TypeOK'
  BY <1>2, <1>3 DEF TypeOK
<1>5. Whole'
  <2>1. summary = Torn => pc = "failed"
    BY DEF pc
  <2> QED BY <1>1, <1>2, <1>3, <2>1 DEF IInv, Whole, Updating
<1>6. Sayings'
  BY <1>1, <1>2, <1>3, CmdStays DEF IInv, Sayings, Updating
<1>7. Alone'
  BY <1>1, <1>2, <1>3, CmdStays DEF IInv, Alone, Updating, Written
<1>8. Counts'
  <2>1. Past' = Past /\ Tallied' = Tallied
    BY <1>2, <1>3 DEF Past, Tallied, TypeOK, Recorded
  <2>2. Smooth' => Smooth
    BY <1>2, <1>3 DEF Smooth
  <2> QED
    BY <1>1, <1>2, <1>3, <2>1, <2>2 DEF IInv, Counts, Recorded, Updating
<1> QED
  BY <1>2, <1>4, <1>5, <1>6, <1>7, <1>8, CmdStays DEF IInv

\* A line that is appended is not counted yet.
LEMMA RecAppendStep ==
    ASSUME TypeOK, IInv, NEW r \in Recorders, RecAppend(r)
    PROVE  (TypeOK /\ IInv)'
<1>1. /\ rec[r].pc = "append" /\ rec' = [rec EXCEPT ![r].pc = "read"]
      /\ appended' = appended \cup {r} /\ UNCHANGED <<erased, cmd, summary, overlap, crashes>>
      /\ r \notin Recorded
  BY DEF RecAppend, RecStep, IInv, Counts, lines
<1>2. /\ rec' \in [Recorders -> [pc : RecPcs, copy : Contents \cup {NoFile}]]
      /\ rec'[r].pc = "read"
      /\ \A q \in Recorders : q # r => rec'[q] = rec[q]
  BY <1>1 DEF TypeOK, RecPcs
<1>3. TypeOK'
  BY <1>1, <1>2 DEF TypeOK
<1>4. Whole'
  BY <1>1, <1>2 DEF IInv, Whole, Updating
<1>5. Sayings'
  BY <1>1, <1>2, CmdStays DEF IInv, Sayings, Updating
<1>6. Alone'
  BY <1>1, <1>2, CmdStays DEF IInv, Alone, Updating, Written
<1>7. Counts'
  <2>1. Past' = Past /\ Tallied' = Tallied
    BY <1>1, <1>2 DEF Past, Tallied, TypeOK, Recorded
  <2>2. Smooth' => Smooth
    BY <1>1, <1>2 DEF Smooth
  <2>3. Recorded' = Recorded \cup {r}
    BY <1>1 DEF Recorded
  <2>4. IsFiniteSet(Recorded')
    <3>1. IsFiniteSet(Recorded)
      BY DEF IInv, Counts
    <3>2. IsFiniteSet(Recorded \cup {r})
      BY <3>1, FS_AddElement
    <3> QED
      BY <2>3, <3>2
  <2>5. \A q \in Recorders :
           /\ rec'[q].pc \in {"idle", "append"} => q \notin Recorded'
           /\ rec'[q].pc \in {"read", "truncate", "fill", "check", "done"} => q \in Recorded'
    BY <1>2, <2>3 DEF IInv, Counts
  <2>6. \A q \in Recorders :
           Updating(rec'[q].pc) => Updating(rec[q].pc) /\ rec'[q].copy = rec[q].copy
    BY <1>2 DEF Updating
  <2> QED
    BY <1>1, <2>1, <2>2, <2>4, <2>5, <2>6 DEF IInv, Counts, Updating
<1> QED
  BY <1>1, <1>3, <1>4, <1>5, <1>6, <1>7, CmdStays DEF IInv

\* One line more that may be counted: the bounds on the counts stay true.
LEMMA OneMore ==
    ASSUME TypeOK, IInv, NEW r \in Recorders, rec[r].pc = "read",
           rec' \in [Recorders -> [pc : RecPcs, copy : Contents \cup {NoFile}]],
           rec'[r].pc # "read", \A q \in Recorders : q # r => rec'[q] = rec[q],
           UNCHANGED <<appended, erased>>
    PROVE  /\ Past' = Past \cup {r} /\ r \notin Past
           /\ Cardinality(Past') = Cardinality(Past) + 1
           /\ Cardinality(Past) \in Nat
<1>1. r \in Recorded /\ IsFiniteSet(Recorded)
  BY DEF IInv, Counts, Recorded
<1>2. Past' = Past \cup {r} /\ r \notin Past
  BY <1>1 DEF Past, TypeOK, Recorded
<1>3. IsFiniteSet(Past)
  BY <1>1, FS_Subset DEF Past, Recorded
<1> QED
  BY <1>2, <1>3, FS_AddElement, FS_CardinalityType

\* The second reading: the copy counts one more than the file it was made from.
LEMMA RecReadStep ==
    ASSUME TypeOK, IInv, NEW r \in Recorders, RecRead(r)
    PROVE  (TypeOK /\ IInv)'
<1>1. /\ rec[r].pc = "read" /\ UNCHANGED <<cmd, summary, appended, erased, crashes>>
      /\ overlap' = (overlap \/ OthersWrite(r)) /\ summary # NoFile
  BY DEF RecRead, IInv, Whole, lines
<1>a. overlap' \in BOOLEAN
  BY <1>1 DEF TypeOK
<1>2. CASE summary = Torn
  <2>1. /\ rec' \in [Recorders -> [pc : RecPcs, copy : Contents \cup {NoFile}]]
        /\ rec'[r].pc = "failed"
        /\ \A q \in Recorders : q # r => rec'[q] = rec[q]
    BY <1>2 DEF RecRead, TypeOK, RecPcs, lines
  <2>2. TypeOK'
    BY <1>1, <1>a, <2>1 DEF TypeOK
  <2>3. Whole'
    BY <1>1, <2>1 DEF IInv, Whole, Updating
  <2>4. Sayings'
    BY <1>1, <2>1, CmdStays DEF IInv, Sayings, Updating
  <2>5. Alone'
    BY <1>1, <2>1, CmdStays DEF IInv, Alone, Updating, Written
  <2>6. Counts'
    <3>1. Cardinality(Past') = Cardinality(Past) + 1 /\ Cardinality(Past) \in Nat
      BY <1>1, <2>1, OneMore
    <3>2. ~Smooth'
      BY <2>1 DEF Smooth
    <3>3. \A c \in Contents : c.count \in Nat
      BY DEF Contents
    <3>4. Updating(cmd.pc) => cmd.copy.count <= Cardinality(Past')
      BY <3>1, <3>3 DEF IInv, Counts, Whole
    <3>5. \A q \in Recorders : Updating(rec[q].pc) => rec[q].copy.count <= Cardinality(Past')
      BY <3>1, <3>3 DEF IInv, Counts, Whole
    <3> QED
      BY <1>1, <1>2, <2>1, <3>2, <3>4, <3>5, FileStates DEF IInv, Counts, Recorded, Updating
  <2> QED
    BY <1>1, <2>2, <2>3, <2>4, <2>5, <2>6, CmdStays DEF IInv
<1>3. CASE summary # Torn
  <2> DEFINE new == Counted(summary)
  <2>1. summary \in Contents /\ Says(summary)
    BY <1>1, <1>3 DEF TypeOK, IInv, Sayings
  <2>2. /\ new \in Contents /\ new.count = summary.count + 1
        /\ Says(new) /\ (Told(summary) => Told(new))
    BY <2>1 DEF Counted, Contents, Says, Early, Told
  <2>3. rec' = [rec EXCEPT ![r].pc = "truncate", ![r].copy = new]
    BY <1>3 DEF RecRead, lines
  <2> HIDE DEF new
  <2>4. /\ rec' \in [Recorders -> [pc : RecPcs, copy : Contents \cup {NoFile}]]
        /\ rec'[r].pc = "truncate" /\ rec'[r].copy = new
        /\ \A q \in Recorders : q # r => rec'[q] = rec[q]
    BY <2>2, <2>3 DEF TypeOK, RecPcs
  <2>5. TypeOK'
    BY <1>1, <1>a, <2>4 DEF TypeOK
  <2>6. Whole'
    BY <1>1, <2>2, <2>4 DEF IInv, Whole, Updating
  <2>7. Sayings'
    BY <1>1, <2>2, <2>4, CmdStays DEF IInv, Sayings, Updating
  <2>8. Alone'
    BY <1>1, <2>1, <2>2, <2>4, CmdStays DEF IInv, Alone, Updating, Written, OthersWrite
  <2>9. Counts'
    <3>1. Cardinality(Past') = Cardinality(Past) + 1 /\ Cardinality(Past) \in Nat
      BY <1>1, <2>4, OneMore
    <3>2. Tallied' = Tallied
      BY <1>1, <2>4 DEF Tallied, TypeOK, Recorded
    <3>3. Smooth' => Smooth
      BY <1>1, <2>4 DEF Smooth
    <3>4. \A c \in Contents : c.count \in Nat
      BY DEF Contents
    <3>5. /\ summary.count <= Cardinality(Past') /\ new.count <= Cardinality(Past')
          /\ Updating(cmd.pc) => cmd.copy.count <= Cardinality(Past')
      BY <2>1, <2>2, <3>1, <3>4 DEF IInv, Counts, Whole
    <3>6. \A q \in Recorders : Updating(rec[q].pc) => rec[q].copy.count <= Cardinality(Past')
      BY <3>1, <3>4 DEF IInv, Counts, Whole
    <3> QED
      BY <1>1, <2>1, <2>2, <2>4, <3>2, <3>3, <3>5, <3>6 DEF IInv, Counts, Recorded, Updating
  <2> QED
    BY <1>1, <2>5, <2>6, <2>7, <2>8, <2>9, CmdStays DEF IInv
<1> QED
  BY <1>2, <1>3

\* The recorder empties the file.
LEMMA RecTruncateStep ==
    ASSUME TypeOK, IInv, NEW r \in Recorders, RecTruncate(r)
    PROVE  (TypeOK /\ IInv)'
<1>1. /\ rec[r].pc = "truncate" /\ rec' = [rec EXCEPT ![r].pc = "fill"] /\ summary' = Torn
      /\ UNCHANGED <<cmd, appended, erased, overlap, crashes>>
  BY DEF RecTruncate, RecStep, lines
<1>2. /\ rec' \in [Recorders -> [pc : RecPcs, copy : Contents \cup {NoFile}]]
      /\ rec'[r].pc = "fill" /\ rec'[r].copy = rec[r].copy
      /\ \A q \in Recorders : q # r => rec'[q] = rec[q]
  BY <1>1 DEF TypeOK, RecPcs
<1>3. \A q \in Recorders :
         (Updating(rec'[q].pc) <=> Updating(rec[q].pc)) /\ rec'[q].copy = rec[q].copy
  BY <1>1, <1>2 DEF Updating
<1>4. TypeOK'
  BY <1>1, <1>2 DEF TypeOK
<1>5. Whole'
  BY <1>1, <1>2, <1>3, FileStates DEF IInv, Whole
<1>6. Sayings'
  BY <1>1, <1>3, CmdStays, FileStates DEF IInv, Sayings
<1>7. Alone'
  BY <1>1, <1>3, CmdStays, FileStates DEF IInv, Alone, Whole, Written
<1>8. Counts'
  <2>1. Past' = Past /\ Tallied' = Tallied
    BY <1>1, <1>2 DEF Past, Tallied, TypeOK, Recorded
  <2>2. Smooth' => Smooth
    BY <1>1, <1>2 DEF Smooth
  <2> QED
    BY <1>1, <1>2, <1>3, <2>1, <2>2, FileStates DEF IInv, Counts, Recorded
<1> QED
  BY <1>1, <1>4, <1>5, <1>6, <1>7, <1>8, CmdStays DEF IInv

\* The recorder fills it, and its line is counted; alone, it has counted from what all
\* the others had written.
LEMMA RecFillStep ==
    ASSUME TypeOK, IInv, NEW r \in Recorders, RecFill(r)
    PROVE  (TypeOK /\ IInv)'
<1>1. /\ rec[r].pc = "fill" /\ rec' = [rec EXCEPT ![r] = [pc |-> "check", copy |-> NoFile]]
      /\ summary' = rec[r].copy /\ UNCHANGED <<cmd, appended, erased, overlap, crashes>>
      /\ rec[r].copy \in Contents /\ summary # NoFile /\ r \in Recorded
  BY DEF RecFill, IInv, Whole, Updating, Counts, lines
<1>2. /\ rec' \in [Recorders -> [pc : RecPcs, copy : Contents \cup {NoFile}]]
      /\ rec'[r].pc = "check"
      /\ \A q \in Recorders : q # r => rec'[q] = rec[q]
  BY <1>1 DEF TypeOK, RecPcs
<1>3. Updating(rec[r].pc) /\ ~Updating(rec'[r].pc)
  BY <1>1, <1>2 DEF Updating
<1>4. TypeOK'
  BY <1>1, <1>2 DEF TypeOK
<1>5. Whole'
  BY <1>1, <1>2, <1>3, FileStates DEF IInv, Whole
<1>6. Sayings'
  BY <1>1, <1>2, <1>3, CmdStays DEF IInv, Sayings
<1>7. Alone'
  <2>1. Updating(rec'[r].pc) = FALSE
    BY <1>3
  <2> QED
    BY <1>1, <1>2, <1>3, CmdStays DEF IInv, Alone, Written
<1>8. Counts'
  <2>1. Past' = Past /\ Tallied' = Tallied \cup {r} /\ r \notin Tallied
    BY <1>1, <1>2 DEF Past, Tallied, TypeOK, Recorded
  <2>2. Cardinality(Tallied') = Cardinality(Tallied) + 1
    <3>1. IsFiniteSet(Tallied)
      BY FS_Subset DEF IInv, Counts, Tallied, Recorded
    <3> QED
      BY <2>1, <3>1, FS_AddElement
  <2>3. Smooth' => Smooth
    BY <1>1, <1>2 DEF Smooth
  <2>4. Smooth' => ~Updating(cmd.pc) /\ \A q \in Recorders : ~Updating(rec'[q].pc)
    BY <1>2, <1>3, <2>3 DEF IInv, Alone, Smooth
  <2>5. Smooth' => summary'.count = Cardinality(Tallied')
    BY <1>1, <1>3, <2>2, <2>3 DEF IInv, Counts, Recorded
  <2> QED
    BY <1>1, <1>2, <1>3, <2>1, <2>4, <2>5 DEF IInv, Counts, Recorded
<1> QED
  BY <1>1, <1>4, <1>5, <1>6, <1>7, <1>8, CmdStays DEF IInv

\* The count that is printed is only read.
LEMMA RecCheckStep ==
    ASSUME TypeOK, IInv, NEW r \in Recorders, RecCheck(r)
    PROVE  (TypeOK /\ IInv)'
<1> DEFINE pc == IF summary = Torn THEN "failed" ELSE "done"
<1>1. pc \in {"failed", "done"}
  OBVIOUS
<1>2. /\ rec[r].pc = "check" /\ rec' = [rec EXCEPT ![r].pc = pc]
      /\ UNCHANGED <<cmd, summary, appended, erased, overlap, crashes>>
  BY DEF RecCheck, RecStep, lines
<1> HIDE DEF pc
<1>3. /\ rec' \in [Recorders -> [pc : RecPcs, copy : Contents \cup {NoFile}]]
      /\ rec'[r].pc = pc
      /\ \A q \in Recorders : q # r => rec'[q] = rec[q]
  BY <1>1, <1>2 DEF TypeOK, RecPcs
<1>4. TypeOK'
  BY <1>2, <1>3 DEF TypeOK
<1>5. Whole'
  BY <1>1, <1>2, <1>3 DEF IInv, Whole, Updating
<1>6. Sayings'
  BY <1>1, <1>2, <1>3, CmdStays DEF IInv, Sayings, Updating
<1>7. Alone'
  BY <1>1, <1>2, <1>3, CmdStays DEF IInv, Alone, Updating, Written
<1>8. Counts'
  <2>1. Past' = Past
    BY <1>1, <1>2, <1>3 DEF Past, TypeOK, Recorded
  <2>2. Smooth' => Smooth /\ pc = "done"
    BY <1>1, <1>2, <1>3 DEF Smooth
  <2>3. Smooth' => Tallied' = Tallied
    BY <1>1, <1>2, <1>3, <2>2 DEF Tallied, TypeOK, Recorded
  <2> QED
    BY <1>1, <1>2, <1>3, <2>1, <2>2, <2>3 DEF IInv, Counts, Recorded, Updating
<1> QED
  BY <1>2, <1>4, <1>5, <1>6, <1>7, <1>8, CmdStays DEF IInv

\* A recorder that is killed has counted its line or never will.
LEMMA CrashRecorderStep ==
    ASSUME TypeOK, IInv, NEW r \in Recorders, CrashRecorder(r)
    PROVE  (TypeOK /\ IInv)'
<1>1. /\ rec[r].pc \notin {"idle", "done", "failed", "crashed"}
      /\ rec' = [rec EXCEPT ![r].pc = "crashed"] /\ crashes' = crashes + 1
      /\ crashes < MaxCrashes /\ UNCHANGED <<cmd, summary, appended, erased, overlap>>
  BY DEF CrashRecorder, RecStep, lines
<1>2. /\ rec' \in [Recorders -> [pc : RecPcs, copy : Contents \cup {NoFile}]]
      /\ rec'[r].pc = "crashed"
      /\ \A q \in Recorders : q # r => rec'[q] = rec[q]
  BY <1>1 DEF TypeOK, RecPcs
<1>3. TypeOK'
  BY <1>1, <1>2, BoundAssumption DEF TypeOK
<1>4. Whole'
  BY <1>1, <1>2 DEF IInv, Whole, Updating
<1>5. Sayings'
  BY <1>1, <1>2, CmdStays DEF IInv, Sayings, Updating
<1>6. Alone'
  BY <1>1, <1>2, CmdStays DEF IInv, Alone, Updating, Written
<1>7. Counts'
  <2>1. Past \subseteq Past' /\ Past' \subseteq Recorded
    BY <1>1, <1>2 DEF Past, TypeOK, Recorded
  <2>2. /\ Cardinality(Past) \in Nat /\ Cardinality(Past') \in Nat
        /\ Cardinality(Past) <= Cardinality(Past')
    BY <2>1, FS_Subset, FS_CardinalityType DEF IInv, Counts, Recorded
  <2>3. ~Smooth'
    BY <1>1 DEF Smooth, TypeOK
  <2>4. \A c \in Contents : c.count \in Nat
    BY DEF Contents
  <2>5. /\ summary \in Contents => summary.count <= Cardinality(Past')
        /\ Updating(cmd.pc) => cmd.copy.count <= Cardinality(Past')
    BY <2>2, <2>4 DEF IInv, Counts, Whole
  <2>6. \A q \in Recorders : Updating(rec[q].pc) => rec[q].copy.count <= Cardinality(Past')
    BY <2>2, <2>4 DEF IInv, Counts, Whole
  <2> QED
    BY <1>1, <1>2, <2>3, <2>5, <2>6 DEF IInv, Counts, Recorded, Updating
<1> QED
  BY <1>1, <1>3, <1>4, <1>5, <1>6, <1>7, CmdStays DEF IInv

-----------------------------------------------------------------------------
(* The theorems *)

\* A session nothing has happened in.
LEMMA InitInv == Init => TypeOK /\ IInv
<1> SUFFICES ASSUME Init PROVE TypeOK /\ IInv
  OBVIOUS
<1>1. /\ cmd.pc = "idle" /\ cmd.then = "idle" /\ cmd.patch = NoPatch /\ ~cmd.long
      /\ ~cmd.sent /\ cmd.task = "precheck" /\ summary = NoFile /\ appended = {} /\ erased = {}
      /\ \A r \in Recorders : rec[r].pc = "idle"
  BY DEF Init
<1>2. "idle" \in Pcs /\ "idle" \in RecPcs /\ "run" \in AllKinds /\ "precheck" \in Tasks
      /\ "none" \in Outcomes
  BY DEF Pcs, RecPcs, AllKinds, Tasks, Outcomes
<1>3. TypeOK
  <2>1. cmd \in Commands
    BY <1>2, Names, PatchTypes DEF Init, Commands
  <2>2. rec \in [Recorders -> [pc : RecPcs, copy : Contents \cup {NoFile}]]
    BY <1>2 DEF Init
  <2> QED
    <3>1. summary = NoFile /\ appended = {} /\ erased = {} /\ overlap = FALSE /\ crashes = 0
      BY DEF Init
    <3>2. 0 \in 0..MaxCrashes
      BY BoundAssumption
    <3> QED
      BY <2>1, <2>2, <3>1, <3>2 DEF TypeOK, Commands
<1>4. CmdInv(cmd)
  <2>1. Open(cmd)
    BY <1>1 DEF Open, NoPatch, Last
  <2> QED
    BY <1>1, <2>1 DEF CmdInv, Where, Careful, Writing, Over, AfterWindow, Begun
<1>5. Whole /\ Sayings /\ Alone
  BY <1>1, FileStates DEF Whole, Sayings, Alone, Updating, Written
<1>6. Counts
  BY <1>1, FileStates, FS_EmptySet DEF Counts, Updating, Past, Tallied, Recorded
<1> QED
  BY <1>3, <1>4, <1>5, <1>6 DEF IInv

\* What is known of the command, of the file, of the copies and of the counts is
\* inductive: every step of the command, of a recorder and every kill keeps it.
THEOREM Step == TypeOK /\ IInv /\ [Next]_vars => (TypeOK /\ IInv)'
<1> SUFFICES ASSUME TypeOK, IInv, [Next]_vars PROVE (TypeOK /\ IInv)'
  OBVIOUS
<1>a. cmd \in Commands /\ CmdInv(cmd)
  BY DEF TypeOK, Commands, IInv
<1>1. CASE Start
  <2>1. CASE NoDrive
    BY <2>1, NoDriveStep
  <2>2. ASSUME NEW k \in Kinds, NEW skip \in BOOLEAN, NEW spec \in BOOLEAN,
               NEW long \in BOOLEAN, long => k \in TakesCommand, Begin(k, skip, spec, long)
        PROVE  (TypeOK /\ IInv)'
    BY <2>2, BeginStep
  <2> QED
    BY <1>1, <2>1, <2>2 DEF Start
<1>2. CASE EndEarly
  BY <1>2, <1>a, EarlyEnds, QuietStep DEF EndEarly
<1>3. CASE RunStep
  <2>1. CASE Reread
    BY <2>1, RereadStep
  <2>2. CASE \E o \in {"ok", "bad"} : RunCollects(o) \/ RunValidates(o)
    BY <2>2, <1>a, RunGoesOn, QuietStep
  <2> QED
    BY <1>3, <1>a, <2>1, <2>2, RunGoesOn, RunEnds, QuietStep DEF RunStep
<1>4. CASE DeviceStep
  <2>1. CASE \E o \in {"ok", "bad"} :
                \/ ExecFinishes(o) \/ CollectFinishes(o) \/ BootstrapRuns(o)
                \/ StageFinishes(o) \/ FetchFileFinishes(o) \/ FetchPathFinishes(o)
    BY <2>1, <1>a, DeviceAnswers, QuietStep
  <2>2. CASE \E o \in {"ok", "warn"} : ObserveFinishes(o)
    BY <2>2, <1>a, DeviceAnswers, QuietStep
  <2>3. CASE \E k \in {"fetch-file", "fetch-path"} : FetchBlocked(k) \/ FetchFails(k)
    BY <2>3, <1>a, DeviceFails, QuietStep
  <2>4. CASE StartHealth \/ EnterTry \/ StartPlain
    BY <2>4, <1>a, Starts, QuietStep
  <2>5. CASE \E a \in {"ok", "bad"}, s \in Judged : HealthFinishes(a, s)
    BY <2>5, <1>a, HealthAnswers, QuietStep
  <2>6. CASE \/ HealthBlocked \/ HealthFails \/ ObserveFails
             \/ ExecRefused \/ ExecBlocked \/ ExecFails
             \/ CollectBlocked \/ CollectFails \/ BootstrapBlocked \/ BootstrapFails
    BY <2>6, <1>a, DeviceFails, QuietStep
  <2> QED
    BY <1>4, <2>1, <2>2, <2>3, <2>4, <2>5, <2>6 DEF DeviceStep
<1>5. CASE UpdateSummary
  BY <1>5, ReadStep, TornStep, TruncateStep, FillStep DEF UpdateSummary
<1>6. CASE CrashCmd
  BY <1>6, CrashCmdStep
<1>7. ASSUME NEW r \in Recorders, Record(r) \/ CrashRecorder(r)
      PROVE  (TypeOK /\ IInv)'
  BY <1>7, RecLoadStep, RecAppendStep, RecReadStep, RecTruncateStep, RecFillStep,
     RecCheckStep, CrashRecorderStep DEF Record
<1>8. CASE UNCHANGED vars
  <2>1. TypeOK'
    BY <1>8 DEF vars, TypeOK, lines
  <2>2. CmdInv(cmd') /\ Sayings'
    BY <1>8, CmdStays DEF vars, IInv, Sayings, lines
  <2>3. Whole' /\ Counts'
    BY <1>8 DEF vars, IInv, Whole, Counts, Past, Tallied, Smooth, Recorded, lines
  <2>4. Alone'
    BY <1>8, CmdStays DEF vars, IInv, Alone, Written, lines
  <2> QED
    BY <2>1, <2>2, <2>3, <2>4 DEF IInv
<1>9. CASE BootstrapFill \/ BootstrapClear
  BY <1>9, BootstrapFillStep, BootstrapClearStep
<1> QED
  BY <1>1, <1>2, <1>3, <1>4, <1>5, <1>6, <1>7, <1>8, <1>9 DEF Next, Command

\* The invariant holds in every state of the program.
THEOREM Safe == Spec => [](TypeOK /\ IInv)
<1> QED
  BY InitInv, Step, PTL DEF Spec

\* The values of every variable, for all commands, recorders and kills.
THEOREM TypeCorrect == Spec => []TypeOK
<1> QED
  BY Safe, PTL

\* A summary that says "success", whoever wrote it last, is of a command whose required
\* parts were all fine.
THEOREM EarnedSuccess == Spec => []SuccessIsEarned
<1>1. TypeOK /\ IInv => SuccessIsEarned
  <2> SUFFICES ASSUME TypeOK, IInv, Readable, summary.decision = "success"
               PROVE  /\ \A p \in Needed(cmd) : cmd.res[p] = "ok"
                      /\ summary.task # "failed"
                      /\ summary.status \notin {"refused", "blocked", "failed", "partial"}
    BY DEF SuccessIsEarned
  <2>1. Says(summary)
    BY DEF TypeOK, Readable, IInv, Sayings
  <2>2. Decided(cmd) /\ Told(summary)
    BY <2>1 DEF Says, Early
  <2> QED
    BY <2>2 DEF Decided, Told
<1> QED
  BY <1>1, Safe, PTL

\* A command that is too long never reaches the device, and a session that says "refused"
\* has sent nothing.
THEOREM NothingSent == Spec => []OversizeNeverSent
<1>1. TypeOK /\ IInv => OversizeNeverSent
  <2> SUFFICES ASSUME TypeOK, IInv PROVE OversizeNeverSent
    OBVIOUS
  <2>1. Readable => Says(summary)
    BY DEF TypeOK, Readable, IInv, Sayings
  <2>2. cmd.long => ~cmd.sent
    BY DEF IInv, CmdInv, Careful, Begun
  <2> QED
    BY <2>1, <2>2 DEF OversizeNeverSent, Says, Early, Decided, Told
<1> QED
  BY <1>1, Safe, PTL

\* When no two updates overlapped, the file holds the last word of a command that has
\* returned, and after a code 1 it never says "success".
THEOREM OutcomeTold == Spec => []FileTellsOutcome
<1>1. TypeOK /\ IInv => FileTellsOutcome
  <2> SUFFICES ASSUME TypeOK, IInv, cmd.pc = "returned", cmd.rc < 2, Readable
               PROVE  /\ ~overlap =>
                            /\ summary.status = cmd.patch.status /\ summary.status # "planned"
                            /\ summary.decision = cmd.patch.decision
                            /\ summary.decision # "pending"
                            /\ summary.stage = cmd.patch.stage
                            /\ cmd.patch.task # "same" => summary.task = cmd.patch.task
                      /\ cmd.rc = 1 => summary.decision # "success"
    BY DEF FileTellsOutcome
  <2>1. summary \in Contents /\ summary # NoFile /\ Says(summary)
    BY DEF TypeOK, Readable, IInv, Sayings
  <2>2. ~overlap => Decided(cmd) /\ Told(summary)
    BY <2>1 DEF IInv, Alone, Written
  <2>3. cmd.rc = 1 => summary.decision # "success"
    BY <2>1 DEF Says, Early, Decided, Told
  <2> QED
    BY <2>2, <2>3 DEF Decided, Told
<1> QED
  BY <1>1, Safe, PTL

\* The count never exceeds the lines, and is exact when nothing overlapped or failed.
THEOREM CountsAreRight == Spec => []RecordsCounted
<1>1. TypeOK /\ IInv => RecordsCounted
  <2> SUFFICES ASSUME TypeOK, IInv, Readable
               PROVE  /\ summary.count <= Cardinality(Recorded)
                      /\ Smooth => summary.count = Cardinality(Tallied)
    BY DEF RecordsCounted, Smooth, Tallied, Recorded
  <2>1. summary \in Contents /\ summary.count \in Nat
    BY DEF TypeOK, Readable, Contents
  <2>2. /\ Cardinality(Past) <= Cardinality(Recorded) /\ Cardinality(Past) \in Nat
        /\ Cardinality(Recorded) \in Nat
    BY FS_Subset, FS_CardinalityType DEF IInv, Counts, Past, Recorded
  <2> QED
    BY <2>1, <2>2 DEF IInv, Counts, Recorded
<1> QED
  BY <1>1, Safe, PTL
=============================================================================
