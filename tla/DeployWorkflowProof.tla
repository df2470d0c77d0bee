------------------------ MODULE DeployWorkflowProof ------------------------
(***************************************************************************)
(* Proofs about DeployWorkflow for any number of calls, any command lines  *)
(* and any number of upload lines: types, the server, the port, whose      *)
(* files are applied, and what a refusal and a failed transfer leave.      *)
(***************************************************************************)
EXTENDS DeployWorkflow, SequenceTheorems, TLAPS

\* A call has sent no line before the upload and not all of them in it.  The
\* bound of chunk in TypeOK rests on it.
CountInv ==
    \A c \in Calls :
        /\ pc[c] \in {"idle", "build", "control", "checks", "probe", "prepare"} => chunk[c] = 0
        /\ pc[c] = "chunks" => chunk[c] < Chunks

\* A stage sends commands of the four kinds.
LEMMA SentIsKind ==
    ASSUME NEW stage PROVE SentAt(stage) \in SUBSET Kinds
BY DEF SentAt, TransferPCs, Kinds

\* The end of a call keeps the types of all that it changes.
LEMMA EndsType ==
    ASSUME TypeOK, NEW c \in Calls,
           NEW status \in Statuses, NEW stage \in Stages, NEW says \in Sayings,
           EndsSaying(c, status, stage, says)
    PROVE  /\ pc' \in [Calls -> PCs]
           /\ opt' \in [Calls -> AllOptions]
           /\ sees' \in [Calls -> SUBSET Modes]
           /\ chunk' \in [Calls -> 0..Chunks]
           /\ bad' \in [Calls -> SUBSET Results]
           /\ out' \in [Calls -> Outcomes]
           /\ control' \in Calls \cup {None}
           /\ serving' \subseteq Calls
           /\ caps' \subseteq Modes
<1>1. pc' \in [Calls -> PCs]
  BY DEF EndsSaying, TypeOK, PCs
<1>2. out' \in [Calls -> Outcomes]
  BY DEF EndsSaying, TypeOK, Outcomes
<1>3. control' \in Calls \cup {None} /\ serving' \subseteq Calls /\ caps' \subseteq Modes
  BY DEF EndsSaying, TypeOK
<1>4. UNCHANGED local
  BY DEF EndsSaying
<1> QED BY <1>1, <1>2, <1>3, <1>4 DEF local, TypeOK

\* So do the leftovers of a transfer, for the device.
LEMMA UnfinishedType ==
    ASSUME TypeOK, NEW c \in Calls, Unfinished(c)
    PROVE  ws' \in Workspaces /\ b64' \in Seq(Calls)
<1>1. ws \in Workspaces /\ b64 \in Seq(Calls)
  BY DEF TypeOK
<1>2. CASE UNCHANGED device
  BY <1>1, <1>2 DEF device
<1>3. CASE ws' \in {[by |-> c, whole |-> w] : w \in BOOLEAN} /\ UNCHANGED b64
  BY <1>1, <1>3 DEF Workspaces
<1>4. CASE b64' = <<>> /\ UNCHANGED ws
  BY <1>1, <1>4
<1>5. CASE b64' = Append(b64, c) /\ UNCHANGED ws
  BY <1>1, <1>5, AppendProperties
<1>6. CASE ws' = [by |-> c, whole |-> FALSE] /\ UNCHANGED b64
  BY <1>1, <1>6 DEF Workspaces
<1> QED BY <1>2, <1>3, <1>4, <1>5, <1>6 DEF Unfinished

\* The histories.
LEMMA SendsType ==
    ASSUME TypeOK, NEW c \in Calls, Sends(c)
    PROVE  sent' \in [Calls -> SUBSET Kinds]
BY SentIsKind DEF Sends, TypeOK

\* What post-pull commands worked on.
LEMMA UsesType ==
    ASSUME TypeOK, NEW c \in Calls, Uses(c)
    PROVE  used' \in [Calls -> Workspaces]
BY DEF Uses, TypeOK

\* failure_stage is one of the documented names.
LEMMA StageIsStage ==
    ASSUME NEW c \in Calls PROVE StageOf(c) \in Stages /\ PullStage(c) \in Stages
<1>1. StageOf(c) \in Stages
  BY DEF StageOf, Stages
<1>2. PullStage(c) \in Stages
  BY DEF PullStage, Stages
<1> QED BY <1>1, <1>2

----------------------------------------------------------------------------
\* An end that leaves the device alone.
LEMMA HostEndType ==
    ASSUME TypeOK, NEW c \in Calls,
           NEW status \in Statuses, NEW stage \in Stages, NEW says \in Sayings,
           EndsSaying(c, status, stage, says), OnHost(c)
    PROVE  TypeOK'
<1>1. UNCHANGED <<ws, b64, sent, used>>
  BY DEF OnHost, device
<1> QED BY <1>1, EndsType DEF TypeOK

\* A step that leaves status and server alone and goes to another stage.
LEMMA GotoType ==
    ASSUME TypeOK, NEW c \in Calls, NEW from, NEW to \in PCs, Goto(c, from, to)
    PROVE  pc' \in [Calls -> PCs]
BY DEF TypeOK, Goto

\* A recorded result is one of those the verdict knows.
LEMMA RecordsType ==
    ASSUME TypeOK, NEW c \in Calls, NEW key \in Results,
           Records(c, key)
    PROVE  /\ bad' \in [Calls -> SUBSET Results]
           /\ opt' = opt /\ sees' = sees /\ chunk' = chunk
<1>1. bad \in [Calls -> SUBSET Results] /\ bad[c] \cup {key} \in SUBSET Results
  BY DEF TypeOK
<1>2. bad' = bad \/ bad' = [bad EXCEPT ![c] = bad[c] \cup {key}]
  BY DEF Records
<1> QED BY <1>1, <1>2 DEF Records

\* The ends of a call.
LEMMA EndingType ==
    ASSUME TypeOK, NEW c \in Calls,
           \/ PullUnavailable(c) \/ PullMisconfigured(c) \/ Refuse(c) \/ FinalizeRefused(c)
           \/ BuildEnds(c)
           \/ LockWaitEnds(c) \/ PortFails(c) \/ ServeFails(c)
           \/ PullVerdict(c) \/ VerifyVerdict(c)
    PROVE  TypeOK'
<1> USE DEF Statuses, Stages, Sayings, Ends, EndsSaying, Refused
<1>1. CASE PullUnavailable(c) \/ PullMisconfigured(c) \/ Refuse(c) \/ FinalizeRefused(c)
  BY <1>1, HostEndType DEF PullUnavailable, PullMisconfigured, Refuse, FinalizeRefused
<1>2. CASE BuildEnds(c)
  <2>1. CASE \E stage \in {"build", "prepare_artifact", "deploy"} : Ends(c, "failed", stage)
    BY <1>2, <2>1, HostEndType, ZenonT(30) DEF BuildEnds
  <2>2. CASE Ends(c, "manual", "manual_upgrade")
    BY <1>2, <2>2, HostEndType DEF BuildEnds
  <2> QED BY <1>2, <2>1, <2>2 DEF BuildEnds
<1>3. CASE LockWaitEnds(c) \/ PortFails(c) \/ ServeFails(c)
  <2>1. Ends(c, "failed", StageOf(c)) /\ OnHost(c)
    BY <1>3 DEF LockWaitEnds, PortFails, ServeFails
  <2> HIDE DEF Statuses, Stages, Sayings, Ends, Refused
  <2>2. "failed" \in Statuses /\ StageOf(c) \in Stages /\ "none" \in Sayings
    BY StageIsStage DEF Statuses, Sayings
  <2> QED BY <2>1, <2>2, HostEndType DEF Ends
<1>4. CASE PullVerdict(c)
  <2>1. PICK status \in {"completed", "failed"} : Ends(c, status, PullStage(c)) /\ OnHost(c)
    BY <1>4 DEF PullVerdict
  <2> HIDE DEF Statuses, Stages, Sayings, Ends, Refused
  <2>2. status \in Statuses /\ PullStage(c) \in Stages /\ "none" \in Sayings
    BY StageIsStage DEF Statuses, Sayings
  <2> QED BY <2>1, <2>2, HostEndType DEF Ends
<1>5. CASE VerifyVerdict(c)
  <2>1. \/ Ends(c, "completed", "none") /\ OnHost(c)
        \/ Ends(c, "manual", "validation") /\ OnHost(c)
        \/ Ends(c, "failed", "validation") /\ OnHost(c)
    BY <1>5 DEF VerifyVerdict
  <2> QED BY <2>1, HostEndType
<1> QED BY <1>1, <1>2, <1>3, <1>4, <1>5

\* The steps on the host.
LEMMA HostStepType ==
    ASSUME TypeOK, NEW c \in Calls, Begin(c) \/ Build(c) \/ Open(c) \/ Serve(c) \/ Capture(c)
    PROVE  TypeOK'
<1>1. UNCHANGED <<ws, b64, sent, used>>
  BY DEF Begin, Build, Open, Serve, Capture, OnHost, device
<1>2. Afterwards(c) \in PCs /\ AfterList(c) \in PCs
  BY DEF Afterwards, AfterList, PCs
<1>3. pc' \in [Calls -> PCs]
  <2>1. CASE Begin(c)
    BY <2>1 DEF Begin, Goto, TypeOK, PCs
  <2>2. CASE Build(c)
    BY <2>2, <1>2 DEF Build, Goto, TypeOK, PCs
  <2>3. CASE Open(c)
    BY <2>3, <1>2 DEF Open, Goto, TypeOK, PCs
  <2>4. CASE Serve(c)
    BY <2>4 DEF Serve, Goto, TypeOK, PCs
  <2>5. CASE Capture(c)
    BY <2>5 DEF Capture, Goto, TypeOK, PCs
  <2> QED BY <2>1, <2>2, <2>3, <2>4, <2>5
<1>4. CASE Begin(c) \/ Build(c) \/ Open(c) \/ Serve(c)
  <2>1. UNCHANGED <<opt, sees, chunk, bad, out, caps>>
    BY <1>4 DEF Begin, Build, Open, Serve, local
  <2>2. control' \in Calls \cup {None} /\ serving' \subseteq Calls
    BY <1>4 DEF Begin, Build, Open, Serve, TypeOK, PortControl!Take
  <2> QED BY <1>1, <1>3, <2>1, <2>2 DEF TypeOK
<1>5. CASE Capture(c)
  <2>1. UNCHANGED <<out, serving, caps>> /\ control' = None
    BY <1>5 DEF Capture, PortControl!Drop
  <2>2. Records(c, "validation") /\ "validation" \in Results
    BY <1>5 DEF Capture, Results
  <2> QED BY <1>1, <1>3, <2>1, <2>2, RecordsType DEF TypeOK
<1> QED BY <1>4, <1>5

\* The commands that are not part of the transfer.
LEMMA CommandType ==
    ASSUME TypeOK, NEW c \in Calls,
           Checks(c) \/ Probe(c) \/ List(c) \/ Apply(c) \/ Reboot(c) \/ Validate(c)
    PROVE  TypeOK'
<1>1. sent' \in [Calls -> SUBSET Kinds] /\ UNCHANGED <<ws, b64>>
  BY SendsType DEF Checks, Probe, List, Apply, Reboot, Validate, device
<1>2. used' \in [Calls -> Workspaces]
  BY UsesType DEF Checks, Probe, List, Apply, Reboot, Validate, TypeOK
<1>3. UNCHANGED <<opt, chunk, out, serving, caps>>
  BY DEF Checks, Probe, List, Apply, Reboot, Validate, Records, local
<1>4. control' \in Calls \cup {None}
  BY DEF Checks, Probe, List, Apply, Reboot, Validate, LeavesPort, TypeOK
<1>5. sees' \in [Calls -> SUBSET Modes]
  <2>1. CASE Probe(c)
    BY <2>1 DEF Probe, TypeOK
  <2>2. CASE ~Probe(c)
    BY <2>2 DEF Checks, List, Apply, Reboot, Validate, Records, local, TypeOK
  <2> QED BY <2>1, <2>2
<1>6. bad' \in [Calls -> SUBSET Results]
  <2>1. CASE Checks(c) \/ List(c) \/ Validate(c)
    BY <2>1, RecordsType DEF Checks, List, Validate, Results
  <2>2. CASE Probe(c) \/ Apply(c) \/ Reboot(c)
    BY <2>2 DEF Probe, Apply, Reboot, local, TypeOK
  <2> QED BY <2>1, <2>2
<1>7. pc' \in [Calls -> PCs]
  <2>1. Afterwards(c) \in PCs /\ AfterList(c) \in PCs /\ AfterApply(c) \in PCs
    BY DEF Afterwards, AfterList, AfterApply, PCs
  <2>2. \E from \in PCs, to \in PCs : Goto(c, from, to)
    BY <2>1 DEF Checks, Probe, List, Apply, Reboot, Validate, PCs
  <2> QED BY <2>2, GotoType
<1> QED BY <1>1, <1>2, <1>3, <1>4, <1>5, <1>6, <1>7 DEF TypeOK

\* The commands of the transfer.
LEMMA TransferType ==
    ASSUME TypeOK, CountInv, NEW c \in Calls,
           \/ HelperFallsBack(c) \/ Pulled(c) \/ TransferFails(c)
           \/ Prepare(c) \/ Upload(c) \/ Finalize(c)
    PROVE  TypeOK'
<1>1. sent' \in [Calls -> SUBSET Kinds]
  BY SendsType DEF HelperFallsBack, Pulled, TransferFails, Prepare, Upload, Finalize
<1>2. ws' \in Workspaces /\ b64' \in Seq(Calls)
  <2>1. CASE HelperFallsBack(c) \/ TransferFails(c)
    BY <2>1, UnfinishedType DEF HelperFallsBack, TransferFails
  <2>2. CASE Pulled(c) \/ Prepare(c) \/ Finalize(c)
    <3>1. ws' \in {ws, Files(c), [by |-> c, whole |-> b64 = [i \in 1..Chunks |-> c]]} /\ b64' \in {b64, <<>>}
      BY <2>2 DEF Pulled, Prepare, Finalize
    <3>2. ws \in Workspaces /\ b64 \in Seq(Calls) /\ <<>> \in Seq(Calls)
      BY DEF TypeOK
    <3>3. [by |-> c, whole |-> b64 = [i \in 1..Chunks |-> c]] \in Workspaces /\ Files(c) \in Workspaces
      <4>1. (b64 = [i \in 1..Chunks |-> c]) \in BOOLEAN
        OBVIOUS
      <4> QED BY <4>1 DEF Files, Workspaces
    <3> QED BY <3>1, <3>2, <3>3
  <2>3. CASE Upload(c)
    BY <2>3, AppendProperties DEF Upload, TypeOK
  <2> QED BY <2>1, <2>2, <2>3
<1>3. UNCHANGED <<opt, sees, out, caps, used>>
  BY DEF HelperFallsBack, Pulled, TransferFails, Prepare, Upload, Finalize, local
<1>4. control' \in Calls \cup {None} /\ serving' \subseteq Calls
  BY DEF HelperFallsBack, Pulled, TransferFails, Prepare, Upload, Finalize, LeavesPort, TypeOK
<1>5. bad' \in [Calls -> SUBSET Results]
  <2>1. bad \in [Calls -> SUBSET Results] /\ bad[c] \cup {"pull"} \in SUBSET Results
    BY DEF TypeOK, Results
  <2>2. bad' = bad \/ bad' = [bad EXCEPT ![c] = bad[c] \cup {"pull"}]
    BY DEF HelperFallsBack, Pulled, TransferFails, Prepare, Upload, Finalize, local
  <2> QED BY <2>1, <2>2
<1>6. pc' \in [Calls -> PCs]
  <2>1. CASE TransferFails(c)
    BY <2>1 DEF TransferFails, Afterwards, PCs, TypeOK
  <2>2. CASE ~TransferFails(c)
    <3>1. \E from \in PCs, to \in PCs : Goto(c, from, to)
      BY <2>2 DEF HelperFallsBack, Pulled, Prepare, Upload, Finalize, PCs
    <3> QED BY <3>1, GotoType
  <2> QED BY <2>1, <2>2
<1>7. chunk' \in [Calls -> 0..Chunks]
  <2>1. CASE Upload(c)
    <3>1. chunk[c] \in 0..Chunks /\ chunk[c] < Chunks /\ Chunks \in Nat
      BY <2>1, ChunksBound DEF Upload, Goto, CountInv, TypeOK
    <3>2. chunk[c] + 1 \in 0..Chunks
      BY <3>1
    <3> QED BY <2>1, <3>2 DEF Upload, TypeOK
  <2>2. CASE ~Upload(c)
    BY <2>2 DEF HelperFallsBack, Pulled, TransferFails, Prepare, Finalize, local, TypeOK
  <2> QED BY <2>1, <2>2
<1> QED BY <1>1, <1>2, <1>3, <1>4, <1>5, <1>6, <1>7 DEF TypeOK

\* The ways in which a call is cut off, or ends itself, with a command sent.
LEMMA CutType ==
    ASSUME TypeOK, NEW c \in Calls, ProbeEnds(c) \/ Raises(c) \/ Killed(c)
    PROVE  TypeOK'
<1>1. CASE ProbeEnds(c)
  <2>1. PICK status \in {"failed", "refused"}, stage \in {StageOf(c), "validate_command"},
             says \in {"none", "checks"} : EndsSaying(c, status, stage, says)
    BY <1>1 DEF ProbeEnds, Ends, Refused
  <2>2. status \in Statuses /\ stage \in Stages /\ says \in Sayings
    BY StageIsStage DEF Statuses, Stages, Sayings
  <2>3. sent' \in [Calls -> SUBSET Kinds] /\ UNCHANGED <<ws, b64, used>>
    BY <1>1, SendsType DEF ProbeEnds, device
  <2> QED BY <2>1, <2>2, <2>3, EndsType DEF TypeOK
<1>2. CASE Raises(c)
  <2>1. CASE Ends(c, "blocked", "establish_control") /\ UNCHANGED <<device, sent, used>>
    BY <2>1, HostEndType DEF OnHost, Statuses, Stages, Sayings, Ends
  <2>2. CASE Ends(c, "failed", StageOf(c)) /\ Unfinished(c) /\ Sends(c) /\ Uses(c)
    <3>1. "failed" \in Statuses /\ StageOf(c) \in Stages /\ "none" \in Sayings
      BY StageIsStage DEF Statuses, Sayings
    <3> QED BY <2>2, <3>1, EndsType, UnfinishedType, SendsType, UsesType DEF TypeOK, Ends
  <2> QED BY <1>2, <2>1, <2>2 DEF Raises
<1>3. CASE Killed(c)
  <2>1. ws' \in Workspaces /\ b64' \in Seq(Calls) /\ sent' \in [Calls -> SUBSET Kinds]
          /\ used' \in [Calls -> Workspaces]
    <3>1. CASE UNCHANGED <<device, sent, used>>
      BY <3>1 DEF TypeOK, device
    <3>2. CASE Unfinished(c) /\ Sends(c) /\ Uses(c)
      BY <3>2, UnfinishedType, SendsType, UsesType
    <3> QED BY <1>3, <3>1, <3>2 DEF Killed
  <2>2. pc' \in [Calls -> PCs] /\ control' \in Calls \cup {None} /\ serving' \subseteq Calls
    BY <1>3 DEF Killed, TypeOK, PCs
  <2>3. UNCHANGED <<opt, sees, chunk, bad, out, caps>>
    BY <1>3 DEF Killed, local
  <2> QED BY <2>1, <2>2, <2>3 DEF TypeOK
<1> QED BY <1>1, <1>2, <1>3

----------------------------------------------------------------------------
\* The steps of a call, by what they change.
EndingStep(c) ==
    \/ PullUnavailable(c) \/ PullMisconfigured(c) \/ Refuse(c) \/ FinalizeRefused(c)
    \/ BuildEnds(c)
    \/ LockWaitEnds(c) \/ PortFails(c) \/ ServeFails(c)
    \/ PullVerdict(c) \/ VerifyVerdict(c)
HostStep(c)     == Begin(c) \/ Build(c) \/ Open(c) \/ Serve(c) \/ Capture(c)
CommandStep(c)  == Checks(c) \/ Probe(c) \/ List(c) \/ Apply(c) \/ Reboot(c) \/ Validate(c)
TransferStep(c) == \/ HelperFallsBack(c) \/ Pulled(c) \/ TransferFails(c)
                   \/ Prepare(c) \/ Upload(c) \/ Finalize(c)
CutStep(c)      == ProbeEnds(c) \/ Raises(c) \/ Killed(c)
Step(c) == EndingStep(c) \/ HostStep(c) \/ CommandStep(c) \/ TransferStep(c) \/ CutStep(c)

\* They are all there is.
LEMMA StepCases ==
    ASSUME NEW c \in Calls, Goes(c) \/ Fails(c)
    PROVE  Step(c)
BY DEF Goes, Fails, Step, EndingStep, HostStep, CommandStep, TransferStep, CutStep

\* What a step leaves alone: the other calls, and the device unless it is one
\* of a transfer.
Stands(d) == /\ pc'[d] = pc[d] /\ chunk'[d] = chunk[d] /\ bad'[d] = bad[d]
             /\ out'[d] = out[d] /\ sent'[d] = sent[d] /\ used'[d] = used[d]

\* A step of one call is invisible to the others but for the lock and the device.
LEMMA Footprint ==
    ASSUME TypeOK, NEW c \in Calls, Step(c)
    PROVE  /\ opt' = opt
           /\ \A d \in Calls \ {c} : Stands(d)
           /\ pc[c] \notin TransferPCs => UNCHANGED device
<1>1. CASE EndingStep(c)
  <2>1. \E status, stage, says : EndsSaying(c, status, stage, says)
    BY <1>1 DEF Ends, Refused, EndingStep, PullUnavailable, PullMisconfigured, Refuse,
                FinalizeRefused, BuildEnds,
                LockWaitEnds, PortFails, ServeFails, PullVerdict, VerifyVerdict
  <2>2. OnHost(c)
    BY <1>1 DEF EndingStep, PullUnavailable, PullMisconfigured, Refuse, FinalizeRefused, BuildEnds,
                LockWaitEnds, PortFails, ServeFails, PullVerdict, VerifyVerdict
  <2> QED BY <2>1, <2>2 DEF EndsSaying, OnHost, Stands, TypeOK, local
<1>2. CASE HostStep(c)
  <2>1. OnHost(c) /\ out' = out /\ opt' = opt /\ chunk' = chunk
    BY <1>2 DEF HostStep, Begin, Build, Open, Serve, Capture, Records, local
  <2>2. \A d \in Calls \ {c} : pc'[d] = pc[d]
    BY <1>2 DEF HostStep, Begin, Build, Open, Serve, Capture, Goto, TypeOK
  <2>3. \A d \in Calls \ {c} : bad'[d] = bad[d]
    BY <1>2 DEF HostStep, Begin, Build, Open, Serve, Capture, Records, local, TypeOK
  <2> QED BY <2>1, <2>2, <2>3 DEF OnHost, Stands, TypeOK
<1>3. CASE CommandStep(c)
  <2>1. out' = out /\ opt' = opt /\ chunk' = chunk /\ UNCHANGED device
    BY <1>3 DEF CommandStep, Checks, Probe, List, Apply, Reboot, Validate, Records, local
  <2>2. \A d \in Calls \ {c} : pc'[d] = pc[d]
    BY <1>3 DEF CommandStep, Checks, Probe, List, Apply, Reboot, Validate, Goto, TypeOK
  <2>3. \A d \in Calls \ {c} : bad'[d] = bad[d]
    BY <1>3 DEF CommandStep, Checks, Probe, List, Apply, Reboot, Validate, Records, local, TypeOK
  <2>4. \A d \in Calls \ {c} : sent'[d] = sent[d]
    BY <1>3 DEF CommandStep, Checks, Probe, List, Apply, Reboot, Validate, Sends, TypeOK
  <2>5. \A d \in Calls \ {c} : used'[d] = used[d]
    BY <1>3 DEF CommandStep, Checks, Probe, List, Apply, Reboot, Validate, Uses, TypeOK
  <2> QED BY <2>1, <2>2, <2>3, <2>4, <2>5 DEF Stands
<1>4. CASE TransferStep(c)
  <2>1. out' = out /\ opt' = opt /\ used' = used
    BY <1>4 DEF TransferStep, HelperFallsBack, Pulled, TransferFails, Prepare, Upload, Finalize,
                local
  <2>2. \A d \in Calls \ {c} : pc'[d] = pc[d]
    BY <1>4 DEF TransferStep, HelperFallsBack, Pulled, TransferFails, Prepare, Upload, Finalize,
                Goto, TypeOK
  <2>3. \A d \in Calls \ {c} : bad'[d] = bad[d] /\ chunk'[d] = chunk[d]
    BY <1>4 DEF TransferStep, HelperFallsBack, Pulled, TransferFails, Prepare, Upload, Finalize,
                local, TypeOK
  <2>4. \A d \in Calls \ {c} : sent'[d] = sent[d]
    BY <1>4 DEF TransferStep, HelperFallsBack, Pulled, TransferFails, Prepare, Upload, Finalize,
                Sends, TypeOK
  <2>5. pc[c] \in TransferPCs
    BY <1>4 DEF TransferStep, HelperFallsBack, Pulled, TransferFails, Prepare, Upload, Finalize,
                Goto, FallsBack, TransferPCs
  <2> QED BY <2>1, <2>2, <2>3, <2>4, <2>5 DEF Stands
<1>5. CASE CutStep(c)
  <2>1. UNCHANGED local /\ \A d \in Calls \ {c} : pc'[d] = pc[d] /\ out'[d] = out[d]
    BY <1>5 DEF CutStep, ProbeEnds, Raises, Killed, Ends, EndsSaying, Refused, TypeOK
  <2>2. \A d \in Calls \ {c} : sent'[d] = sent[d]
    BY <1>5 DEF CutStep, ProbeEnds, Raises, Killed, Sends, TypeOK
  <2>3. \A d \in Calls \ {c} : used'[d] = used[d]
    BY <1>5 DEF CutStep, ProbeEnds, Raises, Killed, Uses, TypeOK
  <2>4. pc[c] \notin TransferPCs => UNCHANGED device
    BY <1>5 DEF CutStep, ProbeEnds, Raises, Killed, Unfinished, TransferPCs
  <2> QED BY <2>1, <2>2, <2>3, <2>4 DEF Stands, local
<1> QED BY <1>1, <1>2, <1>3, <1>4, <1>5 DEF Step

\* An end releases everything.
LEMMA EndReleases ==
    ASSUME TypeOK, NEW c \in Calls, EndingStep(c) \/ CutStep(c)
    PROVE  /\ pc'[c] = "done"
           /\ control' = IF control = c THEN None ELSE control
           /\ serving' = serving \ {c}
           /\ UNCHANGED <<opt, sees, chunk, bad>>
<1>1. CASE Killed(c)
  BY <1>1 DEF Killed, TypeOK, local
<1>2. CASE ~Killed(c)
  <2>1. \E status, stage, says : EndsSaying(c, status, stage, says)
    <3>1. CASE EndingStep(c)
      BY <3>1 DEF Ends, Refused, EndingStep, PullUnavailable, PullMisconfigured, Refuse,
                  FinalizeRefused, BuildEnds,
                  LockWaitEnds, PortFails, ServeFails, PullVerdict, VerifyVerdict
    <3>2. CASE CutStep(c)
      BY <1>2, <3>2 DEF Ends, Refused, CutStep, ProbeEnds, Raises
    <3> QED BY <3>1, <3>2
  <2> QED BY <2>1 DEF EndsSaying, TypeOK, local
<1> QED BY <1>1, <1>2

\* Where each of the other steps starts and goes to.
LEMMA HostPC ==
    ASSUME TypeOK, NEW c \in Calls, HostStep(c)
    PROVE  \/ /\ pc[c] = "idle" /\ pc'[c] \in {"control", "build"} /\ control' = control
              /\ serving' = serving
           \/ /\ pc[c] = "build" /\ pc'[c] \in {"control", "observe", "verdict"}
              /\ control' = control /\ serving' = serving
           \/ /\ pc[c] \in {"control", "observe"} /\ control = None /\ control' = c
              /\ serving' = serving
              /\ pc[c] = "control" => pc'[c] \in {"checks", "apply", "reboot", "validate"}
              /\ pc[c] = "observe" => pc'[c] = "capture"
           \/ /\ pc[c] = "serve" /\ pc'[c] \in {"http", "helper"} /\ control' = control
              /\ serving' = serving \cup {c}
           \/ /\ pc[c] = "capture" /\ pc'[c] = "verdict" /\ control' = None /\ serving' = serving
<1>1. CASE Begin(c)
  BY <1>1 DEF Begin, Goto, TypeOK
<1>2. CASE Build(c)
  BY <1>2 DEF Build, Goto, TypeOK, Afterwards
<1>3. CASE Open(c)
  BY <1>3 DEF Open, Goto, TypeOK, AfterList, PortControl!Take
<1>4. CASE Serve(c)
  BY <1>4 DEF Serve, Goto, TypeOK
<1>5. CASE Capture(c)
  BY <1>5 DEF Capture, Goto, TypeOK, PortControl!Drop
<1> QED BY <1>1, <1>2, <1>3, <1>4, <1>5 DEF HostStep

\* A command outside the transfer leads to the next stage, or out of the port.
LEMMA CommandPC ==
    ASSUME TypeOK, NEW c \in Calls, CommandStep(c)
    PROVE  /\ serving' = serving
           /\ \/ pc[c] = "checks" /\ pc'[c] = "probe" /\ control' = control
              \/ pc[c] = "probe" /\ pc'[c] \in {"prepare", "serve"} /\ control' = control
              \/ pc[c] = "list" /\ pc'[c] = AfterList(c) /\ control' = control
              \/ pc[c] = "apply" /\ pc'[c] \in {"reboot", "validate"} /\ control' = control
              \/ pc[c] = "reboot" /\ pc'[c] = "validate" /\ control' = control
              \/ /\ pc[c] = "validate" /\ pc'[c] \in {"observe", "verdict"}
                 /\ control' \in {control, None}
<1>1. CASE Checks(c) \/ Probe(c)
  BY <1>1 DEF Checks, Probe, Goto, TypeOK
<1>2. CASE List(c) \/ Apply(c) \/ Reboot(c)
  BY <1>2 DEF List, Apply, Reboot, Goto, TypeOK, AfterApply
<1>3. CASE Validate(c)
  BY <1>3 DEF Validate, Goto, TypeOK, Afterwards, LeavesPort
<1> QED BY <1>1, <1>2, <1>3 DEF CommandStep

\* A command of the transfer leads on in it, to the listing, or out.
LEMMA TransferPC ==
    ASSUME TypeOK, NEW c \in Calls, TransferStep(c)
    PROVE  /\ \/ control' = control
              \/ pc'[c] \in {"observe", "verdict"} /\ control' = None
           /\ \/ pc[c] = "helper" /\ pc'[c] = "fallback" /\ serving' = serving
              \/ /\ pc[c] \in {"http", "helper", "fallback"} /\ pc'[c] = "list"
                 /\ serving' = serving \ {c}
              \/ pc[c] = "prepare" /\ pc'[c] = "chunks" /\ serving' = serving
              \/ pc[c] = "chunks" /\ pc'[c] \in {"chunks", "finalize"} /\ serving' = serving
              \/ pc[c] = "finalize" /\ pc'[c] = "list" /\ serving' = serving
              \/ /\ pc[c] \in TransferPCs /\ pc'[c] \in {"observe", "verdict"}
                 /\ serving' = serving \ {c}
<1>1. CASE HelperFallsBack(c) \/ Pulled(c)
  BY <1>1 DEF HelperFallsBack, Pulled, Goto, TypeOK
<1>2. CASE TransferFails(c)
  BY <1>2 DEF TransferFails, TypeOK, Afterwards, LeavesPort, TransferPCs
<1>3. CASE Prepare(c) \/ Upload(c) \/ Finalize(c)
  BY <1>3 DEF Prepare, Upload, Finalize, Goto, TypeOK
<1> QED BY <1>1, <1>2, <1>3 DEF TransferStep

----------------------------------------------------------------------------
\* The parts of the inductive invariant, each by the steps of one call.
LEMMA TypeStep ==
    ASSUME TypeOK, CountInv, NEW c \in Calls, Step(c)
    PROVE  TypeOK'
BY EndingType, HostStepType, CommandType, TransferType, CutType
   DEF Step, EndingStep, HostStep, CommandStep, TransferStep, CutStep

\* The counter of upload lines: a step of another call does not touch it.
LEMMA CountStep ==
    ASSUME TypeOK, CountInv, NEW c \in Calls, Step(c)
    PROVE  CountInv'
<1> DEFINE Early == {"idle", "build", "control", "checks", "probe", "prepare"}
<1>1. /\ pc'[c] \in Early => chunk'[c] = 0
      /\ pc'[c] = "chunks" => chunk'[c] < Chunks
  <2>1. CASE EndingStep(c) \/ CutStep(c)
    BY <2>1, EndReleases
  <2>2. CASE HostStep(c)
    <3>1. chunk' = chunk
      BY <2>2 DEF HostStep, Begin, Build, Open, Serve, Capture, Records, local
    <3> QED BY <2>2, <3>1, HostPC DEF CountInv
  <2>3. CASE CommandStep(c)
    <3>1. chunk' = chunk
      BY <2>3 DEF CommandStep, Checks, Probe, List, Apply, Reboot, Validate, Records, local
    <3> QED BY <2>3, <3>1, CommandPC DEF CountInv, AfterList
  <2>4. CASE Prepare(c)
    BY <2>4, ChunksBound DEF Prepare, Goto, CountInv, TypeOK, local
  <2>5. CASE Upload(c)
    <3>1. chunk[c] \in 0..Chunks /\ chunk[c] < Chunks /\ chunk'[c] = chunk[c] + 1
      BY <2>5 DEF Upload, Goto, CountInv, TypeOK
    <3>2. pc'[c] = IF chunk[c] + 1 = Chunks THEN "finalize" ELSE "chunks"
      BY <2>5 DEF Upload, Goto, TypeOK
    <3> QED BY <3>1, <3>2, ChunksBound
  <2>6. CASE HelperFallsBack(c) \/ Pulled(c) \/ TransferFails(c) \/ Finalize(c)
    BY <2>6 DEF HelperFallsBack, Pulled, TransferFails, Finalize, Goto, Afterwards, TypeOK
  <2> QED BY <2>1, <2>2, <2>3, <2>4, <2>5, <2>6 DEF Step, TransferStep
<1>2. \A d \in Calls \ {c} : pc'[d] = pc[d] /\ chunk'[d] = chunk[d]
  BY Footprint DEF Stands
<1> QED BY <1>1, <1>2 DEF CountInv

\* A call between opening the port and leaving it holds the control lock.
PortPCs == TransferPCs \cup
           {"checks", "probe", "serve", "list", "apply", "reboot", "validate", "capture"}

PortInv == \A c \in Calls : pc[c] \in PortPCs => control = c

\* The control lock: taken when free, released by its holder only.
LEMMA PortStep ==
    ASSUME TypeOK, PortInv, NEW c \in Calls, Step(c)
    PROVE  PortInv'
<1> USE NoneIsNoCall DEF PortPCs, TransferPCs
<1>1. /\ pc'[c] \in PortPCs => control' = c
      /\ control' # control => control \in {None, c}
  <2>1. CASE EndingStep(c) \/ CutStep(c)
    BY <2>1, EndReleases
  <2>2. CASE HostStep(c)
    BY <2>2, HostPC DEF PortInv
  <2>3. CASE CommandStep(c)
    BY <2>3, CommandPC DEF PortInv, AfterList
  <2>4. CASE TransferStep(c)
    BY <2>4, TransferPC DEF PortInv
  <2> QED BY <2>1, <2>2, <2>3, <2>4 DEF Step
<1>2. \A d \in Calls \ {c} : pc'[d] = pc[d]
  BY Footprint DEF Stands
<1> QED BY <1>1, <1>2 DEF PortInv

\* The server: started at the door of the transfer, closed on each way out.
LEMMA ServeStep ==
    ASSUME TypeOK, ServesOnlyPulls, NEW c \in Calls, Step(c)
    PROVE  ServesOnlyPulls'
<1>1. c \in serving' => pc'[c] \in {"http", "helper", "fallback"}
  <2>0. c \in serving => pc[c] \in {"http", "helper", "fallback"}
    BY DEF ServesOnlyPulls
  <2>1. CASE EndingStep(c) \/ CutStep(c)
    BY <2>1, EndReleases
  <2>2. CASE HostStep(c)
    BY <2>0, <2>2, HostPC
  <2>3. CASE CommandStep(c)
    BY <2>0, <2>3, CommandPC
  <2>4. CASE TransferStep(c)
    BY <2>0, <2>4, TransferPC
  <2> QED BY <2>1, <2>2, <2>3, <2>4 DEF Step
<1>2. serving' \subseteq serving \cup {c}
  BY EndReleases, HostPC, CommandPC, TransferPC DEF Step
<1>3. \A d \in Calls \ {c} : pc'[d] = pc[d]
  BY Footprint DEF Stands
<1> QED BY <1>1, <1>2, <1>3 DEF ServesOnlyPulls, TypeOK

\* While a call uploads, the upload file is made of its own lines.
LinesOf(c, n) == [i \in 1..n |-> c]

UploadInv ==
    \A c \in Calls :
        /\ pc[c] \in {"chunks", "finalize"} => b64 = LinesOf(c, chunk[c])
        /\ pc[c] = "finalize" => chunk[c] = Chunks

\* One more line of the same call.
LEMMA AppendLine ==
    ASSUME NEW c \in Calls, NEW n \in Nat, NEW s \in Seq(Calls), s = LinesOf(c, n)
    PROVE  Append(s, c) = LinesOf(c, n + 1)
<1>1. Len(s) = n
  BY DEF LinesOf
<1>2. Append(s, c) \in Seq(Calls) /\ Len(Append(s, c)) = n + 1
  BY <1>1, AppendProperties
<1>3. LinesOf(c, n + 1) \in Seq(Calls) /\ Len(LinesOf(c, n + 1)) = n + 1
  BY DEF LinesOf
<1>4. \A i \in 1..(n + 1) : Append(s, c)[i] = LinesOf(c, n + 1)[i]
  BY <1>1, AppendProperties DEF LinesOf
<1> QED BY <1>2, <1>3, <1>4, SeqEqual

\* The upload file: nobody else is in a transfer while a call uploads.
LEMMA UploadStep ==
    ASSUME TypeOK, CountInv, PortInv, UploadInv, NEW c \in Calls, Step(c)
    PROVE  UploadInv'
<1>1. /\ pc'[c] \in {"chunks", "finalize"} => b64' = LinesOf(c, chunk'[c])
      /\ pc'[c] = "finalize" => chunk'[c] = Chunks
  <2>1. CASE EndingStep(c) \/ CutStep(c)
    BY <2>1, EndReleases
  <2>2. CASE HostStep(c)
    BY <2>2, HostPC
  <2>3. CASE CommandStep(c)
    BY <2>3, CommandPC DEF AfterList
  <2>4. CASE Prepare(c)
    <3>1. pc'[c] = "chunks" /\ chunk'[c] = 0 /\ b64' = <<>>
      BY <2>4 DEF Prepare, Goto, CountInv, TypeOK, local
    <3>2. LinesOf(c, 0) = <<>>
      BY DEF LinesOf
    <3> QED BY <3>1, <3>2
  <2>5. CASE Upload(c)
    <3>1. /\ chunk[c] \in Nat /\ chunk'[c] = chunk[c] + 1 /\ b64' = Append(b64, c)
          /\ pc[c] = "chunks" /\ b64 \in Seq(Calls)
          /\ pc'[c] = IF chunk[c] + 1 = Chunks THEN "finalize" ELSE "chunks"
      BY <2>5, ChunksBound DEF Upload, Goto, TypeOK
    <3>2. b64 = LinesOf(c, chunk[c])
      BY <3>1 DEF UploadInv
    <3>3. b64' = LinesOf(c, chunk[c] + 1)
      BY <3>1, <3>2, AppendLine
    <3> QED BY <3>1, <3>3
  <2>6. CASE HelperFallsBack(c) \/ Pulled(c) \/ TransferFails(c) \/ Finalize(c)
    BY <2>6 DEF HelperFallsBack, Pulled, TransferFails, Finalize, Goto, Afterwards, TypeOK
  <2> QED BY <2>1, <2>2, <2>3, <2>4, <2>5, <2>6 DEF Step, TransferStep
<1>2. ASSUME NEW d \in Calls \ {c}
      PROVE  /\ pc'[d] \in {"chunks", "finalize"} => b64' = LinesOf(d, chunk'[d])
             /\ pc'[d] = "finalize" => chunk'[d] = Chunks
  <2>1. pc'[d] = pc[d] /\ chunk'[d] = chunk[d]
    BY Footprint DEF Stands
  <2>2. pc[d] \in {"chunks", "finalize"} => b64' = b64
    BY NoneIsNoCall, Footprint DEF PortInv, PortPCs, TransferPCs, device
  <2> QED BY <2>1, <2>2 DEF UploadInv
<1> QED BY <1>1, <1>2 DEF UploadInv

\* What a pull has applied, or is about to apply, are its own files.
Own(c) ==
    /\ pc[c] # "build"
    /\ pc[c] \in {"list", "apply"} => ws = Files(c)
    /\ /\ pc[c] \in {"reboot", "validate", "observe", "capture", "verdict"}
       /\ opt[c].apply /\ "pull" \notin bad[c]
       => used[c] = Files(c)
    /\ "apply" \in sent[c] => used[c] = Files(c)
    /\ out[c].status = "completed" /\ opt[c].apply => used[c] = Files(c)

OwnInv == \A c \in Calls : opt[c].kind = "pull" => Own(c)

\* A call that ends.
LEMMA OwnEnd ==
    ASSUME TypeOK, NEW c \in Calls, opt[c].kind = "pull", Own(c), EndingStep(c) \/ CutStep(c)
    PROVE  Own(c)'
<1>1. pc'[c] = "done" /\ opt' = opt
  BY EndReleases
<1>2. used[c] = Files(c) => used'[c] = Files(c)
  BY DEF EndingStep, PullUnavailable, PullMisconfigured, Refuse, FinalizeRefused, BuildEnds,
         LockWaitEnds,
         PortFails, ServeFails, PullVerdict, VerifyVerdict, OnHost,
         CutStep, ProbeEnds, Raises, Killed, Uses, Own, TypeOK
<1>3. "apply" \in sent'[c] => used'[c] = Files(c)
  <2>1. CASE EndingStep(c) \/ ProbeEnds(c)
    <3>1. CASE EndingStep(c)
      <4>1. sent' = sent
        BY <3>1 DEF EndingStep, PullUnavailable, PullMisconfigured, Refuse, FinalizeRefused,
                    BuildEnds, LockWaitEnds,
                    PortFails, ServeFails, PullVerdict, VerifyVerdict, OnHost
      <4> QED BY <1>2, <4>1 DEF Own
    <3>2. CASE ProbeEnds(c)
      <4>1. "apply" \notin SentAt(pc[c]) /\ Sends(c)
        BY <3>2 DEF ProbeEnds, SentAt, TransferPCs, CommandPCs
      <4> QED BY <1>2, <4>1 DEF Sends, Own, TypeOK
    <3> QED BY <2>1, <3>1, <3>2
  <2>2. CASE Raises(c) \/ Killed(c)
    <3>1. CASE UNCHANGED <<sent, used>>
      BY <3>1 DEF Own
    <3>2. CASE Sends(c) /\ Uses(c)
      <4>1. CASE pc[c] = "apply"
        BY <3>2, <4>1 DEF Uses, Own, TypeOK
      <4>2. CASE pc[c] # "apply"
        <5>1. "apply" \notin SentAt(pc[c])
          BY <4>2 DEF SentAt, TransferPCs, CommandPCs
        <5> QED BY <1>2, <3>2, <5>1 DEF Sends, Own, TypeOK
      <4> QED BY <4>1, <4>2
    <3> QED BY <2>2, <3>1, <3>2 DEF Raises, Killed
  <2> QED BY <2>1, <2>2 DEF CutStep
<1>4. out'[c].status = "completed" /\ opt[c].apply => used'[c] = Files(c)
  <2>1. CASE PullVerdict(c)
    <3>1. /\ pc[c] = "verdict" /\ used' = used
          /\ out'[c].status = IF bad[c] = {} THEN "completed" ELSE "failed"
      BY <2>1 DEF PullVerdict, Ends, EndsSaying, Refused, OnHost, TypeOK
    <3> QED BY <3>1 DEF Own
  <2>2. CASE Killed(c)
    BY <1>2, <2>2 DEF Killed, Own
  <2>3. CASE ~PullVerdict(c) /\ ~Killed(c)
    <3>1. out'[c].status \in {"blocked", "failed", "refused", "manual"}
      <4>1. CASE EndingStep(c)
        BY <2>3, <4>1 DEF EndingStep, PullUnavailable, PullMisconfigured, Refuse, FinalizeRefused,
                          BuildEnds,
               LockWaitEnds, PortFails, ServeFails, VerifyVerdict, Ends, EndsSaying, Refused, TypeOK
      <4>2. CASE CutStep(c)
        BY <2>3, <4>2 DEF CutStep, ProbeEnds, Raises, Ends, EndsSaying, Refused, TypeOK
      <4> QED BY <4>1, <4>2
    <3> QED BY <3>1
  <2> QED BY <2>1, <2>2, <2>3
<1> QED BY <1>1, <1>2, <1>3, <1>4 DEF Own

\* A call that goes on.
LEMMA OwnGoes ==
    ASSUME TypeOK, UploadInv, NEW c \in Calls, opt[c].kind = "pull", Own(c),
           HostStep(c) \/ CommandStep(c) \/ TransferStep(c)
    PROVE  Own(c)'
<1>1. opt' = opt
  BY Footprint DEF Step
<1>2. CASE HostStep(c)
  <2>1. OnHost(c) /\ out' = out /\ bad[c] \subseteq bad'[c]
    BY <1>2 DEF HostStep, Begin, Build, Open, Serve, Capture, Records, local, TypeOK
  <2>2. \/ pc[c] = "idle" /\ pc'[c] = "control"
        \/ pc[c] = "control" /\ pc'[c] = "checks"
        \/ pc[c] = "observe" /\ pc'[c] = "capture"
        \/ pc[c] = "serve" /\ pc'[c] \in {"http", "helper"}
        \/ pc[c] = "capture" /\ pc'[c] = "verdict"
    <3>1. ~Build(c)
      BY DEF Build, Goto, Own
    <3>2. CASE Begin(c) \/ Open(c)
      BY <3>2 DEF Begin, Open, Goto, TypeOK
    <3>3. CASE Serve(c) \/ Capture(c)
      BY <3>3 DEF Serve, Capture, Goto, TypeOK
    <3> QED BY <1>2, <3>1, <3>2, <3>3 DEF HostStep
  <2> QED BY <1>1, <2>1, <2>2 DEF OnHost, Own
<1>3. CASE CommandStep(c)
  <2>1. out' = out /\ ws' = ws /\ bad[c] \subseteq bad'[c] /\ Sends(c)
    BY <1>3 DEF CommandStep, Checks, Probe, List, Apply, Reboot, Validate, Records, local, device,
                TypeOK
  <2>2. CASE pc[c] = "apply"
    <3>1. used'[c] = Files(c) /\ pc'[c] \in {"reboot", "validate"}
      BY <1>3, <2>2 DEF CommandStep, Checks, Probe, List, Apply, Reboot, Validate, Goto, Uses,
                        AfterApply, Own, TypeOK
    <3> QED BY <3>1 DEF Own
  <2>3. CASE pc[c] # "apply"
    <3>1. used' = used
      BY <1>3, <2>3 DEF CommandStep, Checks, Probe, List, Apply, Reboot, Validate, Goto
    <3>2. "apply" \in sent'[c] => "apply" \in sent[c]
      <4>1. "apply" \notin SentAt(pc[c])
        BY <2>3 DEF SentAt, TransferPCs, CommandPCs
      <4> QED BY <2>1, <4>1 DEF Sends, TypeOK
    <3>3. CASE pc[c] = "list"
      <4>1. pc'[c] = AfterList(c)
        BY <1>3, <3>3, CommandPC
      <4> QED BY <1>1, <2>1, <3>1, <3>2, <3>3, <4>1 DEF AfterList, Own
    <3>4. CASE pc[c] # "list"
      <4>1. \/ pc'[c] \in {"probe", "prepare", "serve"}
            \/ pc[c] = "reboot" /\ pc'[c] = "validate"
            \/ pc[c] = "validate" /\ pc'[c] \in {"observe", "verdict"}
        BY <1>3, <2>3, <3>4, CommandPC
      <4> QED BY <1>1, <2>1, <3>1, <3>2, <4>1 DEF Own
    <3> QED BY <3>3, <3>4
  <2> QED BY <2>2, <2>3
<1>4. CASE TransferStep(c)
  <2>1. out' = out /\ used' = used /\ Sends(c) /\ pc[c] \in TransferPCs
    BY <1>4 DEF TransferStep, HelperFallsBack, Pulled, TransferFails, Prepare, Upload, Finalize,
                local, Goto, TransferPCs
  <2>2. "apply" \in sent'[c] => "apply" \in sent[c]
    <3>1. "apply" \notin SentAt(pc[c])
      BY <2>1 DEF SentAt
    <3> QED BY <2>1, <3>1 DEF Sends, TypeOK
  <2>3. CASE TransferFails(c)
    <3>1. "pull" \in bad'[c] /\ pc'[c] \in {"observe", "verdict"}
      BY <2>3 DEF TransferFails, Afterwards, TypeOK
    <3> QED BY <1>1, <2>1, <2>2, <3>1 DEF Own
  <2>4. CASE Pulled(c) \/ Finalize(c)
    <3>1. pc'[c] = "list" /\ ws' = Files(c)
      <4>1. CASE Pulled(c)
        BY <4>1 DEF Pulled, Goto, TypeOK
      <4>2. CASE Finalize(c)
        <5>1. b64 = [i \in 1..Chunks |-> c]
          BY <4>2 DEF Finalize, Goto, UploadInv, LinesOf
        <5> QED BY <4>2, <5>1 DEF Finalize, Goto, Files, TypeOK
      <4> QED BY <2>4, <4>1, <4>2
    <3> QED BY <1>1, <2>1, <2>2, <3>1 DEF Own
  <2>5. CASE HelperFallsBack(c) \/ Prepare(c) \/ Upload(c)
    <3>1. pc'[c] \in {"fallback", "chunks", "finalize"}
      BY <2>5 DEF HelperFallsBack, Prepare, Upload, Goto, TypeOK
    <3> QED BY <1>1, <2>1, <2>2, <3>1 DEF Own
  <2> QED BY <1>4, <2>3, <2>4, <2>5 DEF TransferStep
<1> QED BY <1>2, <1>3, <1>4

\* The other calls: who transfers holds the control lock, and so does who is
\* about to apply.
LEMMA OwnStep ==
    ASSUME TypeOK, PortInv, UploadInv, OwnInv, NEW c \in Calls, Step(c)
    PROVE  OwnInv'
<1>1. opt' = opt
  BY Footprint
<1>2. opt[c].kind = "pull" => Own(c)'
  BY OwnEnd, OwnGoes DEF Step, OwnInv
<1>3. ASSUME NEW d \in Calls \ {c}, opt[d].kind = "pull" PROVE Own(d)'
  <2>1. Stands(d) /\ Own(d)
    BY <1>3, Footprint DEF OwnInv
  <2>2. pc[d] \in {"list", "apply"} => ws' = ws
    BY NoneIsNoCall, Footprint DEF PortInv, PortPCs, TransferPCs, device
  <2> QED BY <1>1, <2>1, <2>2 DEF Stands, Own
<1> QED BY <1>1, <1>2, <1>3 DEF OwnInv

\* What a call has sent and recorded on its way, and what its end says of it.
Harmful == {"apply", "reboot"}

\* The stages before the workspace itself is written.
Early == {"idle", "build", "control", "checks", "probe", "serve", "prepare", "chunks", "finalize"}

Clean(c) ==
    /\ pc[c] # "done" => out[c].status = "none" /\ out[c].stage = "none"
    /\ pc[c] \in {"idle", "build", "control"} => sent[c] = {}
    /\ pc[c] \in {"checks", "probe", "serve"} =>
          sent[c] \subseteq {"check"} /\ opt[c].kind = "pull"
    /\ pc[c] \in {"build", "control", "checks", "probe"} => opt[c].long \notin Planned(opt[c])
    /\ pc[c] \in Early => ws.by # c
    /\ pc[c] \in TransferPCs \cup {"list"} => sent[c] \cap Harmful = {}
    /\ "pull" \in bad[c] =>
          pc[c] \in {"observe", "capture", "verdict", "done"} /\ sent[c] \cap Harmful = {}
    /\ out[c].status = "refused" =>
          /\ sent[c] \subseteq Admitted(out[c].says)
          /\ out[c].says = "checks" => ~KnownUpFront(opt[c])
          /\ ws.by # c
    /\ out[c].stage = "transfer_artifacts" => sent[c] \cap Harmful = {}

CleanInv == \A c \in Calls : Clean(c)

\* The kind of command each stage sends.
LEMMA SentBy ==
    ASSUME NEW stage
    PROVE  /\ stage \in {"checks", "probe"} => SentAt(stage) = {"check"}
           /\ stage \in TransferPCs => SentAt(stage) = {"transfer"}
           /\ stage \notin Harmful => SentAt(stage) \cap Harmful = {}
           /\ stage \in {"idle", "build", "control", "serve", "observe", "capture", "verdict"}
                 => SentAt(stage) = {}
BY DEF SentAt, TransferPCs, CommandPCs, Harmful

\* What there is to show of a call that has ended.
LEMMA CleanDone ==
    ASSUME NEW c \in Calls, pc'[c] = "done", opt' = opt,
           "pull" \in bad'[c] => sent'[c] \cap Harmful = {},
           out'[c].stage = "transfer_artifacts" => sent'[c] \cap Harmful = {},
           out'[c].status = "refused" =>
              /\ ws'.by # c
              /\ sent'[c] \subseteq Admitted(out'[c].says)
              /\ out'[c].says = "checks" => ~KnownUpFront(opt[c])
    PROVE  Clean(c)'
BY DEF Clean, TransferPCs, Early

\* A call that ends: it is refused before it sends anything but checks, and a transfer
\* that failed is one that nothing was applied after.
LEMMA CleanEnd ==
    ASSUME TypeOK, NEW c \in Calls, pc[c] # "done", Clean(c), EndingStep(c) \/ CutStep(c)
    PROVE  Clean(c)'
<1>1. pc'[c] = "done" /\ opt' = opt /\ bad' = bad
  BY EndReleases
<1>2. CASE EndingStep(c)
  <2>1. sent' = sent /\ ws' = ws
    BY <1>2 DEF EndingStep, PullUnavailable, PullMisconfigured, Refuse, FinalizeRefused, BuildEnds,
                LockWaitEnds,
                PortFails, ServeFails, PullVerdict, VerifyVerdict, OnHost, device
  <2>2. out'[c].status = "refused" => /\ sent[c] \subseteq Admitted(out'[c].says) /\ ws.by # c
                                      /\ out'[c].says # "checks"
    <3>1. CASE Refuse(c)
      <4>1. sent[c] = {} /\ ws.by # c /\ out'[c].says = "nothing"
        BY <3>1 DEF Refuse, Refused, EndsSaying, Clean, Early, TypeOK
      <4> QED BY <4>1
    <3>2. CASE FinalizeRefused(c)
      <4>1. pc[c] = "finalize" /\ out'[c].says = "partial"
        BY <3>2 DEF FinalizeRefused, TooLongNow, Refused, EndsSaying, TypeOK
      <4>2. sent[c] \subseteq {"check", "transfer"} /\ ws.by # c
        BY <4>1 DEF Clean, Early, TransferPCs, Harmful, Kinds, TypeOK
      <4> QED BY <4>1, <4>2 DEF Admitted
    <3>3. CASE ~Refuse(c) /\ ~FinalizeRefused(c)
      <4>1. out'[c].status # "refused"
        BY <1>2, <3>3 DEF EndingStep, PullUnavailable, PullMisconfigured, BuildEnds, LockWaitEnds,
                          PortFails, ServeFails, PullVerdict, VerifyVerdict, Ends, EndsSaying, TypeOK
      <4> QED BY <4>1
    <3> QED BY <3>1, <3>2, <3>3
  <2>3. out'[c].stage = "transfer_artifacts" => sent[c] \cap Harmful = {}
    <3>1. CASE LockWaitEnds(c) \/ PortFails(c) \/ ServeFails(c)
      <4>1. out'[c].stage = StageOf(c) /\ pc[c] \in {"control", "observe", "capture", "serve"}
        BY <3>1 DEF LockWaitEnds, PortFails, ServeFails, Ends, EndsSaying, Refused, TypeOK
      <4> QED
        BY <4>1 DEF StageOf, Clean, Harmful
    <3>2. CASE PullVerdict(c)
      <4>1. out'[c].stage = PullStage(c)
        BY <3>2 DEF PullVerdict, Ends, EndsSaying, Refused, TypeOK
      <4> QED
        BY <4>1 DEF PullStage, Clean
    <3>3. CASE \/ PullUnavailable(c) \/ PullMisconfigured(c) \/ Refuse(c) \/ FinalizeRefused(c)
               \/ BuildEnds(c)
      BY <3>3 DEF PullUnavailable, PullMisconfigured, Refuse, FinalizeRefused, BuildEnds, Ends,
                  EndsSaying, Refused, TypeOK
    <3>4. CASE VerifyVerdict(c)
      BY <3>4 DEF VerifyVerdict, Ends, EndsSaying, Refused, TypeOK
    <3> QED
      BY <1>2, <3>1, <3>2, <3>3, <3>4 DEF EndingStep
  <2>4. "pull" \in bad[c] => sent[c] \cap Harmful = {}
    BY DEF Clean
  <2> QED
    BY <1>1, <2>1, <2>2, <2>3, <2>4, CleanDone
<1>3. CASE ProbeEnds(c)
  <2>1. /\ pc[c] = "probe" /\ Sends(c) /\ ws' = ws /\ opt[c].kind = "pull"
        /\ opt[c].long \notin Planned(opt[c]) /\ ws.by # c /\ sent[c] \subseteq {"check"}
    BY <1>3 DEF ProbeEnds, device, Clean, Early
  <2>2. sent'[c] \subseteq {"check"}
    BY <2>1, SentBy DEF Sends, TypeOK
  <2>3. out'[c].status = "refused" => opt[c].long \in Modes /\ opt[c].long \in Allowed(opt[c])
    <3>1. ASSUME NEW found \in SUBSET Modes, Choice(opt[c], found) \in Modes
          PROVE  Choice(opt[c], found) \in Allowed(opt[c])
      BY <3>1 DEF Choice, Best, Modes
    <3>2. caps \in SUBSET Modes /\ {} \in SUBSET Modes
      BY DEF TypeOK
    <3> QED
      BY <1>3, <3>1, <3>2 DEF ProbeEnds, Ends, EndsSaying, Refused, TypeOK
  <2>4. out'[c].status = "refused" => out'[c].says = "checks" /\ ~KnownUpFront(opt[c])
    <3>1. out'[c].status = "refused" => out'[c].says = "checks"
      BY <1>3 DEF ProbeEnds, Ends, EndsSaying, Refused, TypeOK
    <3> QED BY <2>1, <2>3, <3>1 DEF Planned, Modes
  <2>5. sent'[c] \cap Harmful = {}
    BY <2>2 DEF Harmful
  <2> QED
    BY <1>1, <2>1, <2>2, <2>4, <2>5, CleanDone DEF Admitted
<1>4. CASE Raises(c)
  <2>1. /\ pc[c] \in CommandPCs
        /\ \/ UNCHANGED <<device, sent, used>> /\ out'[c].stage = "establish_control"
           \/ Sends(c) /\ out'[c].stage = StageOf(c)
        /\ out'[c].status # "refused"
    BY <1>4 DEF Raises, Ends, EndsSaying, Refused, TypeOK
  <2>2. "pull" \in bad[c] => FALSE
    BY <2>1 DEF Clean, CommandPCs, TransferPCs
  <2>3. out'[c].stage = "transfer_artifacts" => sent'[c] \cap Harmful = {}
    <3>1. SUFFICES ASSUME Sends(c), StageOf(c) = "transfer_artifacts"
                   PROVE  sent'[c] \cap Harmful = {}
      BY <2>1
    <3>2. pc[c] \notin Harmful /\ sent[c] \cap Harmful = {}
      BY <2>1, <3>1 DEF StageOf, CommandPCs, Clean, Harmful
    <3> QED
      BY <3>1, <3>2, SentBy DEF Sends, TypeOK
  <2> QED
    BY <1>1, <2>1, <2>2, <2>3, CleanDone
<1>5. CASE Killed(c)
  <2>1. out' = out /\ (Sends(c) \/ sent' = sent)
    BY <1>5 DEF Killed
  <2>2. "pull" \in bad[c] => sent'[c] \cap Harmful = {}
    <3>1. CASE sent' = sent
      BY <3>1 DEF Clean
    <3>2. CASE Sends(c)
      BY <3>2, SentBy DEF Clean, Sends, TypeOK
    <3> QED BY <2>1, <3>1, <3>2
  <2>3. out'[c].status # "refused" /\ out'[c].stage # "transfer_artifacts"
    BY <2>1 DEF Clean
  <2> QED
    BY <1>1, <2>2, <2>3, CleanDone
<1> QED
  BY <1>2, <1>3, <1>4, <1>5 DEF CutStep

\* A call that goes on.
LEMMA CleanGoes ==
    ASSUME TypeOK, NEW c \in Calls, pc[c] # "done", Clean(c),
           HostStep(c) \/ CommandStep(c) \/ TransferStep(c)
    PROVE  Clean(c)'
<1>1. opt' = opt /\ out[c].status = "none" /\ out[c].stage = "none"
  BY Footprint DEF Step, Clean
<1>2. CASE HostStep(c)
  <2>1. out' = out /\ sent' = sent /\ ws' = ws /\ ("pull" \in bad'[c] <=> "pull" \in bad[c])
    BY <1>2 DEF HostStep, Begin, Build, Open, Serve, Capture, Records, local, OnHost, device,
                TypeOK
  <2>2. CASE Begin(c)
    <3>1. /\ pc[c] = "idle" /\ pc'[c] = IF opt[c].kind = "pull" THEN "control" ELSE "build"
          /\ opt[c].long \notin Planned(opt[c])
      BY <2>2 DEF Begin, Goto, TypeOK
    <3> QED
      BY <1>1, <2>1, <3>1 DEF Clean, TransferPCs, Early
  <2>3. CASE Build(c)
    BY <1>1, <2>1, <2>3 DEF Build, Goto, Afterwards, Clean, TransferPCs, Early, TypeOK
  <2>4. CASE Open(c)
    BY <1>1, <2>1, <2>4 DEF Open, Goto, AfterList, Clean, TransferPCs, Early, TypeOK
  <2>5. CASE Serve(c) \/ Capture(c)
    BY <1>1, <2>1, <2>5 DEF Serve, Capture, Goto, Clean, TransferPCs, Harmful, Early, TypeOK
  <2> QED
    BY <1>2, <2>2, <2>3, <2>4, <2>5 DEF HostStep
<1>3. CASE CommandStep(c)
  <2>1. /\ out' = out /\ ws' = ws /\ ("pull" \in bad'[c] <=> "pull" \in bad[c])
        /\ sent'[c] = sent[c] \cup SentAt(pc[c])
    BY <1>3 DEF CommandStep, Checks, Probe, List, Apply, Reboot, Validate, Records, Sends, local,
                device, TypeOK
  <2>2. "pull" \notin bad[c]
    BY <1>3, CommandPC DEF Clean
  <2>3. CASE Checks(c) \/ Probe(c)
    BY <1>1, <2>1, <2>2, <2>3, SentBy DEF Checks, Probe, Goto, Clean, TransferPCs, Harmful, Early,
                                          TypeOK
  <2>4. CASE List(c) \/ Apply(c) \/ Reboot(c) \/ Validate(c)
    BY <1>1, <2>1, <2>2, <2>4
       DEF List, Apply, Reboot, Validate, Goto, AfterList, AfterApply, Afterwards, Clean,
           TransferPCs, Early, TypeOK
  <2> QED
    BY <1>3, <2>3, <2>4 DEF CommandStep
<1>4. CASE TransferStep(c)
  <2>1. /\ out' = out /\ Sends(c) /\ pc[c] \in TransferPCs
        /\ pc'[c] \in {"fallback", "list", "chunks", "finalize", "observe", "verdict"}
    <3>1. out' = out /\ Sends(c)
      BY <1>4 DEF TransferStep, HelperFallsBack, Pulled, TransferFails, Prepare, Upload,
                  Finalize, local
    <3> QED
      BY <1>4, <3>1, TransferPC DEF TransferPCs
  <2>2. sent'[c] \cap Harmful = {}
    BY <2>1, SentBy DEF Clean, Sends, Harmful, TypeOK
  <2>3. "pull" \in bad'[c] => pc'[c] \in {"observe", "verdict"}
    <3>1. "pull" \notin bad[c]
      BY <2>1 DEF Clean, TransferPCs, Early
    <3>2. TransferFails(c) \/ bad' = bad
      BY <1>4 DEF TransferStep, HelperFallsBack, Pulled, Prepare, Upload, Finalize, local
    <3> QED
      BY <3>1, <3>2 DEF TransferFails, Afterwards, TypeOK
  <2>4. pc'[c] \in Early => ws'.by # c
    <3>1. CASE Prepare(c) \/ Upload(c)
      BY <3>1 DEF Prepare, Upload, Goto, Clean, Early
    <3>2. CASE ~Prepare(c) /\ ~Upload(c)
      <4>1. CASE HelperFallsBack(c) \/ Pulled(c) \/ Finalize(c)
        BY <4>1 DEF HelperFallsBack, Pulled, Finalize, Goto, Early, TypeOK
      <4>2. CASE TransferFails(c)
        BY <4>2 DEF TransferFails, Afterwards, Early, TypeOK
      <4> QED BY <1>4, <3>2, <4>1, <4>2 DEF TransferStep
    <3> QED BY <3>1, <3>2
  <2> QED
    BY <1>1, <2>1, <2>2, <2>3, <2>4 DEF Clean, Early
<1> QED
  BY <1>2, <1>3, <1>4

\* The other calls: the workspace does not become theirs.
LEMMA CleanStep ==
    ASSUME TypeOK, CleanInv, NEW c \in Calls, Step(c)
    PROVE  CleanInv'
<1>1. pc[c] # "done"
  BY HostPC, CommandPC, TransferPC
     DEF Step, EndingStep, PullUnavailable, PullMisconfigured, Refuse, FinalizeRefused, BuildEnds,
         LockWaitEnds,
         PortFails, ServeFails, PullVerdict, VerifyVerdict, CutStep, ProbeEnds, Raises, Killed,
         FinalizeRefused, TooLongNow, CommandPCs, TransferPCs
<1>2. Clean(c)'
  BY <1>1, CleanEnd, CleanGoes DEF Step, CleanInv
<1>3. ASSUME NEW d \in Calls \ {c} PROVE Clean(d)'
  <2>1. Stands(d) /\ Clean(d) /\ opt' = opt
    BY Footprint DEF CleanInv
  <2>2. ws'.by # d \/ ws' = ws
    <3>1. CASE TransferStep(c)
      BY <3>1 DEF TransferStep, HelperFallsBack, Pulled, TransferFails, Prepare, Upload, Finalize,
                  Unfinished, Files, device
    <3>2. CASE Raises(c) \/ Killed(c)
      BY <3>2 DEF Raises, Killed, Unfinished, device
    <3>3. CASE ~TransferStep(c) /\ ~Raises(c) /\ ~Killed(c)
      BY <3>3 DEF Step, EndingStep, PullUnavailable, PullMisconfigured, Refuse, FinalizeRefused,
                  BuildEnds,
                  LockWaitEnds, PortFails, ServeFails, PullVerdict, VerifyVerdict, CutStep,
                  ProbeEnds, HostStep, Begin, Build, Open, Serve, Capture, OnHost,
                  CommandStep, Checks, Probe, List, Apply, Reboot, Validate, device
    <3> QED
      BY <3>1, <3>2, <3>3
  <2> QED
    BY <2>1, <2>2 DEF Stands, Clean
<1> QED
  BY <1>2, <1>3 DEF CleanInv

----------------------------------------------------------------------------
IInv == TypeOK /\ CountInv /\ PortInv /\ ServesOnlyPulls /\ UploadInv /\ OwnInv /\ CleanInv

\* The three facts about the inductive invariant.
LEMMA InitIInv == Init => IInv
<1> SUFFICES ASSUME Init PROVE IInv
  OBVIOUS
<1>1. /\ \A c \in Calls : pc[c] = "idle" /\ chunk[c] = 0 /\ sent[c] = {} /\ out[c].status = "none"
      /\ serving = {}
  BY DEF Init
<1>2. TypeOK
  <2>1. opt \in [Calls -> AllOptions]
    <3>1. opt \in [Calls -> UNION {Options[c] : c \in Calls}] /\ \A c \in Calls : opt[c] \in Options[c]
      BY DEF Init
    <3>2. \A c \in Calls : Options[c] \subseteq AllOptions
      BY OptionsBound
    <3> QED BY <3>1, <3>2
  <2>2. pc \in [Calls -> PCs] /\ sees \in [Calls -> SUBSET Modes]
    BY DEF Init, PCs
  <2>3. chunk \in [Calls -> 0..Chunks] /\ bad \in [Calls -> SUBSET Results]
          /\ sent \in [Calls -> SUBSET Kinds]
    BY ChunksBound DEF Init
  <2>4. out \in [Calls -> Outcomes]
    BY DEF Init, Statuses, Stages, Sayings, Outcomes
  <2>5. control \in Calls \cup {None} /\ serving \subseteq Calls /\ caps \subseteq Modes
    BY DEF Init
  <2>6. ws \in Workspaces /\ b64 \in Seq(Calls) /\ used \in [Calls -> Workspaces]
    BY DEF Init, Files, Workspaces
  <2> QED BY <2>1, <2>2, <2>3, <2>4, <2>5, <2>6 DEF TypeOK
<1>3. CountInv /\ PortInv /\ UploadInv /\ OwnInv
  BY <1>1 DEF CountInv, PortInv, PortPCs, TransferPCs, UploadInv, OwnInv, Own
<1>4. ServesOnlyPulls
  BY <1>1 DEF ServesOnlyPulls
<1>5. CleanInv
  <2>1. \A c \in Calls : bad[c] = {} /\ out[c].stage = "none" /\ ws.by = None
    BY DEF Init, Files
  <2> QED
    BY <1>1, <2>1, NoneIsNoCall DEF CleanInv, Clean, TransferPCs, Harmful, Early
<1> QED BY <1>2, <1>3, <1>4, <1>5 DEF IInv

\* Each step is one of a single call.
LEMMA StepIInv == IInv /\ [Next]_vars => IInv'
<1> SUFFICES ASSUME IInv, [Next]_vars PROVE IInv'
  OBVIOUS
<1>1. CASE Next
  <2>1. PICK c \in Calls : Step(c)
    BY <1>1, StepCases DEF Next
  <2> QED BY <2>1, TypeStep, CountStep, PortStep, ServeStep, UploadStep, OwnStep, CleanStep
     DEF IInv
<1>2. CASE UNCHANGED vars
  <2>1. UNCHANGED <<pc, opt, sees, chunk, bad, out, control, serving, caps, ws, b64, sent, used>>
    BY <1>2 DEF vars, local, device
  <2>2. TypeOK' /\ ServesOnlyPulls'
    BY <2>1 DEF IInv, TypeOK, ServesOnlyPulls
  <2>3. CountInv' /\ PortInv' /\ UploadInv' /\ OwnInv'
    BY <2>1 DEF IInv, CountInv, PortInv, UploadInv, OwnInv, Own
  <2>4. CleanInv'
    BY <2>1 DEF IInv, CleanInv, Clean
  <2> QED BY <2>2, <2>3, <2>4 DEF IInv
<1> QED BY <1>1, <1>2

\* Hence it holds in every state.
LEMMA Invariance == Spec => []IInv
BY InitIInv, StepIInv, PTL DEF Spec

\* The variables of device-pull and deploy-verify keep their types; the number
\* of upload lines does because a call begins its upload once.
THEOREM TypeCorrect == Spec => []TypeOK
<1>1. IInv => TypeOK
  BY DEF IInv
<1> QED BY <1>1, Invariance, PTL

\* The transient HTTP server is up only while the device pulls from it.
THEOREM ServedOnlyInPulls == Spec => []ServesOnlyPulls
<1>1. IInv => ServesOnlyPulls
  BY DEF IInv
<1> QED BY <1>1, Invariance, PTL

\* Every command on the device is sent by the call that holds the control
\* lock: the stages of two calls with the port open never overlap.
THEOREM PortHeld == Spec => []PortInv
<1>1. IInv => PortInv
  BY DEF IInv
<1> QED BY <1>1, Invariance, PTL

\* What a pull applies, and what it reports as deployed, are the files it has
\* transferred itself, all of them, whatever the calls beside it and the
\* killed ones before it have left in the workspace and the upload file.
THEOREM PullsApplyTheirOwn == Spec => []AppliesOwnFiles
<1>1. IInv => AppliesOwnFiles
  BY DEF IInv, OwnInv, Own, AppliesOwnFiles
<1> QED BY <1>1, Invariance, PTL

\* A refusal is true, also one in the middle of a transfer: nothing but what its
\* message admits was sent to the device, and the workspace is untouched.
THEOREM RefusalsAreTrue == Spec => []RefusedIsUntouched
<1>1. IInv => RefusedIsUntouched
  BY DEF IInv, CleanInv, Clean, RefusedIsUntouched
<1> QED BY <1>1, Invariance, PTL

\* After a failed transfer nothing has been applied and nothing rebooted.
THEOREM FailedTransfersAreClean == Spec => []TransferFailureIsClean
<1>1. IInv => TransferFailureIsClean
  BY DEF IInv, CleanInv, Clean, Harmful, TransferFailureIsClean
<1> QED BY <1>1, Invariance, PTL
=============================================================================
