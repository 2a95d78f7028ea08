-------------------------- MODULE Assessment_proofs --------------------------
(***************************************************************************)
(* Theorems about Assessment, for any number of runs, events, decisions    *)
(* and settings.  Every step of a run replaces that run by one that is in  *)
(* order and at most one decision by one that is in order (StepFrame);     *)
(* the invariant follows from that alone.                                  *)
(***************************************************************************)
EXTENDS Assessment, TLAPS, FiniteSetTheorems

\* What one step may do to runs and decisions.
StepFrame ==
    /\ config' = config
    /\ events \subseteq events' /\ events' \subseteq Events
    /\ run' \in [Runs -> RunRecord]
    /\ decision' \in [Ids -> DecisionRecord]
    /\ \A a \in Runs : run'[a] = run[a] \/ RunOK(run'[a], events', config)
    /\ \A i \in Ids : decision'[i] = decision[i] \/ DecisionOK(decision'[i], events', config)

\* The components the frame does not speak of keep their types.
RestOK ==
    /\ trail' \in [Ids -> Seq(EntryTypes)]
    /\ ingested' \in [Events -> Nat]
    /\ lost' \subseteq Events
    /\ verdicts' \in 0 .. MaxVerdicts
    /\ crashes' \in 0 .. MaxCrashes

\* What storing or waiting leaves, given the events table it leaves.
Outcome(evs) ==
    /\ run' \in [Runs -> RunRecord]
    /\ \A b \in Runs : run'[b] = run[b] \/ RunOK(run'[b], evs, config)
    /\ decision' \in [Ids -> DecisionRecord]
    /\ \A i \in Ids : decision'[i] = decision[i] \/ DecisionOK(decision'[i], evs, config)
    /\ trail' \in [Ids -> Seq(EntryTypes)]

\* The records the module starts from are well typed and in order.
LEMMA InitialRecords ==
    /\ QuarantinePlan \in Plan
    /\ NoDraft \in Draft
    /\ NoRun \in RunRecord
    /\ NoDecision \in DecisionRecord
    /\ \A evs, cfg : RunOK(NoRun, evs, cfg) /\ DecisionOK(NoDecision, evs, cfg)
<1>1. QuarantinePlan \in Plan
  BY DEF QuarantinePlan, Plan, RiskLevels, ActionTypes
<1>2. NoDraft \in Draft
  BY <1>1 DEF NoDraft, Draft, Sources
<1>3. NoRun \in RunRecord
  BY <1>2, AssessmentAssumption DEF NoRun, RunRecord, Stages, Boundaries
<1>4. NoDecision \in DecisionRecord
  BY <1>2 DEF NoDecision, DecisionRecord, Boundaries
<1>5. \A evs, cfg : RunOK(NoRun, evs, cfg)
  BY DEF RunOK, NoRun
<1>6. \A evs, cfg : DecisionOK(NoDecision, evs, cfg)
  BY DEF DecisionOK, NoDecision
<1> QED
  BY <1>1, <1>2, <1>3, <1>4, <1>5, <1>6

\* The gate never answers "none", and answers "blocked" to a quarantine of
\* unknown risk whether or not the operator approves.
LEMMA GateAnswers ==
    /\ \A p, b : evaluate(p, b) \in Statuses
    /\ \A b : evaluate(QuarantinePlan, b) = "blocked"
    /\ "none" \notin Statuses
  BY DEF evaluate, Statuses, QuarantinePlan

\* In order once, in order for ever: the events table only grows.
LEMMA OrderIsStable ==
    ASSUME NEW evs, NEW more, evs \subseteq more, NEW cfg
    PROVE  /\ \A r : RunOK(r, evs, cfg) => RunOK(r, more, cfg)
           /\ \A d : DecisionOK(d, evs, cfg) => DecisionOK(d, more, cfg)
<1>1. \A r : RunOK(r, evs, cfg) => RunOK(r, more, cfg)
  BY Zenon DEF RunOK
<1>2. \A d : DecisionOK(d, evs, cfg) => DecisionOK(d, more, cfg)
  BY Zenon DEF DecisionOK
<1> QED
  BY <1>1, <1>2

\* The frame and the rest keep the invariant.
LEMMA FrameKeepsInv ==
    ASSUME AssessmentInv, StepFrame, RestOK
    PROVE  AssessmentInv'
<1>1. TypeOK'
  BY DEF AssessmentInv, TypeOK, StepFrame, RestOK
<1>2. \A a \in Runs : RunOK(run'[a], events', config')
  BY OrderIsStable DEF AssessmentInv, StepFrame
<1>3. \A i \in Ids : DecisionOK(decision'[i], events', config')
  BY OrderIsStable DEF AssessmentInv, StepFrame
<1> QED
  BY <1>1, <1>2, <1>3 DEF AssessmentInv

\* An appended entry keeps the trail's type.
LEMMA AuditType ==
    ASSUME TypeOK, NEW i, NEW type \in EntryTypes, WriteAudit(i, type)
    PROVE  trail' \in [Ids -> Seq(EntryTypes)]
<1>1. CASE UNCHANGED trail
  BY <1>1 DEF TypeOK
<1>2. CASE trail' = [trail EXCEPT ![i] = Append(@, type)]
  <2> SUFFICES ASSUME NEW j \in Ids PROVE (IF j = i THEN Append(trail[j], type) ELSE trail[j]) \in Seq(EntryTypes)
    BY <1>2 DEF TypeOK
  <2>1. trail[j] \in Seq(EntryTypes)
    BY DEF TypeOK
  <2> QED
    BY <2>1
<1> QED
  BY <1>1, <1>2 DEF WriteAudit

\* Every decision's creation entry has one of the types of the trail.
LEMMA CreationType == \A d : CreationEntry(d) \in EntryTypes
  BY DEF CreationEntry, EntryTypes

\* Going to wait: one run changes, to r with a new stage.
LEMMA WaitFrame ==
    ASSUME TypeOK, NEW a \in Runs, NEW r \in RunRecord, NEW stage \in Stages,
           NEW evs, NEW cfg, RunOK([r EXCEPT !.stage = stage], evs, cfg), WaitAt(a, r, stage)
    PROVE  /\ run' \in [Runs -> RunRecord]
           /\ \A b \in Runs : run'[b] = run[b] \/ RunOK(run'[b], evs, cfg)
<1>1. [r EXCEPT !.stage = stage] \in RunRecord
  BY DEF RunRecord
<1>2. run \in [Runs -> RunRecord]
  BY DEF TypeOK
<1>3. run' = [run EXCEPT ![a] = [r EXCEPT !.stage = stage]]
  BY DEF WaitAt
<1> QED
  BY <1>1, <1>2, <1>3

\* The end of a run.
LEMMA EndFrame ==
    ASSUME TypeOK, NEW a \in Runs, EndRun(a), NEW evs, NEW cfg
    PROVE  /\ run' \in [Runs -> RunRecord]
           /\ \A b \in Runs : run'[b] = run[b] \/ RunOK(run'[b], evs, cfg)
  BY InitialRecords DEF TypeOK, EndRun

\* Storing a decision in order is within the frame.
LEMMA StoreFrame ==
    ASSUME TypeOK, NEW a \in Runs, NEW r \in RunRecord, NEW d \in DecisionRecord,
           NEW evs, DecisionOK(d, evs, config),
           r.batch # {}, r.batch \subseteq evs,
           Store(a, r, d)
    PROVE  Outcome(evs)
<1>1. NewId \in Ids
  BY DEF Store, NewId
<1>2. /\ decision' \in [Ids -> DecisionRecord]
      /\ \A i \in Ids : decision'[i] = decision[i] \/ DecisionOK(decision'[i], evs, config)
  BY <1>1 DEF Store, TypeOK
<1>3. CASE config.supabase /\ WaitAt(a, [r EXCEPT !.incident = NewId], "recording") /\ UNCHANGED trail
  <2> DEFINE q == [r EXCEPT !.incident = NewId]
  <2>1. q \in RunRecord
    BY <1>1, AssessmentAssumption DEF RunRecord, Ids
  <2>2. RunOK([q EXCEPT !.stage = "recording"], evs, config)
    BY DEF RunOK, RunRecord
  <2>3. "recording" \in Stages
    BY DEF Stages
  <2> HIDE DEF q
  <2>4. WaitAt(a, q, "recording")
    BY <1>3 DEF q
  <2>5. /\ run' \in [Runs -> RunRecord]
        /\ \A b \in Runs : run'[b] = run[b] \/ RunOK(run'[b], evs, config)
    BY <2>1, <2>2, <2>3, <2>4, WaitFrame
  <2> QED
    BY <1>2, <1>3, <2>5 DEF TypeOK, Outcome
<1>4. CASE EndRun(a) /\ WriteAudit(NewId, CreationEntry(d))
  BY <1>1, <1>2, <1>4, EndFrame, AuditType, CreationType DEF Outcome
<1> QED
  BY <1>3, <1>4 DEF Store

\* Waiting without storing anything.
LEMMA WaitOutcome ==
    ASSUME TypeOK, NEW a \in Runs, NEW r \in RunRecord, NEW stage \in Stages,
           NEW evs, RunOK([r EXCEPT !.stage = stage], evs, config),
           WaitAt(a, r, stage), UNCHANGED <<decision, trail>>
    PROVE  Outcome(evs)
<1>1. /\ run' \in [Runs -> RunRecord]
      /\ \A b \in Runs : run'[b] = run[b] \/ RunOK(run'[b], evs, config)
  BY WaitFrame
<1> QED
  BY <1>1 DEF Outcome, TypeOK

\* The rows the three ways of storing write are typed and in order.
LEMMA BlockRow ==
    ASSUME NEW r \in RunRecord, NEW evs, r.batch # {}, r.batch \subseteq evs, NEW cfg
    PROVE  /\ security_block_decision(r) \in DecisionRecord
           /\ DecisionOK(security_block_decision(r), evs, cfg)
<1>1. [NoDraft EXCEPT !.source = "hiddenlayer-quarantine"]
        = [plan |-> QuarantinePlan, source |-> "hiddenlayer-quarantine"]
  BY DEF NoDraft
<1>2. [plan |-> QuarantinePlan, source |-> "hiddenlayer-quarantine"] \in Draft
  BY InitialRecords DEF Draft, Sources
<1>3. security_block_decision(r) \in DecisionRecord
  BY <1>1, <1>2 DEF security_block_decision, Row, DecisionRecord, RunRecord, Statuses
<1>4. DecisionOK(security_block_decision(r), evs, cfg)
  BY <1>1 DEF security_block_decision, Row, DecisionOK
<1> QED
  BY <1>3, <1>4

\* A row held after inference is typed and in order.
LEMMA HeldRow ==
    ASSUME NEW r \in RunRecord, NEW evs, r.batch # {}, r.batch \subseteq evs,
           r.draft.plan \in Plans, NEW cfg
    PROVE  /\ Row(r, r.draft, "blocked", "output") \in DecisionRecord
           /\ DecisionOK(Row(r, r.draft, "blocked", "output"), evs, cfg)
<1>1. Row(r, r.draft, "blocked", "output") \in DecisionRecord
  BY DEF Row, DecisionRecord, RunRecord, Statuses
<1>2. DecisionOK(Row(r, r.draft, "blocked", "output"), evs, cfg)
  BY DEF Row, DecisionOK
<1> QED
  BY <1>1, <1>2

\* A row with the gate's status is typed and in order; it claims a clean pass of
\* all boundaries when the run has made one.
LEMMA GatedRow ==
    ASSUME NEW r \in RunRecord, NEW evs, r.batch # {}, r.batch \subseteq evs,
           r.draft.plan \in Plans, NEW cfg,
           cfg.hiddenlayer # "off" => r.passed = Boundaries /\ ~ r.flagged
    PROVE  /\ Row(r, r.draft, GateStatus(r.draft.plan), "none") \in DecisionRecord
           /\ DecisionOK(Row(r, r.draft, GateStatus(r.draft.plan), "none"), evs, cfg)
<1> DEFINE status == GateStatus(r.draft.plan)
<1>1. status \in Statuses /\ status = evaluate(r.draft.plan, FALSE)
  BY GateAnswers DEF GateStatus
<1> HIDE DEF status
<1>2. Row(r, r.draft, status, "none") \in DecisionRecord
  BY <1>1 DEF Row, DecisionRecord, RunRecord
<1>3. DecisionOK(Row(r, r.draft, status, "none"), evs, cfg)
  BY <1>1 DEF Row, DecisionOK
<1> QED
  BY <1>2, <1>3 DEF status

\* Holding an output stores such a row.
LEMMA HoldOutcome ==
    ASSUME TypeOK, NEW a \in Runs, NEW r \in RunRecord, NEW evs,
           r.batch # {}, r.batch \subseteq evs, r.draft.plan \in Plans, HoldOutput(a, r)
    PROVE  Outcome(evs)
  BY HeldRow, StoreFrame DEF HoldOutput

\* Passing the gate stores such a row.
LEMMA GateOutcome ==
    ASSUME TypeOK, NEW a \in Runs, NEW r \in RunRecord, NEW evs,
           r.batch # {}, r.batch \subseteq evs, r.draft.plan \in Plans,
           config.hiddenlayer # "off" => r.passed = Boundaries /\ ~ r.flagged,
           Gate(a, r)
    PROVE  Outcome(evs)
  BY GatedRow, StoreFrame DEF Gate

\* From ingestion to the first scan, block or question.
LEMMA ScreenOutcome ==
    ASSUME TypeOK, NEW a \in Runs, NEW r \in RunRecord, NEW evs,
           r.batch # {}, r.batch \subseteq evs, r.passed = 0, ~ r.flagged, Screen(a, r)
    PROVE  Outcome(evs)
<1>1. CASE config.hiddenlayer = "on" /\ WaitAt(a, r, "scanning") /\ UNCHANGED <<decision, trail>>
  <2>1. RunOK([r EXCEPT !.stage = "scanning"], evs, config) /\ "scanning" \in Stages
    BY <1>1 DEF RunOK, RunRecord, Stages, Inputs, Boundaries
  <2> QED
    BY <1>1, <2>1, WaitOutcome
<1>2. CASE config.hiddenlayer = "off" /\ WaitAt(a, r, "asking") /\ UNCHANGED <<decision, trail>>
  <2>1. RunOK([r EXCEPT !.stage = "asking"], evs, config) /\ "asking" \in Stages
    BY <1>2 DEF RunOK, RunRecord, Stages
  <2> QED
    BY <1>2, <2>1, WaitOutcome
<1>3. CASE Store(a, r, security_block_decision(r))
  BY <1>3, BlockRow, StoreFrame
<1> QED
  BY <1>1, <1>2, <1>3 DEF Screen

\* Ingestion: the table grows by what was taken for new.
LEMMA IngestOutcome ==
    ASSUME TypeOK, NEW a \in Runs, NEW r \in RunRecord,
           r.batch # {}, r.batch \subseteq events \cup r.fresh, r.passed = 0, ~ r.flagged,
           Ingest(a, r)
    PROVE  /\ Outcome(events')
           /\ events \subseteq events' /\ events' \subseteq Events
           /\ ingested' \in [Events -> Nat]
<1>1. /\ events \subseteq events' /\ events' \subseteq Events
      /\ r.batch \subseteq events'
  BY DEF Ingest, TypeOK, RunRecord
<1>2. ingested' \in [Events -> Nat]
  BY DEF Ingest, TypeOK
<1>3. CASE WaitAt(a, r, "mirroring") /\ UNCHANGED <<decision, trail>>
  <2>1. RunOK([r EXCEPT !.stage = "mirroring"], events', config) /\ "mirroring" \in Stages
    BY <1>1 DEF RunOK, RunRecord, Stages
  <2> QED
    BY <1>1, <1>2, <1>3, <2>1, WaitOutcome
<1>4. CASE Screen(a, r)
  BY <1>1, <1>2, <1>4, ScreenOutcome
<1> QED
  BY <1>3, <1>4 DEF Ingest

\* The answer of a model goes to the output scans or to the gate.
LEMMA ReviewOutcome ==
    ASSUME TypeOK, NEW a \in Runs, NEW r \in RunRecord, NEW evs,
           r.batch # {}, r.batch \subseteq evs, r.draft.plan \in Plans, ~ r.flagged,
           config.hiddenlayer # "broken", config.hiddenlayer = "on" => r.passed = Inputs,
           Review(a, r)
    PROVE  Outcome(evs)
<1>1. CASE config.hiddenlayer = "on" /\ WaitAt(a, r, "scanning") /\ UNCHANGED <<decision, trail>>
  <2>1. RunOK([r EXCEPT !.stage = "scanning"], evs, config) /\ "scanning" \in Stages
    BY <1>1 DEF RunOK, RunRecord, Stages, Inputs, Boundaries
  <2> QED
    BY <1>1, <2>1, WaitOutcome
<1>2. CASE config.hiddenlayer # "on" /\ Gate(a, r)
  <2>1. config.hiddenlayer = "off"
    BY <1>2, AssessmentAssumption DEF TypeOK, Config
  <2> QED
    BY <1>2, <2>1, GateOutcome
<1> QED
  BY <1>1, <1>2 DEF Review

-----------------------------------------------------------------------------
(* One lemma per action: each stays within the frame.                      *)

\* What the invariant says of the run that steps.
LEMMA RunFacts ==
    ASSUME AssessmentInv, NEW a \in Runs
    PROVE  run[a] \in RunRecord /\ RunOK(run[a], events, config)
  BY DEF AssessmentInv, TypeOK

\* An outcome and unchanged settings make the frame.
LEMMA OutcomeFrame ==
    ASSUME Outcome(events'), config' = config, events \subseteq events', events' \subseteq Events
    PROVE  StepFrame
  BY DEF Outcome, StepFrame

\* The invariant, one lemma per step.  BeginRun: the rest of the batch is in the
\* table, so table and new events cover it.
LEMMA BeginStep ==
    ASSUME AssessmentInv, NEW a \in Runs, NEW batch \in SUBSET Events, BeginRun(a, batch)
    PROVE  StepFrame /\ RestOK
<1> DEFINE r == [NoRun EXCEPT !.batch = batch, !.fresh = filter_new_events(batch)]
<1>1. r \in RunRecord
  BY InitialRecords DEF RunRecord, filter_new_events
<1>2. /\ r.batch = batch /\ r.fresh = batch \ events
      /\ r.passed = 0 /\ ~ r.flagged
  BY DEF NoRun, filter_new_events
<1>3. batch # {}
  BY DEF BeginRun
<1> HIDE DEF r
<1>4. CASE WaitAt(a, r, "streaming") /\ UNCHANGED <<events, ingested, decision, trail>>
  <2>1. RunOK([r EXCEPT !.stage = "streaming"], events, config) /\ "streaming" \in Stages
    BY <1>1, <1>2, <1>3 DEF RunOK, RunRecord, Stages
  <2>2. Outcome(events)
    BY <1>1, <1>4, <2>1, WaitOutcome DEF AssessmentInv
  <2> QED
    BY <1>4, <2>2, OutcomeFrame DEF BeginRun, AssessmentInv, TypeOK, RestOK, Outcome
<1>5. CASE Ingest(a, r)
  <2>1. /\ Outcome(events')
        /\ events \subseteq events' /\ events' \subseteq Events
        /\ ingested' \in [Events -> Nat]
    BY <1>1, <1>2, <1>3, <1>5, IngestOutcome DEF AssessmentInv
  <2> QED
    BY <2>1, OutcomeFrame DEF BeginRun, AssessmentInv, TypeOK, RestOK, Outcome
<1> QED
  BY <1>4, <1>5 DEF BeginRun, r

\* Streamed ingests what was new before the wait.
LEMMA StreamedStep ==
    ASSUME AssessmentInv, NEW a \in Runs, Streamed(a)
    PROVE  StepFrame /\ RestOK
<1>1. run[a] \in RunRecord /\ RunOK(run[a], events, config)
  BY RunFacts
<1>2. /\ Outcome(events')
      /\ events \subseteq events' /\ events' \subseteq Events
      /\ ingested' \in [Events -> Nat]
  BY <1>1, IngestOutcome DEF Streamed, AssessmentInv, RunOK
<1> QED
  BY <1>2, OutcomeFrame DEF Streamed, AssessmentInv, TypeOK, RestOK, Outcome

\* StreamRaises only ends a run.
LEMMA StreamRaisesStep ==
    ASSUME AssessmentInv, NEW a \in Runs, StreamRaises(a)
    PROVE  StepFrame /\ RestOK
<1>1. /\ run' \in [Runs -> RunRecord]
      /\ \A b \in Runs : run'[b] = run[b] \/ RunOK(run'[b], events, config)
  BY EndFrame DEF StreamRaises, AssessmentInv
<1> QED
  BY <1>1 DEF StreamRaises, StepFrame, RestOK, AssessmentInv, TypeOK

\* EventsMirrored goes on to the screening.
LEMMA MirroredStep ==
    ASSUME AssessmentInv, NEW a \in Runs, EventsMirrored(a)
    PROVE  StepFrame /\ RestOK
<1>1. run[a] \in RunRecord /\ RunOK(run[a], events, config)
  BY RunFacts
<1>2. Outcome(events)
  BY <1>1, ScreenOutcome DEF EventsMirrored, AssessmentInv, RunOK
<1> QED
  BY <1>2, OutcomeFrame DEF EventsMirrored, AssessmentInv, TypeOK, RestOK, Outcome

\* ScanInput counts a clean answer or stores the block.
LEMMA ScanInputStep ==
    ASSUME AssessmentInv, NEW a \in Runs, ScanInput(a)
    PROVE  StepFrame /\ RestOK
<1> DEFINE r == [run[a] EXCEPT !.passed = @ + 1]
<1> DEFINE q == [r EXCEPT !.flagged = TRUE]
<1>1. /\ run[a] \in RunRecord /\ RunOK(run[a], events, config)
      /\ run[a].stage = "scanning" /\ run[a].passed < Inputs
      /\ TypeOK
  BY RunFacts DEF ScanInput, AssessmentInv
<1>2. /\ run[a].batch # {} /\ run[a].batch \subseteq events
      /\ config.hiddenlayer = "on" /\ ~ run[a].flagged
  BY <1>1 DEF RunOK
<1>3. /\ r \in RunRecord /\ r.batch = run[a].batch
      /\ r.passed = run[a].passed + 1 /\ ~ r.flagged
  BY <1>1, <1>2 DEF RunRecord, Inputs, Boundaries
<1>4. q \in RunRecord /\ q.batch = run[a].batch
  BY <1>3 DEF RunRecord
<1> HIDE DEF r, q
<1>5. Outcome(events)
  <2>1. CASE WaitAt(a, r, "asking") /\ r.passed = Inputs /\ UNCHANGED <<decision, trail>>
    <3>1. RunOK([r EXCEPT !.stage = "asking"], events, config) /\ "asking" \in Stages
      BY <1>2, <1>3, <2>1 DEF RunOK, RunRecord, Stages
    <3> QED
      BY <1>1, <1>3, <2>1, <3>1, WaitOutcome
  <2>2. CASE WaitAt(a, r, "scanning") /\ r.passed # Inputs /\ UNCHANGED <<decision, trail>>
    <3>1. RunOK([r EXCEPT !.stage = "scanning"], events, config) /\ "scanning" \in Stages
      BY <1>1, <1>2, <1>3, <2>2 DEF RunOK, RunRecord, Stages, Inputs, Boundaries
    <3> QED
      BY <1>1, <1>3, <2>2, <3>1, WaitOutcome
  <2>3. CASE Store(a, run[a], security_block_decision(run[a]))
    BY <1>1, <1>2, <2>3, BlockRow, StoreFrame
  <2>4. CASE Store(a, r, security_block_decision(q))
    BY <1>1, <1>2, <1>3, <1>4, <2>4, BlockRow, StoreFrame
  <2> QED
    BY <2>1, <2>2, <2>3, <2>4 DEF ScanInput, r, q
<1> QED
  BY <1>5, OutcomeFrame DEF ScanInput, AssessmentInv, TypeOK, RestOK, Outcome

\* The end of a run that failed.
LEMMA FailOutcome ==
    ASSUME TypeOK, NEW a \in Runs, FailRun(a)
    PROVE  Outcome(events) /\ lost' \subseteq Events
<1>1. /\ run' \in [Runs -> RunRecord]
      /\ \A b \in Runs : run'[b] = run[b] \/ RunOK(run'[b], events, config)
  BY EndFrame DEF FailRun
<1> QED
  BY <1>1 DEF FailRun, Outcome, TypeOK, RunRecord

\* A further wait in the model stages.
LEMMA AskAgain ==
    ASSUME TypeOK, NEW a \in Runs, NEW r \in RunRecord, NEW stage \in {"asking", "falling_back"},
           RunOK(r, events, config), r.stage = "asking",
           WaitAt(a, r, stage), UNCHANGED <<decision, trail>>
    PROVE  Outcome(events)
<1>1. RunOK([r EXCEPT !.stage = stage], events, config) /\ stage \in Stages
  BY DEF RunOK, RunRecord, Stages
<1> QED
  BY <1>1, WaitOutcome

\* A draft put into a run that was asking.
LEMMA AnswerOutcome ==
    ASSUME TypeOK, NEW a \in Runs, NEW r \in RunRecord, NEW p \in Plans, NEW source \in Sources,
           RunOK(r, events, config), r.stage \in {"asking", "falling_back"},
           Review(a, [r EXCEPT !.draft = [plan |-> p, source |-> source]])
    PROVE  Outcome(events)
<1> DEFINE q == [r EXCEPT !.draft = [plan |-> p, source |-> source]]
<1>1. p \in Plan
  BY AssessmentAssumption
<1>2. [plan |-> p, source |-> source] \in Draft
  BY <1>1 DEF Draft
<1>3. q \in RunRecord
  BY <1>2 DEF RunRecord
<1>4. /\ q.batch = r.batch /\ q.flagged = r.flagged /\ q.passed = r.passed
      /\ q.draft.plan = p
  BY DEF RunRecord
<1>5. /\ r.batch # {} /\ r.batch \subseteq events /\ ~ r.flagged
      /\ config.hiddenlayer # "broken" /\ (config.hiddenlayer = "on" => r.passed = Inputs)
  BY DEF RunOK
<1>6. Review(a, q)
  OBVIOUS
<1> HIDE DEF q
<1> QED
  BY <1>3, <1>4, <1>5, <1>6, ReviewOutcome

\* AskNemotron leaves the scan results of the run alone.
LEMMA NemotronStep ==
    ASSUME AssessmentInv, NEW a \in Runs, AskNemotron(a)
    PROVE  StepFrame /\ RestOK
<1>1. /\ run[a] \in RunRecord /\ RunOK(run[a], events, config)
      /\ run[a].stage = "asking" /\ TypeOK
  BY RunFacts DEF AskNemotron, AssessmentInv
<1>2. Outcome(events) /\ lost' \subseteq Events
  <2>1. CASE \E p \in Plans : Review(a, [run[a] EXCEPT !.draft = [plan |-> p, source |-> "nemotron"]])
             /\ UNCHANGED lost
    BY <1>1, <2>1, AnswerOutcome DEF Sources, TypeOK
  <2>2. CASE FailRun(a)
    BY <1>1, <2>2, FailOutcome
  <2>3. CASE WaitAt(a, run[a], "falling_back") /\ UNCHANGED <<decision, trail, lost>>
    BY <1>1, <2>3, AskAgain DEF TypeOK
  <2>4. CASE WaitAt(a, [run[a] EXCEPT !.attempt = 2], "asking") /\ UNCHANGED <<decision, trail, lost>>
    <3> DEFINE r == [run[a] EXCEPT !.attempt = 2]
    <3>1. r \in RunRecord /\ RunOK(r, events, config) /\ r.stage = "asking"
      BY <1>1 DEF RunRecord, RunOK
    <3> HIDE DEF r
    <3>2. WaitAt(a, r, "asking")
      BY <2>4 DEF r
    <3> QED
      BY <1>1, <2>4, <3>1, <3>2, AskAgain DEF TypeOK
  <2> QED
    BY <2>1, <2>2, <2>3, <2>4 DEF AskNemotron, RetryOrGiveUp
<1> QED
  BY <1>2, OutcomeFrame DEF AskNemotron, AssessmentInv, TypeOK, RestOK, Outcome

\* AskVllm likewise.
LEMMA VllmStep ==
    ASSUME AssessmentInv, NEW a \in Runs, AskVllm(a)
    PROVE  StepFrame /\ RestOK
<1>1. /\ run[a] \in RunRecord /\ RunOK(run[a], events, config)
      /\ run[a].stage = "falling_back" /\ TypeOK
  BY RunFacts DEF AskVllm, AssessmentInv
<1>2. Outcome(events) /\ lost' \subseteq Events
  <2>1. CASE \E p \in Plans : Review(a, [run[a] EXCEPT !.draft = [plan |-> p, source |-> "vllm"]])
             /\ UNCHANGED lost
    BY <1>1, <2>1, AnswerOutcome DEF Sources, TypeOK
  <2>2. CASE FailRun(a)
    BY <1>1, <2>2, FailOutcome
  <2> QED
    BY <2>1, <2>2 DEF AskVllm
<1> QED
  BY <1>2, OutcomeFrame DEF AskVllm, AssessmentInv, TypeOK, RestOK, Outcome

\* A run whose next output scan has answered.
LEMMA ScanAnswered ==
    ASSUME NEW r \in RunRecord, r.passed < Boundaries, NEW fired \in BOOLEAN
    PROVE  LET q == [r EXCEPT !.passed = @ + 1, !.flagged = @ \/ fired] IN
           /\ q \in RunRecord /\ q.passed = r.passed + 1
           /\ q.batch = r.batch /\ q.fresh = r.fresh /\ q.draft = r.draft
<1> DEFINE flag == r.flagged \/ fired
           q == [r EXCEPT !.passed = @ + 1, !.flagged = flag]
<1>1. flag \in BOOLEAN
  OBVIOUS
<1> HIDE DEF flag
<1>2. /\ r.passed + 1 \in 0 .. Boundaries
      /\ r \in [stage : Stages, batch : SUBSET Events, fresh : SUBSET Events,
                passed : 0 .. Boundaries, flagged : BOOLEAN, attempt : 1 .. 2,
                draft : Draft, incident : 0 .. MaxDecisions]
  BY DEF RunRecord, Boundaries
<1>3. q \in RunRecord
  BY <1>1, <1>2 DEF RunRecord
<1>4. /\ q.passed = r.passed + 1
      /\ q.batch = r.batch /\ q.fresh = r.fresh /\ q.draft = r.draft
  BY <1>2
<1> QED
  BY <1>3, <1>4 DEF flag

\* ScanOutput reaches the gate only with six clean answers.
LEMMA ScanOutputStep ==
    ASSUME AssessmentInv, NEW a \in Runs, ScanOutput(a)
    PROVE  StepFrame /\ RestOK
<1>1. /\ run[a] \in RunRecord /\ RunOK(run[a], events, config)
      /\ run[a].stage = "scanning" /\ run[a].passed >= Inputs
      /\ TypeOK
  BY RunFacts DEF ScanOutput, AssessmentInv
<1>2. /\ run[a].batch # {} /\ run[a].batch \subseteq events
      /\ config.hiddenlayer = "on" /\ run[a].passed < Boundaries
      /\ run[a].draft.plan \in Plans
  BY <1>1 DEF RunOK
<1>3. Outcome(events)
  <2>1. CASE HoldOutput(a, run[a])
    BY <1>1, <1>2, <2>1, HoldOutcome
  <2>2. ASSUME NEW fired \in BOOLEAN,
               Judge(a, [run[a] EXCEPT !.passed = @ + 1, !.flagged = @ \/ fired])
        PROVE  Outcome(events)
    <3> DEFINE r == [run[a] EXCEPT !.passed = @ + 1, !.flagged = @ \/ fired]
    <3>1. /\ r \in RunRecord /\ r.batch = run[a].batch /\ r.draft = run[a].draft
          /\ r.passed = run[a].passed + 1
      BY <1>1, <1>2, ScanAnswered
    <3>2. Judge(a, r)
      BY <2>2
    <3> HIDE DEF r
    <3>3. CASE r.passed < Boundaries /\ WaitAt(a, r, "scanning") /\ UNCHANGED <<decision, trail>>
      <4>1. RunOK([r EXCEPT !.stage = "scanning"], events, config) /\ "scanning" \in Stages
        BY <1>1, <1>2, <3>1, <3>3 DEF RunOK, RunRecord, Stages, Inputs, Boundaries
      <4> QED
        BY <1>1, <3>1, <3>3, <4>1, WaitOutcome
    <3>4. CASE HoldOutput(a, r)
      BY <1>1, <1>2, <3>1, <3>4, HoldOutcome
    <3>5. CASE r.passed = Boundaries /\ ~ r.flagged /\ Gate(a, r)
      BY <1>1, <1>2, <3>1, <3>5, GateOutcome
    <3> QED
      BY <3>2, <3>3, <3>4, <3>5 DEF Judge
  <2> QED
    BY <2>1, <2>2 DEF ScanOutput
<1> QED
  BY <1>3, OutcomeFrame DEF ScanOutput, AssessmentInv, TypeOK, RestOK, Outcome

\* DecisionMirrored appends an entry and ends the run.
LEMMA RecordedStep ==
    ASSUME AssessmentInv, NEW a \in Runs, DecisionMirrored(a)
    PROVE  StepFrame /\ RestOK
<1>1. /\ run' \in [Runs -> RunRecord]
      /\ \A b \in Runs : run'[b] = run[b] \/ RunOK(run'[b], events, config)
  BY EndFrame DEF DecisionMirrored, AssessmentInv
<1>2. trail' \in [Ids -> Seq(EntryTypes)]
  BY AuditType, CreationType DEF DecisionMirrored, AssessmentInv
<1> QED
  BY <1>1, <1>2 DEF DecisionMirrored, StepFrame, RestOK, AssessmentInv, TypeOK

\* A verdict leaves a hold before inference where it is, because the gate
\* blocks the plan such a hold carries.
LEMMA VerdictStep ==
    ASSUME AssessmentInv, NEW i \in Ids, approve(i) \/ reject(i)
    PROVE  StepFrame /\ RestOK
<1>1. PICK status, verdict :
        /\ status \in Statuses /\ verdict \in {"approved", "rejected"}
        /\ decision[i].draft.plan = QuarantinePlan => status = "blocked"
        /\ Judged(i, status, verdict)
  BY GateAnswers DEF approve, reject, Statuses
<1>2. trail' \in [Ids -> Seq(EntryTypes)]
  BY <1>1, AuditType DEF Judged, AssessmentInv, EntryTypes
<1>3. decision[i] \in DecisionRecord /\ DecisionOK(decision[i], events, config) /\ Known(i)
  BY <1>1 DEF AssessmentInv, TypeOK, Judged
<1> DEFINE d == [decision[i] EXCEPT !.policy_status = status, !.verdict = verdict]
<1>4. /\ d.policy_status = status /\ d.verdict = verdict /\ d.draft = decision[i].draft
      /\ d.evidence = decision[i].evidence /\ d.hold = decision[i].hold
  BY <1>3 DEF DecisionRecord
<1>5. d \in DecisionRecord
  BY <1>1, <1>3 DEF DecisionRecord
<1>6. decision' = [decision EXCEPT ![i] = d]
  BY <1>1 DEF Judged
<1> HIDE DEF d
<1>7. DecisionOK(d, events, config)
  BY <1>1, <1>3, <1>4 DEF DecisionOK, Known
<1>8. /\ decision' \in [Ids -> DecisionRecord]
      /\ \A j \in Ids : decision'[j] = decision[j] \/ DecisionOK(decision'[j], events, config)
  BY <1>5, <1>6, <1>7 DEF AssessmentInv, TypeOK
<1>9. verdicts' \in 0 .. MaxVerdicts
  BY <1>1, AssessmentAssumption DEF AssessmentInv, TypeOK, Judged
<1> QED
  BY <1>1, <1>2, <1>8, <1>9 DEF Judged, StepFrame, RestOK, AssessmentInv, TypeOK

\* simulate only adds to the events table.
LEMMA SimulateStep ==
    ASSUME AssessmentInv, NEW batch \in SUBSET Events, simulate(batch)
    PROVE  StepFrame /\ RestOK
  BY DEF simulate, filter_new_events, StepFrame, RestOK, AssessmentInv, TypeOK

\* Crash forgets the runs; the tables stay.
LEMMA CrashStep ==
    ASSUME AssessmentInv, Crash
    PROVE  StepFrame /\ RestOK
<1>1. /\ run' \in [Runs -> RunRecord]
      /\ \A b \in Runs : RunOK(run'[b], events, config)
  BY InitialRecords DEF Crash
<1>2. lost' \subseteq Events
  BY DEF Crash, AssessmentInv, TypeOK, RunRecord
<1>3. crashes' \in 0 .. MaxCrashes
  BY AssessmentAssumption DEF Crash, AssessmentInv, TypeOK
<1> QED
  BY <1>1, <1>2, <1>3 DEF Crash, StepFrame, RestOK, AssessmentInv, TypeOK

\* A stuttering step.
LEMMA IdleStep ==
    ASSUME AssessmentInv, UNCHANGED vars
    PROVE  StepFrame /\ RestOK
  BY DEF vars, StepFrame, RestOK, AssessmentInv, TypeOK

-----------------------------------------------------------------------------
\* Every step keeps every run and every decision in order.
THEOREM InvariantHolds == Spec => []AssessmentInv
<1>1. Init => AssessmentInv
  <2> SUFFICES ASSUME Init PROVE AssessmentInv
    OBVIOUS
  <2>1. TypeOK
    BY InitialRecords, AssessmentAssumption DEF Init, TypeOK
  <2> QED
    BY <2>1, InitialRecords DEF Init, AssessmentInv
<1>2. AssessmentInv /\ [Next]_vars => AssessmentInv'
  <2> SUFFICES ASSUME AssessmentInv, [Next]_vars PROVE StepFrame /\ RestOK
    BY FrameKeepsInv
  <2>1. CASE \E a \in Runs, batch \in SUBSET Events : BeginRun(a, batch)
    BY <2>1, BeginStep
  <2>2. CASE \E a \in Runs : Step(a)
    BY <2>2, StreamedStep, StreamRaisesStep, MirroredStep, ScanInputStep, NemotronStep,
       VllmStep, ScanOutputStep, RecordedStep DEF Step
  <2>3. CASE \E i \in Ids : approve(i) \/ reject(i)
    BY <2>3, VerdictStep
  <2>4. CASE \E batch \in SUBSET Events : simulate(batch)
    BY <2>4, SimulateStep
  <2> QED
    BY <2>1, <2>2, <2>3, <2>4, CrashStep, IdleStep DEF Next
<1> QED
  BY <1>1, <1>2, PTL DEF Spec

\* The state of the service is always well typed.
THEOREM TypeCorrect == Spec => []TypeOK
<1>1. AssessmentInv => TypeOK
  BY DEF AssessmentInv
<1> QED
  BY <1>1, InvariantHolds, PTL

\* No model is asked about content the input scans have not passed.
THEOREM ModelReadsScreened == Spec => []InferenceIsScreened
<1>1. AssessmentInv => InferenceIsScreened
  BY AssessmentAssumption DEF AssessmentInv, RunOK, InferenceIsScreened, TypeOK, Config
<1> QED
  BY <1>1, InvariantHolds, PTL

\* A decision left for the operator is one that six scans have passed.
THEOREM WaitingIsCleared == Spec => []OnlyClearedWaits
<1>1. AssessmentInv => OnlyClearedWaits
  BY DEF AssessmentInv, DecisionOK, OnlyClearedWaits, Known
<1> QED
  BY <1>1, InvariantHolds, PTL

\* No approval opens a decision that was stopped before inference.
THEOREM InputHoldsAreFinal == Spec => []InputHoldIsFinal
<1>1. AssessmentInv => InputHoldIsFinal
  BY DEF AssessmentInv, DecisionOK, InputHoldIsFinal
<1> QED
  BY <1>1, InvariantHolds, PTL

\* The evidence of every stored decision is in the events table.
THEOREM EvidenceCanBeRead == Spec => []EvidenceIsStored
<1>1. AssessmentInv => EvidenceIsStored
  BY DEF AssessmentInv, DecisionOK, EvidenceIsStored, Known
<1> QED
  BY <1>1, InvariantHolds, PTL

\* Decisions enter the table as approval and delivery assume them.
THEOREM DeliveryIsServed == Spec => []StoresWhatDeliveryReads
<1>1. AssessmentInv => StoresWhatDeliveryReads
  BY DEF AssessmentInv, DecisionOK, StoresWhatDeliveryReads, Known
<1> QED
  BY <1>1, InvariantHolds, PTL

-----------------------------------------------------------------------------
(* The order of the trail, and the counts.  Of a step of run a it is       *)
(* enough to know that a does not wait for Kafka after it, that it waits   *)
(* to record only if Supabase is configured, and that, without Supabase, a *)
(* decision is stored with its entry, if any entry is written.             *)

Moves(a) ==
    /\ run'[a].stage # "streaming"
    /\ run'[a].stage = "recording" => config.supabase
    /\ \A b \in Runs \ {a} : run'[b] = run[b]

Creates ==
    \E i \in Ids, type \in EntryTypes : \E d :
        /\ ~ Known(i)
        /\ d.policy_status # "none"
        /\ decision' = [decision EXCEPT ![i] = d]
        /\ WriteAudit(i, type)

TrailFrame(a) ==
    /\ Moves(a)
    /\ config.supabase \/ UNCHANGED <<decision, trail>> \/ Creates

\* One run is replaced.
LEMMA OneMoves ==
    ASSUME TypeOK, NEW a \in Runs, NEW q, run' = [run EXCEPT ![a] = q],
           q.stage # "streaming", q.stage = "recording" => config.supabase
    PROVE  Moves(a)
<1>1. run'[a] = q /\ \A b \in Runs \ {a} : run'[b] = run[b]
  BY DEF TypeOK
<1> QED
  BY <1>1, Zenon DEF Moves

\* Waiting anywhere but at the two ends.
LEMMA WaitMoves ==
    ASSUME TypeOK, NEW a \in Runs, NEW r, "stage" \in DOMAIN r,
           NEW stage \in Stages \ {"streaming", "recording"},
           WaitAt(a, r, stage), UNCHANGED <<decision, trail>>
    PROVE  TrailFrame(a)
<1>1. [r EXCEPT !.stage = stage].stage = stage
  OBVIOUS
<1>2. run' = [run EXCEPT ![a] = [r EXCEPT !.stage = stage]]
  BY DEF WaitAt
<1>3. Moves(a)
  BY <1>1, <1>2, OneMoves
<1> QED
  BY <1>3 DEF TrailFrame

\* A run that ends.
LEMMA EndMoves ==
    ASSUME TypeOK, NEW a \in Runs, EndRun(a)
    PROVE  Moves(a)
<1>1. NoRun.stage = "idle"
  BY DEF NoRun
<1> QED
  BY <1>1, OneMoves DEF EndRun

\* Storing a decision.
LEMMA StoreMoves ==
    ASSUME TypeOK, NEW a \in Runs, NEW r, "stage" \in DOMAIN r,
           NEW d, d.policy_status # "none", Store(a, r, d)
    PROVE  TrailFrame(a)
<1>1. NewId \in Ids /\ ~ Known(NewId)
  BY DEF Store, NewId
<1>2. CASE config.supabase
  <2> DEFINE q == [r EXCEPT !.incident = NewId]
  <2>1. "stage" \in DOMAIN q
    OBVIOUS
  <2>2. EndRun(a) \/ WaitAt(a, q, "recording")
    BY DEF Store
  <2> HIDE DEF q
  <2>3. ASSUME WaitAt(a, q, "recording") PROVE Moves(a)
    <3>1. [q EXCEPT !.stage = "recording"].stage = "recording"
      BY <2>1
    <3>2. run' = [run EXCEPT ![a] = [q EXCEPT !.stage = "recording"]]
      BY <2>3 DEF WaitAt
    <3>3. "recording" # "streaming"
      OBVIOUS
    <3> QED
      BY <1>2, <3>1, <3>2, <3>3, OneMoves, Zenon
  <2>4. Moves(a)
    BY <2>2, <2>3, EndMoves
  <2> QED
    BY <1>2, <2>4 DEF TrailFrame
<1>3. CASE ~ config.supabase
  <2>1. /\ decision' = [decision EXCEPT ![NewId] = d]
        /\ EndRun(a) /\ WriteAudit(NewId, CreationEntry(d))
    BY <1>3 DEF Store
  <2>2. Creates
    BY <1>1, <2>1, CreationType DEF Creates
  <2> QED
    BY <2>1, <2>2, EndMoves DEF TrailFrame
<1> QED
  BY <1>2, <1>3

\* The rows a run stores have a status.
LEMMA RowStatus ==
    ASSUME NEW r, NEW draft, NEW status, NEW hold
    PROVE  Row(r, draft, status, hold).policy_status = status
  BY DEF Row

\* The three ways of storing.
LEMMA RowMoves ==
    ASSUME TypeOK, NEW a \in Runs, NEW r, "stage" \in DOMAIN r,
           \/ HoldOutput(a, r)
           \/ Gate(a, r)
           \/ \E q : Store(a, r, security_block_decision(q))
    PROVE  TrailFrame(a)
<1>1. GateStatus(r.draft.plan) # "none" /\ "blocked" # "none"
  BY GateAnswers DEF GateStatus
<1>2. CASE HoldOutput(a, r)
  BY <1>2, RowStatus, StoreMoves DEF HoldOutput
<1>3. CASE Gate(a, r)
  BY <1>1, <1>3, RowStatus, StoreMoves DEF Gate
<1>4. CASE \E q : Store(a, r, security_block_decision(q))
  <2>1. PICK q : Store(a, r, security_block_decision(q))
    BY <1>4
  <2>2. security_block_decision(q).policy_status # "none"
    BY RowStatus DEF security_block_decision
  <2> QED
    BY <2>1, <2>2, StoreMoves
<1> QED
  BY <1>2, <1>3, <1>4

\* From ingestion on.
LEMMA ScreenMoves ==
    ASSUME TypeOK, NEW a \in Runs, NEW r, "stage" \in DOMAIN r, Screen(a, r)
    PROVE  TrailFrame(a)
<1>1. {"scanning", "asking"} \subseteq Stages \ {"streaming", "recording"}
  BY DEF Stages
<1>2. CASE Store(a, r, security_block_decision(r))
  BY <1>2, RowMoves
<1>3. CASE (WaitAt(a, r, "scanning") \/ WaitAt(a, r, "asking")) /\ UNCHANGED <<decision, trail>>
  BY <1>1, <1>3, WaitMoves
<1> QED
  BY <1>2, <1>3 DEF Screen

LEMMA IngestMoves ==
    ASSUME TypeOK, NEW a \in Runs, NEW r, "stage" \in DOMAIN r, Ingest(a, r)
    PROVE  TrailFrame(a)
<1>1. "mirroring" \in Stages \ {"streaming", "recording"}
  BY DEF Stages
<1> QED
  BY <1>1, ScreenMoves, WaitMoves DEF Ingest

\* From the answer of a model on.
LEMMA ReviewMoves ==
    ASSUME TypeOK, NEW a \in Runs, NEW r, "stage" \in DOMAIN r, Review(a, r)
    PROVE  TrailFrame(a)
<1>1. "scanning" \in Stages \ {"streaming", "recording"}
  BY DEF Stages
<1> QED
  BY <1>1, RowMoves, WaitMoves DEF Review

LEMMA FailMoves ==
    ASSUME TypeOK, NEW a \in Runs, FailRun(a)
    PROVE  TrailFrame(a)
  BY EndMoves DEF FailRun, TrailFrame

\* Every step of a run but the end of the wait for Kafka: table and counts stay.
LEMMA StepMoves ==
    ASSUME TypeOK, NEW a \in Runs, Step(a), ~ Streamed(a),
           config.supabase \/ run[a].stage # "recording"
    PROVE  TrailFrame(a) /\ UNCHANGED <<config, events, ingested>>
<1>1. run[a] \in RunRecord /\ "stage" \in DOMAIN run[a]
  BY DEF TypeOK, RunRecord
<1>2. {"scanning", "asking", "falling_back"} \subseteq Stages \ {"streaming", "recording"}
  BY DEF Stages
<1>3. CASE StreamRaises(a)
  BY <1>3, EndMoves DEF StreamRaises, TrailFrame
<1>4. CASE EventsMirrored(a)
  BY <1>1, <1>4, ScreenMoves DEF EventsMirrored
<1>5. CASE ScanInput(a)
  <2> DEFINE q == [run[a] EXCEPT !.passed = @ + 1]
  <2>1. "stage" \in DOMAIN q
    BY <1>1
  <2>2. /\ UNCHANGED <<config, events, ingested>>
        /\ \/ (WaitAt(a, q, "asking") \/ WaitAt(a, q, "scanning")) /\ UNCHANGED <<decision, trail>>
           \/ Store(a, run[a], security_block_decision(run[a]))
           \/ \E x : Store(a, q, security_block_decision(x))
    BY <1>5 DEF ScanInput
  <2> HIDE DEF q
  <2> QED
    BY <1>1, <1>2, <2>1, <2>2, RowMoves, WaitMoves
<1>6. CASE AskNemotron(a)
  <2>1. CASE \E p \in Plans : Review(a, [run[a] EXCEPT !.draft = [plan |-> p, source |-> "nemotron"]])
    <3>1. PICK p \in Plans : Review(a, [run[a] EXCEPT !.draft = [plan |-> p, source |-> "nemotron"]])
      BY <2>1
    <3> DEFINE q == [run[a] EXCEPT !.draft = [plan |-> p, source |-> "nemotron"]]
    <3>2. "stage" \in DOMAIN q /\ Review(a, q)
      BY <1>1, <3>1
    <3> HIDE DEF q
    <3> QED
      BY <1>6, <3>2, ReviewMoves DEF AskNemotron
  <2>2. CASE FailRun(a)
    BY <1>6, <2>2, FailMoves DEF AskNemotron
  <2>3. CASE WaitAt(a, run[a], "falling_back") /\ UNCHANGED <<decision, trail, lost>>
    BY <1>1, <1>2, <1>6, <2>3, WaitMoves DEF AskNemotron
  <2>4. CASE WaitAt(a, [run[a] EXCEPT !.attempt = 2], "asking") /\ UNCHANGED <<decision, trail, lost>>
    <3> DEFINE q == [run[a] EXCEPT !.attempt = 2]
    <3>1. "stage" \in DOMAIN q /\ WaitAt(a, q, "asking")
      BY <1>1, <2>4
    <3> HIDE DEF q
    <3> QED
      BY <1>2, <1>6, <2>4, <3>1, WaitMoves DEF AskNemotron
  <2> QED
    BY <1>6, <2>1, <2>2, <2>3, <2>4 DEF AskNemotron, RetryOrGiveUp
<1>7. CASE AskVllm(a)
  <2>1. CASE \E p \in Plans : Review(a, [run[a] EXCEPT !.draft = [plan |-> p, source |-> "vllm"]])
    <3>1. PICK p \in Plans : Review(a, [run[a] EXCEPT !.draft = [plan |-> p, source |-> "vllm"]])
      BY <2>1
    <3> DEFINE q == [run[a] EXCEPT !.draft = [plan |-> p, source |-> "vllm"]]
    <3>2. "stage" \in DOMAIN q /\ Review(a, q)
      BY <1>1, <3>1
    <3> HIDE DEF q
    <3> QED
      BY <1>7, <3>2, ReviewMoves DEF AskVllm
  <2>2. CASE FailRun(a)
    BY <1>7, <2>2, FailMoves DEF AskVllm
  <2> QED
    BY <1>7, <2>1, <2>2 DEF AskVllm
<1>8. CASE ScanOutput(a)
  <2>1. CASE HoldOutput(a, run[a])
    BY <1>1, <1>8, <2>1, RowMoves DEF ScanOutput
  <2>2. ASSUME NEW fired \in BOOLEAN,
               Judge(a, [run[a] EXCEPT !.passed = @ + 1, !.flagged = @ \/ fired])
        PROVE  TrailFrame(a)
    <3> DEFINE q == [run[a] EXCEPT !.passed = @ + 1, !.flagged = @ \/ fired]
    <3>1. "stage" \in DOMAIN q /\ Judge(a, q)
      BY <1>1, <2>2
    <3> HIDE DEF q
    <3> QED
      BY <1>2, <3>1, RowMoves, WaitMoves DEF Judge
  <2> QED
    BY <1>8, <2>1, <2>2 DEF ScanOutput
<1>9. CASE DecisionMirrored(a)
  BY <1>9, EndMoves DEF DecisionMirrored, TrailFrame
<1> QED
  BY <1>3, <1>4, <1>5, <1>6, <1>7, <1>8, <1>9 DEF Step


\* A run that goes to wait for Kafka.
Streams(a) ==
    \E r : /\ "stage" \in DOMAIN r
           /\ r.fresh \cap events = {}
           /\ config.kafka
           /\ WaitAt(a, r, "streaming")
           /\ UNCHANGED <<events, ingested, decision, trail>>

\* BeginRun waits for Kafka, or ingests what the table lacks.
LEMMA BeginMoves ==
    ASSUME NEW a \in Runs, NEW batch \in SUBSET Events, BeginRun(a, batch)
    PROVE  /\ UNCHANGED config
           /\ \/ Streams(a)
              \/ \E r : /\ "stage" \in DOMAIN r
                        /\ r.fresh \cap events = {}
                        /\ config.kafka => r.fresh = {}
                        /\ Ingest(a, r)
<1> DEFINE r == [NoRun EXCEPT !.batch = batch, !.fresh = filter_new_events(batch)]
<1>1. "stage" \in DOMAIN r /\ r.fresh \cap events = {}
  BY DEF NoRun, filter_new_events
<1>2. UNCHANGED config
  BY DEF BeginRun
<1>3. \/ /\ config.kafka /\ r.fresh # {}
         /\ WaitAt(a, r, "streaming")
         /\ UNCHANGED <<events, ingested, decision, trail>>
      \/ /\ ~ (config.kafka /\ r.fresh # {})
         /\ Ingest(a, r)
  BY DEF BeginRun
<1> HIDE DEF r
<1> QED
  BY <1>1, <1>2, <1>3 DEF Streams

-----------------------------------------------------------------------------
\* Without Supabase no run waits to record, a trail is empty until its
\* decision is stored, and from then on only verdicts are appended.
TrailOK ==
    ~ config.supabase =>
        /\ \A a \in Runs : run[a].stage # "recording"
        /\ \A i \in Ids : ~ Known(i) => trail[i] = << >>
        /\ \A i \in Ids : \A k \in 2 .. Len(trail[i]) : trail[i][k] \in {"approved", "rejected"}

\* A decision enters the table with the first entry of its trail.
LEMMA CreationKeepsOrder ==
    ASSUME TypeOK, TrailOK, ~ config.supabase, Creates
    PROVE  /\ \A j \in Ids : ~ Known(j)' => trail'[j] = << >>
           /\ \A j \in Ids : \A k \in 2 .. Len(trail'[j]) : trail'[j][k] \in {"approved", "rejected"}
<1>1. PICK i \in Ids, type \in EntryTypes :
        \E d : /\ ~ Known(i)
               /\ d.policy_status # "none"
               /\ decision' = [decision EXCEPT ![i] = d]
               /\ WriteAudit(i, type)
  BY DEF Creates
<1>2. PICK d : /\ ~ Known(i)
               /\ d.policy_status # "none"
               /\ decision' = [decision EXCEPT ![i] = d]
               /\ WriteAudit(i, type)
  BY <1>1
<1>3. trail[i] = << >>
  BY <1>2 DEF TrailOK
<1>4. \A j \in Ids : j # i => trail'[j] = trail[j] /\ decision'[j] = decision[j]
  BY <1>2 DEF WriteAudit, TypeOK
<1>5. Known(i)'
  BY <1>2 DEF Known, TypeOK
<1>6. Len(trail'[i]) = 0 \/ Len(trail'[i]) = 1
  <2>1. << >> \in Seq(EntryTypes) /\ Len(<< >>) = 0
    OBVIOUS
  <2>2. Len(Append(<< >>, type)) = 1
    BY <2>1
  <2>3. trail'[i] = Append(<< >>, type) \/ trail'[i] = << >>
    BY <1>2, <1>3 DEF WriteAudit, TypeOK
  <2> QED
    BY <2>1, <2>2, <2>3, Zenon
<1>7. ASSUME NEW j \in Ids, ~ Known(j)' PROVE trail'[j] = << >>
  BY <1>4, <1>5, <1>7 DEF TrailOK, Known
<1>8. ASSUME NEW j \in Ids, NEW k \in 2 .. Len(trail'[j]) PROVE trail'[j][k] \in {"approved", "rejected"}
  BY <1>4, <1>6, <1>8 DEF TrailOK
<1> QED
  BY <1>7, <1>8

\* A step of a run keeps the order.
LEMMA FrameKeepsOrder ==
    ASSUME TypeOK, TrailOK, NEW a \in Runs, TrailFrame(a), UNCHANGED config
    PROVE  TrailOK'
<1> SUFFICES ASSUME ~ config.supabase PROVE TrailOK'
  BY DEF TrailOK
<1>1. \A b \in Runs : run'[b].stage # "recording"
  BY DEF TrailFrame, Moves, TrailOK
<1>2. CASE UNCHANGED <<decision, trail>>
  BY <1>1, <1>2 DEF TrailOK, Known
<1>3. CASE Creates
  BY <1>1, <1>3, CreationKeepsOrder DEF TrailOK
<1> QED
  BY <1>2, <1>3 DEF TrailFrame

\* Beginning to wait for Kafka keeps it.
LEMMA StreamsKeepsOrder ==
    ASSUME TypeOK, TrailOK, NEW a \in Runs, Streams(a), UNCHANGED config
    PROVE  TrailOK'
<1>1. PICK r : "stage" \in DOMAIN r /\ WaitAt(a, r, "streaming")
  BY DEF Streams
<1>2. run'[a].stage = "streaming" /\ \A b \in Runs \ {a} : run'[b] = run[b]
  BY <1>1 DEF WaitAt, TypeOK
<1>3. UNCHANGED <<decision, trail>>
  BY DEF Streams
<1> QED
  BY <1>2, <1>3 DEF TrailOK, Known

\* A verdict appends itself to the trail of a stored decision.
LEMMA VerdictKeepsOrder ==
    ASSUME TypeOK, TrailOK, NEW i \in Ids, approve(i) \/ reject(i)
    PROVE  TrailOK'
<1>1. PICK status, verdict :
        status \in Statuses /\ verdict \in {"approved", "rejected"} /\ Judged(i, status, verdict)
  BY GateAnswers DEF approve, reject, Statuses
<1>2. Known(i) /\ WriteAudit(i, verdict) /\ UNCHANGED <<config, run>>
  BY <1>1 DEF Judged
<1> SUFFICES ASSUME ~ config.supabase PROVE TrailOK'
  BY <1>2 DEF TrailOK
<1>3. \A j \in Ids : j # i => trail'[j] = trail[j] /\ decision'[j] = decision[j]
  BY <1>1 DEF Judged, WriteAudit, TypeOK
<1>4. Known(i)'
  BY <1>1, GateAnswers DEF Judged, Known, TypeOK, DecisionRecord
<1>5. \A k \in 2 .. Len(trail'[i]) : trail'[i][k] \in {"approved", "rejected"}
  <2>1. CASE UNCHANGED trail
    BY <2>1 DEF TrailOK
  <2>2. CASE trail'[i] = Append(trail[i], verdict)
    <3>1. trail[i] \in Seq(EntryTypes)
      BY DEF TypeOK
    <3>2. \A k \in 2 .. Len(trail[i]) : trail[i][k] \in {"approved", "rejected"}
      BY DEF TrailOK
    <3> QED
      BY <1>1, <2>2, <3>1, <3>2
  <2> QED
    BY <1>2, <2>1, <2>2 DEF WriteAudit, TypeOK
<1>6. ASSUME NEW j \in Ids, ~ Known(j)' PROVE trail'[j] = << >>
  BY <1>3, <1>4, <1>6 DEF TrailOK, Known
<1>7. ASSUME NEW j \in Ids, NEW k \in 2 .. Len(trail'[j]) PROVE trail'[j][k] \in {"approved", "rejected"}
  BY <1>3, <1>5, <1>7 DEF TrailOK
<1> QED
  BY <1>2, <1>6, <1>7 DEF TrailOK

\* Trails stay in order.
THEOREM OrderHolds == Spec => []TrailOK
<1>1. Init => TrailOK
  BY DEF Init, TrailOK, NoRun
<1>2. AssessmentInv /\ TrailOK /\ [Next]_vars => TrailOK'
  <2> SUFFICES ASSUME TypeOK, TrailOK, [Next]_vars PROVE TrailOK'
    BY DEF AssessmentInv
  <2>1. CASE \E a \in Runs, batch \in SUBSET Events : BeginRun(a, batch)
    BY <2>1, BeginMoves, IngestMoves, FrameKeepsOrder, StreamsKeepsOrder
  <2>2. CASE \E a \in Runs : Streamed(a)
    <3>1. PICK a \in Runs : Streamed(a)
      BY <2>2
    <3>2. "stage" \in DOMAIN run[a]
      BY DEF TypeOK, RunRecord
    <3> QED
      BY <3>1, <3>2, IngestMoves, FrameKeepsOrder DEF Streamed
  <2>3. CASE \E a \in Runs : Step(a) /\ ~ Streamed(a)
    <3>1. PICK a \in Runs : Step(a) /\ ~ Streamed(a)
      BY <2>3
    <3> QED
      BY <3>1, StepMoves, FrameKeepsOrder DEF TrailOK
  <2>4. CASE \E i \in Ids : approve(i) \/ reject(i)
    BY <2>4, VerdictKeepsOrder
  <2>5. CASE (\E batch \in SUBSET Events : simulate(batch)) \/ UNCHANGED vars
    BY <2>5 DEF simulate, vars, TrailOK, Known
  <2>6. CASE Crash
    BY <2>6 DEF Crash, NoRun, TrailOK, Known
  <2> QED
    BY <2>1, <2>2, <2>3, <2>4, <2>5, <2>6 DEF Next
<1> QED
  BY <1>1, <1>2, InvariantHolds, PTL DEF Spec

\* The audit trail tells of a decision before it tells of a verdict on it,
\* when no Supabase write comes in between.
THEOREM CreationIsFirst == Spec => []CreationComesFirst
<1>1. TrailOK => CreationComesFirst
  BY DEF TrailOK, CreationComesFirst
<1> QED
  BY <1>1, OrderHolds, PTL

-----------------------------------------------------------------------------
\* The runs that wait for Kafka with e among what they took for new.
Pending(e) == {a \in Runs : run[a].stage = "streaming" /\ e \in run[a].fresh}

MostCounts == IF config.kafka THEN Cardinality(Runs) ELSE 1

\* An event that counted is in the table, and the runs that may still count it
\* are part of the bound.
CountOK ==
    /\ ~ config.kafka => \A a \in Runs : run[a].stage # "streaming"
    /\ \A e \in Events :
          /\ ingested[e] > 0 => e \in events
          /\ ingested[e] + Cardinality(Pending(e)) <= MostCounts

\* Any part of the runs is finite, and no larger than the bound with Kafka.
LEMMA RunsAreFinite ==
    ASSUME NEW S \in SUBSET Runs
    PROVE  IsFiniteSet(S) /\ Cardinality(S) \in Nat /\ Cardinality(S) <= Cardinality(Runs)
                /\ Cardinality(Runs) \in Nat \ {0}
<1>1. IsFiniteSet(Runs) /\ Runs # {}
  BY AssessmentAssumption
<1>2. IsFiniteSet(S) /\ Cardinality(S) <= Cardinality(Runs)
  BY <1>1, FS_Subset
<1>3. Cardinality(S) \in Nat /\ Cardinality(Runs) \in Nat
  BY <1>1, <1>2, FS_CardinalityType
<1>4. Cardinality(Runs) # 0
  BY <1>1, FS_EmptySet
<1> QED
  BY <1>2, <1>3, <1>4

\* Fewer wait, nothing is counted.
LEMMA FewerPending ==
    ASSUME NEW e \in Events, TypeOK, CountOK, UNCHANGED <<config, ingested>>,
           events \subseteq events', Pending(e)' \subseteq Pending(e)
    PROVE  /\ ingested'[e] > 0 => e \in events'
           /\ ingested'[e] + Cardinality(Pending(e)') <= MostCounts'
<1>1. Pending(e) \in SUBSET Runs
  BY DEF Pending
<1>2. /\ IsFiniteSet(Pending(e)) /\ Cardinality(Pending(e)) \in Nat
      /\ Cardinality(Runs) \in Nat
  BY <1>1, RunsAreFinite
<1>3. Cardinality(Pending(e)') \in Nat /\ Cardinality(Pending(e)') <= Cardinality(Pending(e))
  BY <1>2, FS_Subset, FS_CardinalityType
<1>4. ingested[e] \in Nat /\ MostCounts' = MostCounts /\ MostCounts \in Nat
  BY <1>2 DEF TypeOK, MostCounts
<1>5. ingested[e] > 0 => e \in events
  BY DEF CountOK
<1>6. ingested[e] + Cardinality(Pending(e)) <= MostCounts
  BY DEF CountOK
<1> QED
  BY <1>2, <1>3, <1>4, <1>5, <1>6

\* A step of a run that counts nothing.
LEMMA MovesKeepCount ==
    ASSUME TypeOK, CountOK, NEW a \in Runs, Moves(a),
           UNCHANGED <<config, events, ingested>>
    PROVE  CountOK'
<1>1. ~ config.kafka => \A b \in Runs : run'[b].stage # "streaming"
  BY DEF CountOK, Moves
<1>2. \A e \in Events : Pending(e)' \subseteq Pending(e)
  BY DEF Pending, Moves
<1> QED
  BY <1>1, <1>2, FewerPending DEF CountOK

\* What is not in the table has not counted, so all runs may wait with it.
LEMMA StreamsKeepCount ==
    ASSUME TypeOK, CountOK, NEW a \in Runs, Streams(a), UNCHANGED config
    PROVE  CountOK'
<1>1. PICK r : /\ "stage" \in DOMAIN r /\ r.fresh \cap events = {}
               /\ config.kafka /\ WaitAt(a, r, "streaming")
               /\ UNCHANGED <<events, ingested, decision, trail>>
  BY DEF Streams
<1>2. /\ run'[a].fresh = r.fresh
      /\ \A b \in Runs \ {a} : run'[b] = run[b]
  BY <1>1 DEF WaitAt, TypeOK
<1>3. ASSUME NEW e \in Events
      PROVE  /\ ingested'[e] > 0 => e \in events'
             /\ ingested'[e] + Cardinality(Pending(e)') <= MostCounts'
  <2>1. CASE e \in r.fresh
    <3>1. ingested[e] = 0 /\ ingested'[e] = 0
      <4>1. ingested[e] > 0 => e \in events
        BY DEF CountOK
      <4>2. ingested[e] \in Nat
        BY DEF TypeOK
      <4> QED
        BY <1>1, <2>1, <4>1, <4>2
    <3>2. Pending(e)' \in SUBSET Runs
      BY DEF Pending
    <3>3. Cardinality(Pending(e)') \in Nat /\ Cardinality(Pending(e)') <= Cardinality(Runs)
      BY <3>2, RunsAreFinite
    <3>4. MostCounts' = Cardinality(Runs)
      BY <1>1 DEF MostCounts
    <3> QED
      BY <3>1, <3>3, <3>4
  <2>2. CASE e \notin r.fresh
    <3>1. Pending(e)' \subseteq Pending(e)
      BY <1>2, <2>2 DEF Pending
    <3> QED
      BY <1>1, <3>1, FewerPending
  <2> QED
    BY <2>1, <2>2
<1> QED
  BY <1>1, <1>3 DEF CountOK

\* What Ingest does to table and counts.
LEMMA IngestCounts ==
    ASSUME TypeOK, NEW a \in Runs, NEW r, Ingest(a, r), NEW e \in Events
    PROVE  /\ events' = events \cup r.fresh
           /\ ingested'[e] = IF e \in r.fresh THEN ingested[e] + 1 ELSE ingested[e]
  BY DEF Ingest, TypeOK

\* Without Kafka an event counts as it enters the table.
LEMMA BeginKeepsCount ==
    ASSUME TypeOK, CountOK, NEW a \in Runs, NEW r, "stage" \in DOMAIN r,
           r.fresh \cap events = {}, config.kafka => r.fresh = {},
           Ingest(a, r), UNCHANGED config
    PROVE  CountOK'
<1>1. Moves(a)
  BY IngestMoves DEF TrailFrame
<1>2. \A e \in Events : Pending(e)' \subseteq Pending(e)
  BY <1>1 DEF Pending, Moves
<1>3. ~ config.kafka => \A b \in Runs : run'[b].stage # "streaming"
  BY <1>1 DEF CountOK, Moves
<1>4. ASSUME NEW e \in Events
      PROVE  /\ ingested'[e] > 0 => e \in events'
             /\ ingested'[e] + Cardinality(Pending(e)') <= MostCounts'
  <2>1. ingested[e] \in Nat /\ (ingested[e] > 0 => e \in events)
    BY DEF TypeOK, CountOK
  <2>2. CASE e \in r.fresh
    <3>1. ingested[e] = 0 /\ ingested'[e] = 1 /\ e \in events'
      BY <2>1, <2>2, IngestCounts
    <3>2. ~ config.kafka /\ Pending(e)' = {}
      BY <1>3, <2>2 DEF Pending
    <3>3. Cardinality(Pending(e)') = 0 /\ MostCounts' = 1
      BY <3>2, FS_EmptySet DEF MostCounts
    <3> QED
      BY <3>1, <3>3
  <2>3. CASE e \notin r.fresh
    <3>1. ingested'[e] = ingested[e] /\ events \subseteq events'
      BY <2>3, IngestCounts
    <3>2. Cardinality(Pending(e)') \in Nat /\ Cardinality(Pending(e)') <= Cardinality(Pending(e))
      <4>1. Pending(e) \in SUBSET Runs
        BY DEF Pending
      <4>2. IsFiniteSet(Pending(e))
        BY <4>1, RunsAreFinite
      <4> QED
        BY <1>2, <4>2, FS_Subset, FS_CardinalityType
    <3>3. Cardinality(Pending(e)) \in Nat /\ MostCounts \in Nat /\ MostCounts' = MostCounts
      <4>1. Pending(e) \in SUBSET Runs
        BY DEF Pending
      <4> QED
        BY <4>1, RunsAreFinite DEF MostCounts
    <3>4. ingested[e] + Cardinality(Pending(e)) <= MostCounts
      BY DEF CountOK
    <3> QED
      BY <2>1, <3>1, <3>2, <3>3, <3>4
  <2> QED
    BY <2>2, <2>3
<1> QED
  BY <1>3, <1>4 DEF CountOK

\* A run that comes back from Kafka counts what it waited with, and waits no more.
LEMMA StreamedKeepsCount ==
    ASSUME TypeOK, CountOK, NEW a \in Runs, Streamed(a)
    PROVE  CountOK'
<1>1. "stage" \in DOMAIN run[a] /\ run[a].stage = "streaming" /\ UNCHANGED config
  BY DEF TypeOK, RunRecord, Streamed
<1>2. Ingest(a, run[a])
  BY DEF Streamed
<1>3. Moves(a)
  BY <1>1, <1>2, IngestMoves DEF TrailFrame
<1>4. config.kafka
  BY <1>1 DEF CountOK
<1>5. ASSUME NEW e \in Events
      PROVE  /\ ingested'[e] > 0 => e \in events'
             /\ ingested'[e] + Cardinality(Pending(e)') <= MostCounts'
  <2>1. /\ ingested[e] \in Nat /\ (ingested[e] > 0 => e \in events)
        /\ ingested[e] + Cardinality(Pending(e)) <= MostCounts
    BY DEF TypeOK, CountOK
  <2>2. /\ events' = events \cup run[a].fresh
        /\ ingested'[e] = IF e \in run[a].fresh THEN ingested[e] + 1 ELSE ingested[e]
    BY <1>2, IngestCounts
  <2>3. Pending(e)' \subseteq Pending(e) \ {a}
    BY <1>3 DEF Pending, Moves
  <2>4. IsFiniteSet(Pending(e)) /\ Cardinality(Pending(e)) \in Nat
    <3>1. Pending(e) \in SUBSET Runs
      BY DEF Pending
    <3> QED
      BY <3>1, RunsAreFinite
  <2>5. /\ IsFiniteSet(Pending(e) \ {a})
        /\ Cardinality(Pending(e) \ {a}) =
              IF a \in Pending(e) THEN Cardinality(Pending(e)) - 1 ELSE Cardinality(Pending(e))
    BY <2>4, FS_RemoveElement
  <2>6. /\ Cardinality(Pending(e)') \in Nat
        /\ Cardinality(Pending(e)') <= Cardinality(Pending(e) \ {a})
    BY <2>3, <2>5, FS_Subset, FS_CardinalityType
  <2>7. a \in Pending(e) <=> e \in run[a].fresh
    BY <1>1 DEF Pending
  <2>8. MostCounts' = MostCounts /\ MostCounts \in Nat
    <3>1. Cardinality(Runs) \in Nat
      BY RunsAreFinite
    <3> QED
      BY <1>1, <3>1 DEF MostCounts
  <2>9. CASE e \in run[a].fresh
    BY <2>1, <2>2, <2>4, <2>5, <2>6, <2>7, <2>8, <2>9
  <2>10. CASE e \notin run[a].fresh
    BY <2>1, <2>2, <2>4, <2>5, <2>6, <2>7, <2>8, <2>10
  <2> QED
    BY <2>9, <2>10
<1> QED
  BY <1>1, <1>4, <1>5 DEF CountOK

\* The runs stay, or all of them end.
LEMMA OthersKeepCount ==
    ASSUME TypeOK, CountOK, events \subseteq events', UNCHANGED <<config, ingested>>,
           \A b \in Runs : run'[b] = run[b] \/ run'[b].stage # "streaming"
    PROVE  CountOK'
<1>1. \A e \in Events : Pending(e)' \subseteq Pending(e)
  BY DEF Pending
<1>2. ~ config.kafka => \A b \in Runs : run'[b].stage # "streaming"
  BY DEF CountOK
<1> QED
  BY <1>1, <1>2, FewerPending DEF CountOK

\* An event counts as new once; with Kafka at most once per run.
THEOREM EventsCountOnce == Spec => []NewIsCountedOnce
<1>1. Init => CountOK
  <2> SUFFICES ASSUME Init PROVE CountOK
    OBVIOUS
  <2>1. \A a \in Runs : run[a].stage # "streaming"
    BY DEF Init, NoRun
  <2>2. ASSUME NEW e \in Events PROVE Cardinality(Pending(e)) = 0 /\ ingested[e] = 0
    <3>1. Pending(e) = {}
      BY <2>1 DEF Pending
    <3> QED
      BY <3>1, FS_EmptySet DEF Init
  <2>3. MostCounts \in Nat
    <3>1. Cardinality(Runs) \in Nat
      BY RunsAreFinite
    <3> QED
      BY <3>1 DEF MostCounts
  <2> QED
    BY <2>1, <2>2, <2>3 DEF CountOK
<1>2. AssessmentInv /\ TrailOK /\ CountOK /\ [Next]_vars => CountOK'
  <2> SUFFICES ASSUME AssessmentInv, TypeOK, TrailOK, CountOK, [Next]_vars PROVE CountOK'
    BY DEF AssessmentInv
  <2>1. CASE \E a \in Runs, batch \in SUBSET Events : BeginRun(a, batch)
    BY <2>1, BeginMoves, BeginKeepsCount, StreamsKeepCount
  <2>2. CASE \E a \in Runs : Streamed(a)
    BY <2>2, StreamedKeepsCount
  <2>3. CASE \E a \in Runs : Step(a) /\ ~ Streamed(a)
    <3>1. PICK a \in Runs : Step(a) /\ ~ Streamed(a)
      BY <2>3
    <3> QED
      BY <3>1, StepMoves, MovesKeepCount DEF TrailOK, TrailFrame
  <2>4. CASE \/ \E i \in Ids : approve(i) \/ reject(i)
             \/ \E batch \in SUBSET Events : simulate(batch)
             \/ UNCHANGED vars
    BY <2>4, OthersKeepCount DEF approve, reject, Judged, simulate, vars
  <2>5. CASE Crash
    BY <2>5, OthersKeepCount DEF Crash, NoRun
  <2> QED
    BY <2>1, <2>2, <2>3, <2>4, <2>5 DEF Next
<1>3. AssessmentInv /\ CountOK => NewIsCountedOnce
  <2> SUFFICES ASSUME TypeOK, CountOK, NEW e \in Events PROVE ingested[e] <= MostCounts
    BY DEF AssessmentInv, NewIsCountedOnce, MostCounts
  <2>1. Pending(e) \in SUBSET Runs
    BY DEF Pending
  <2>2. Cardinality(Pending(e)) \in Nat /\ Cardinality(Runs) \in Nat
    BY <2>1, RunsAreFinite
  <2>3. ingested[e] \in Nat /\ MostCounts \in Nat
    BY <2>2 DEF TypeOK, MostCounts
  <2>4. ingested[e] + Cardinality(Pending(e)) <= MostCounts
    BY DEF CountOK
  <2> QED
    BY <2>2, <2>3, <2>4
<1> QED
  BY <1>1, <1>2, <1>3, InvariantHolds, OrderHolds, PTL DEF Spec

-----------------------------------------------------------------------------
(* What a step does with the run it is a step of: go to another wait, fewer *)
(* of which are ahead, or store a decision over the whole batch.            *)

UnderWay == Stages \ {"idle", "streaming", "recording"}

Goes(a, r, n) ==
    \/ /\ UNCHANGED decision
       /\ \E q \in RunRecord :
             /\ q.fresh = r.fresh /\ q.batch = r.batch /\ q.stage \in UnderWay
             /\ Ahead(q) < n
             /\ run' = [run EXCEPT ![a] = q]
    \/ \E q, d :
             /\ q \in RunRecord /\ q.fresh = r.fresh /\ q.batch = r.batch
             /\ d.evidence = r.batch /\ d.verdict = "none"
             /\ d.policy_status \in {"approval_required", "blocked"}
             /\ Store(a, q, d)

\* Waiting for something nearer the end.
LEMMA WaitGoes ==
    ASSUME NEW a \in Runs, NEW r \in RunRecord, NEW stage \in UnderWay, NEW n,
           Ahead([r EXCEPT !.stage = stage]) < n,
           WaitAt(a, r, stage), UNCHANGED decision
    PROVE  Goes(a, r, n)
<1> DEFINE q == [r EXCEPT !.stage = stage]
<1>1. /\ q \in RunRecord /\ q.fresh = r.fresh /\ q.batch = r.batch /\ q.stage = stage
      /\ Ahead(q) < n /\ run' = [run EXCEPT ![a] = q]
  BY DEF RunRecord, UnderWay, WaitAt
<1> HIDE DEF q
<1> QED
  BY <1>1 DEF Goes

\* The gate lets nothing be executed before the operator has seen it.
LEMMA GateWaits == \A p : GateStatus(p) \in {"approval_required", "blocked"}
  BY DEF GateStatus, evaluate

\* The three ways of storing, each over the batch of the run.
LEMMA RowGoes ==
    ASSUME NEW a \in Runs, NEW r \in RunRecord, NEW n,
           \/ HoldOutput(a, r)
           \/ Gate(a, r)
           \/ \E s : s.batch = r.batch /\ Store(a, r, security_block_decision(s))
    PROVE  Goes(a, r, n)
<1>1. ASSUME NEW s, NEW draft, NEW status \in {"approval_required", "blocked"}, NEW hold,
             s.batch = r.batch, Store(a, r, Row(s, draft, status, hold))
      PROVE  Goes(a, r, n)
  <2> DEFINE d == Row(s, draft, status, hold)
  <2>1. /\ d.evidence = r.batch /\ d.verdict = "none" /\ d.policy_status = status
        /\ Store(a, r, d)
    BY <1>1 DEF Row
  <2> HIDE DEF d
  <2> QED
    BY <2>1 DEF Goes
<1>2. CASE HoldOutput(a, r)
  BY <1>1, <1>2 DEF HoldOutput
<1>3. CASE Gate(a, r)
  BY <1>1, <1>3, GateWaits DEF Gate
<1>4. CASE \E s : s.batch = r.batch /\ Store(a, r, security_block_decision(s))
  BY <1>1, <1>4 DEF security_block_decision
<1> QED
  BY <1>2, <1>3, <1>4

\* From the screening on, ten waits are left.
LEMMA ScreenGoes ==
    ASSUME NEW a \in Runs, NEW r \in RunRecord, r.passed = 0, NEW n \in Nat, n > 10, Screen(a, r)
    PROVE  Goes(a, r, n)
<1>1. {"scanning", "asking"} \subseteq UnderWay
  BY DEF UnderWay, Stages
<1>2. Ahead([r EXCEPT !.stage = "scanning"]) < n /\ Ahead([r EXCEPT !.stage = "asking"]) < n
  BY DEF Ahead, RunRecord, Inputs
<1> QED
  BY <1>1, <1>2, WaitGoes, RowGoes DEF Screen

\* From ingestion on, eleven.
LEMMA IngestGoes ==
    ASSUME NEW a \in Runs, NEW r \in RunRecord, r.passed = 0, NEW n \in Nat, n > 11, Ingest(a, r)
    PROVE  Goes(a, r, n)
<1>1. "mirroring" \in UnderWay
  BY DEF UnderWay, Stages
<1>2. Ahead([r EXCEPT !.stage = "mirroring"]) < n
  BY DEF Ahead, RunRecord
<1> QED
  BY <1>1, <1>2, WaitGoes, ScreenGoes DEF Ingest

\* From a model's answer on, the three output scans.
LEMMA ReviewGoes ==
    ASSUME NEW a \in Runs, NEW r \in RunRecord, NEW n \in Nat, n > 4,
           config.hiddenlayer = "on" => r.passed = Inputs, Review(a, r)
    PROVE  Goes(a, r, n)
<1>1. "scanning" \in UnderWay
  BY DEF UnderWay, Stages
<1>2. config.hiddenlayer = "on" => Ahead([r EXCEPT !.stage = "scanning"]) < n
  BY DEF Ahead, RunRecord, Inputs
<1> QED
  BY <1>1, <1>2, WaitGoes, RowGoes DEF Review

\* An end that leaves no debt: nothing was taken for new yet, or the decision is
\* stored.  Any other end is that of FailRun.
StepGoes(a) ==
    \/ Goes(a, run[a], Ahead(run[a])) /\ UNCHANGED lost
    \/ FailRun(a) /\ UNCHANGED ingested
    \/ /\ run[a].stage \in {"streaming", "recording"}
       /\ EndRun(a) /\ UNCHANGED <<decision, lost, ingested>>

\* Goes only looks at the batch and at the new events of the run.
LEMMA SameGoes ==
    ASSUME NEW a, NEW r, NEW s, r.batch = s.batch, r.fresh = s.fresh, NEW n, Goes(a, s, n)
    PROVE  Goes(a, r, n)
  BY DEF Goes

\* ScanInput: one scan fewer, the first question, or the block.
LEMMA ScanInputGoes ==
    ASSUME AssessmentInv, NEW a \in Runs, ScanInput(a)
    PROVE  StepGoes(a)
<1> DEFINE r == [run[a] EXCEPT !.passed = @ + 1]
           n == Ahead(run[a])
<1>1. /\ run[a] \in RunRecord
      /\ run[a].stage = "scanning" /\ run[a].passed < Inputs
  BY RunFacts DEF ScanInput
<1>2. /\ r \in RunRecord /\ r.batch = run[a].batch /\ r.fresh = run[a].fresh
      /\ r.passed = run[a].passed + 1 /\ r.attempt = run[a].attempt
  BY <1>1 DEF RunRecord, Inputs, Boundaries
<1>3. n = 10 - run[a].passed
  BY <1>1 DEF Ahead
<1>4. [r EXCEPT !.flagged = TRUE].batch = r.batch
  BY <1>2 DEF RunRecord
<1> HIDE DEF r, n
<1>5. Goes(a, r, n) \/ Goes(a, run[a], n)
  <2>1. {"scanning", "asking"} \subseteq UnderWay
    BY DEF UnderWay, Stages
  <2>2. CASE WaitAt(a, r, "asking") /\ r.passed = Inputs /\ UNCHANGED <<decision, trail>>
    <3>1. Ahead([r EXCEPT !.stage = "asking"]) < n
      BY <1>1, <1>2, <1>3, <2>2 DEF Ahead, RunRecord, Inputs
    <3> QED
      BY <1>2, <2>1, <2>2, <3>1, WaitGoes
  <2>3. CASE WaitAt(a, r, "scanning") /\ r.passed # Inputs /\ UNCHANGED <<decision, trail>>
    <3>1. Ahead([r EXCEPT !.stage = "scanning"]) < n
      BY <1>1, <1>2, <1>3, <2>3 DEF Ahead, RunRecord, Inputs, Boundaries
    <3> QED
      BY <1>2, <2>1, <2>3, <3>1, WaitGoes
  <2>4. CASE Store(a, run[a], security_block_decision(run[a]))
    BY <1>1, <2>4, RowGoes
  <2>5. CASE Store(a, r, security_block_decision([r EXCEPT !.flagged = TRUE]))
    <3> DEFINE s == [r EXCEPT !.flagged = TRUE]
    <3>1. s.batch = r.batch /\ Store(a, r, security_block_decision(s))
      BY <1>4, <2>5
    <3> HIDE DEF s
    <3> QED
      BY <1>2, <3>1, RowGoes
  <2> QED
    BY <2>2, <2>3, <2>4, <2>5 DEF ScanInput, r
<1> QED
  BY <1>2, <1>5, SameGoes DEF StepGoes, ScanInput, n

\* An answer: the output scans are nearer the end than the question.
LEMMA AnswerGoes ==
    ASSUME AssessmentInv, NEW a \in Runs, run[a].stage \in {"asking", "falling_back"},
           NEW p \in Plans, NEW source \in Sources,
           Review(a, [run[a] EXCEPT !.draft = [plan |-> p, source |-> source]])
    PROVE  Goes(a, run[a], Ahead(run[a]))
<1> DEFINE q == [run[a] EXCEPT !.draft = [plan |-> p, source |-> source]]
<1>1. run[a] \in RunRecord /\ RunOK(run[a], events, config)
  BY RunFacts
<1>2. [plan |-> p, source |-> source] \in Draft
  BY AssessmentAssumption DEF Draft
<1>3. /\ q \in RunRecord /\ q.batch = run[a].batch /\ q.fresh = run[a].fresh
      /\ q.passed = run[a].passed
  BY <1>1, <1>2 DEF RunRecord
<1>4. Ahead(run[a]) \in Nat /\ Ahead(run[a]) > 4
  BY <1>1 DEF Ahead, RunRecord
<1>5. config.hiddenlayer = "on" => q.passed = Inputs
  BY <1>1, <1>3 DEF RunOK
<1>6. Review(a, q)
  OBVIOUS
<1> HIDE DEF q
<1> QED
  BY <1>3, <1>4, <1>5, <1>6, ReviewGoes, SameGoes

\* AskNemotron: the answer, the second attempt, the fallback, or the end.
LEMMA NemotronGoes ==
    ASSUME AssessmentInv, NEW a \in Runs, AskNemotron(a)
    PROVE  StepGoes(a)
<1>1. run[a] \in RunRecord /\ run[a].stage = "asking"
  BY RunFacts DEF AskNemotron
<1>2. {"asking", "falling_back"} \subseteq UnderWay /\ "nemotron" \in Sources
  BY DEF UnderWay, Stages, Sources
<1>3. CASE /\ \E p \in Plans : Review(a, [run[a] EXCEPT !.draft = [plan |-> p, source |-> "nemotron"]])
           /\ UNCHANGED lost
  BY <1>1, <1>2, <1>3, AnswerGoes DEF StepGoes
<1>4. CASE WaitAt(a, run[a], "falling_back") /\ UNCHANGED <<decision, trail, lost>>
  <2>1. Ahead([run[a] EXCEPT !.stage = "falling_back"]) < Ahead(run[a])
    BY <1>1 DEF Ahead, RunRecord
  <2> QED
    BY <1>1, <1>2, <1>4, <2>1, WaitGoes DEF StepGoes
<1>5. CASE /\ run[a].attempt = 1
           /\ WaitAt(a, [run[a] EXCEPT !.attempt = 2], "asking")
           /\ UNCHANGED <<decision, trail, lost>>
  <2> DEFINE q == [run[a] EXCEPT !.attempt = 2]
  <2>1. /\ q \in RunRecord /\ q.batch = run[a].batch /\ q.fresh = run[a].fresh
        /\ q.attempt = 2 /\ WaitAt(a, q, "asking")
    BY <1>1, <1>5 DEF RunRecord
  <2> HIDE DEF q
  <2>2. Ahead([q EXCEPT !.stage = "asking"]) < Ahead(run[a])
    BY <1>1, <1>5, <2>1 DEF Ahead, RunRecord
  <2> QED
    BY <1>2, <1>5, <2>1, <2>2, WaitGoes, SameGoes DEF StepGoes
<1>6. CASE FailRun(a) /\ UNCHANGED ingested
  BY <1>6 DEF StepGoes
<1> QED
  BY <1>3, <1>4, <1>5, <1>6 DEF AskNemotron, RetryOrGiveUp

\* ScanOutput: one scan fewer, the gate, or the hold.
LEMMA ScanOutputGoes ==
    ASSUME AssessmentInv, NEW a \in Runs, ScanOutput(a)
    PROVE  StepGoes(a)
<1>1. /\ run[a] \in RunRecord /\ run[a].stage = "scanning"
      /\ run[a].passed >= Inputs /\ run[a].passed < Boundaries
  BY RunFacts DEF ScanOutput, RunOK
<1>2. Ahead(run[a]) = 7 - run[a].passed
  BY <1>1 DEF Ahead, RunRecord, Inputs, Boundaries
<1>3. CASE HoldOutput(a, run[a])
  BY <1>1, <1>3, RowGoes DEF StepGoes, ScanOutput
<1>4. ASSUME NEW fired \in BOOLEAN,
             Judge(a, [run[a] EXCEPT !.passed = @ + 1, !.flagged = @ \/ fired])
      PROVE  StepGoes(a)
  <2> DEFINE q == [run[a] EXCEPT !.passed = @ + 1, !.flagged = @ \/ fired]
  <2>1. /\ q \in RunRecord /\ q.batch = run[a].batch /\ q.fresh = run[a].fresh
        /\ q.passed = run[a].passed + 1
    BY <1>1, ScanAnswered
  <2>2. Judge(a, q)
    BY <1>4
  <2> HIDE DEF q
  <2>3. Goes(a, q, Ahead(run[a]))
    <3>1. CASE q.passed < Boundaries /\ WaitAt(a, q, "scanning") /\ UNCHANGED <<decision, trail>>
      <4>1. Ahead([q EXCEPT !.stage = "scanning"]) < Ahead(run[a])
        BY <1>1, <1>2, <2>1 DEF Ahead, RunRecord, Inputs, Boundaries
      <4>2. "scanning" \in UnderWay
        BY DEF UnderWay, Stages
      <4> QED
        BY <2>1, <3>1, <4>1, <4>2, WaitGoes
    <3>2. CASE HoldOutput(a, q) \/ Gate(a, q)
      BY <2>1, <3>2, RowGoes
    <3> QED
      BY <2>2, <3>1, <3>2 DEF Judge
  <2> QED
    BY <2>1, <2>3, SameGoes DEF StepGoes, ScanOutput
<1> QED
  BY <1>3, <1>4 DEF ScanOutput

\* Every step of a run is of one of the three kinds.
LEMMA StepIsProgress ==
    ASSUME AssessmentInv, NEW a \in Runs, Step(a)
    PROVE  StepGoes(a)
<1>1. run[a] \in RunRecord /\ RunOK(run[a], events, config)
  BY RunFacts
<1>2. CASE Streamed(a)
  <2>1. run[a].passed = 0 /\ Ahead(run[a]) = 12
    BY <1>1, <1>2 DEF Streamed, RunOK, Ahead
  <2> QED
    BY <1>1, <1>2, <2>1, IngestGoes DEF Streamed, StepGoes
<1>3. CASE EventsMirrored(a)
  <2>1. run[a].passed = 0 /\ Ahead(run[a]) = 11
    BY <1>1, <1>3 DEF EventsMirrored, RunOK, Ahead
  <2> QED
    BY <1>1, <1>3, <2>1, ScreenGoes DEF EventsMirrored, StepGoes
<1>4. CASE AskVllm(a)
  <2>1. run[a].stage = "falling_back" /\ "vllm" \in Sources
    BY <1>4 DEF AskVllm, Sources
  <2> QED
    BY <1>4, <2>1, AnswerGoes DEF AskVllm, StepGoes
<1>5. CASE StreamRaises(a) \/ DecisionMirrored(a)
  BY <1>5 DEF StreamRaises, DecisionMirrored, StepGoes
<1> QED
  BY <1>2, <1>3, <1>4, <1>5, ScanInputGoes, NemotronGoes, ScanOutputGoes DEF Step

\* Storing ends the run, or leaves it with the record to write.
LEMMA StoreEnds ==
    ASSUME TypeOK, NEW a \in Runs, NEW q \in RunRecord, NEW d, Store(a, q, d)
    PROVE  /\ NewId \in Ids /\ ~ Known(NewId)
           /\ decision' = [decision EXCEPT ![NewId] = d]
           /\ run'[a] = NoRun \/ run'[a].stage = "recording"
           /\ \A b \in Runs \ {a} : run'[b] = run[b]
<1>1. NewId \in Ids /\ ~ Known(NewId)
  BY DEF Store, NewId
<1>2. ASSUME WaitAt(a, [q EXCEPT !.incident = NewId], "recording")
      PROVE  run'[a].stage = "recording" /\ \A b \in Runs \ {a} : run'[b] = run[b]
  BY <1>2 DEF WaitAt, TypeOK, RunRecord
<1>3. ASSUME EndRun(a)
      PROVE  run'[a] = NoRun /\ \A b \in Runs \ {a} : run'[b] = run[b]
  BY <1>3 DEF EndRun, TypeOK
<1> QED
  BY <1>1, <1>2, <1>3 DEF Store

\* A step of a run leaves the other runs alone, and lowers what is ahead of it.
LEMMA StepFalls ==
    ASSUME AssessmentInv, NEW a \in Runs, Step(a)
    PROVE  /\ run[a].stage # "idle"
           /\ Ahead(run'[a]) < Ahead(run[a]) \/ run'[a] = run[a]
           /\ \A b \in Runs \ {a} : run'[b] = run[b]
<1>1. run[a] \in RunRecord /\ RunOK(run[a], events, config) /\ TypeOK
  BY RunFacts DEF AssessmentInv
<1>2. run[a].stage # "idle"
  BY DEF Step, Streamed, StreamRaises, EventsMirrored, ScanInput, AskNemotron, AskVllm,
         ScanOutput, DecisionMirrored
<1>3. Ahead(run[a]) \in Nat /\ Ahead(run[a]) > 0
  BY <1>1, <1>2 DEF Ahead, RunRecord, RunOK, Stages, Inputs, Boundaries
<1>4. Ahead(NoRun) = 0
  BY DEF Ahead, NoRun
<1>5. StepGoes(a)
  BY StepIsProgress
<1>6. CASE EndRun(a) \/ FailRun(a)
  BY <1>1, <1>2, <1>3, <1>4, <1>6 DEF EndRun, FailRun, TypeOK
<1>7. CASE \E q \in RunRecord : Ahead(q) < Ahead(run[a]) /\ run' = [run EXCEPT ![a] = q]
  BY <1>1, <1>2, <1>7 DEF TypeOK
<1>8. CASE \E q, d : q \in RunRecord /\ Store(a, q, d)
  <2>1. PICK q, d : q \in RunRecord /\ Store(a, q, d)
    BY <1>8
  <2>2. \A b \in Runs \ {a} : run'[b] = run[b]
    BY <1>1, <2>1, StoreEnds
  <2>3. run[a].stage # "recording" => Ahead(run[a]) > 1
    BY <1>1, <1>2 DEF Ahead, RunRecord, RunOK, Stages, Inputs, Boundaries
  <2>4. run[a].stage = "recording" => EndRun(a)
    BY DEF Step, Streamed, StreamRaises, EventsMirrored, ScanInput, AskNemotron, AskVllm,
           ScanOutput, DecisionMirrored
  <2>5. run'[a].stage = "recording" => Ahead(run'[a]) = 1
    BY DEF Ahead
  <2>6. run'[a] = NoRun \/ run'[a].stage = "recording"
    BY <1>1, <2>1, StoreEnds
  <2>7. CASE run[a].stage = "recording"
    BY <1>6, <2>4, <2>7
  <2>8. CASE run[a].stage # "recording"
    BY <1>2, <1>3, <1>4, <2>2, <2>3, <2>5, <2>6, <2>8
  <2> QED
    BY <2>7, <2>8
<1> QED
  BY <1>5, <1>6, <1>7, <1>8 DEF StepGoes, Goes

\* BeginRun touches no other run.
LEMMA BeginTouches ==
    ASSUME TypeOK, NEW a \in Runs, NEW batch \in SUBSET Events, BeginRun(a, batch),
           NEW b \in Runs \ {a}
    PROVE  run'[b] = run[b]
<1>1. CASE Streams(a)
  BY <1>1 DEF Streams, WaitAt, TypeOK
<1>2. CASE \E r : "stage" \in DOMAIN r /\ Ingest(a, r)
  BY <1>2, IngestMoves DEF TrailFrame, Moves
<1> QED
  BY <1>1, <1>2, BeginMoves

\* A run under way comes nearer to its end with every step it makes: no order of
\* answers, errors and retries makes it wait more than twelve times.
THEOREM RunsTerminate == Spec => RunsMoveForward
<1>1. ASSUME AssessmentInv, Next,
             NEW a \in Runs, run[a].stage # "idle", run'[a] # run[a]
      PROVE  Ahead(run'[a]) < Ahead(run[a])
  <2>1. run[a] \in RunRecord /\ RunOK(run[a], events, config)
    BY <1>1, RunFacts
  <2>2. ASSUME NEW b \in Runs, NEW batch \in SUBSET Events, BeginRun(b, batch)
        PROVE  FALSE
    <3>1. run[b].stage = "idle" /\ b # a
      BY <1>1, <2>2 DEF BeginRun
    <3>2. TypeOK
      BY <1>1 DEF AssessmentInv
    <3>3. run'[a] = run[a]
      BY <1>1, <2>2, <3>1, <3>2, BeginTouches
    <3> QED
      BY <1>1, <3>3
  <2>3. CASE \E b \in Runs : Step(b)
    BY <1>1, <2>3, StepFalls
  <2>4. CASE \/ \E i \in Ids : approve(i) \/ reject(i)
             \/ \E batch \in SUBSET Events : simulate(batch)
    BY <1>1, <2>4 DEF approve, reject, Judged, simulate
  <2>5. CASE Crash
    <3>1. run'[a] = NoRun /\ Ahead(NoRun) = 0
      BY <2>5 DEF Crash, Ahead, NoRun
    <3>2. Ahead(run[a]) \in Nat /\ Ahead(run[a]) > 0
      BY <1>1, <2>1 DEF Ahead, RunRecord, RunOK, Stages, Inputs, Boundaries
    <3> QED
      BY <3>1, <3>2
  <2> QED
    BY <1>1, <2>2, <2>3, <2>4, <2>5 DEF Next
<1>2. AssessmentInv /\ [Next]_vars =>
        [\A a \in Runs : (run[a].stage # "idle" /\ run'[a] # run[a]) =>
            Ahead(run'[a]) < Ahead(run[a])]_vars
  BY <1>1
<1> QED
  BY <1>2, InvariantHolds, PTL DEF Spec, RunsMoveForward

-----------------------------------------------------------------------------
(* Nothing is forgotten.  Where a run's new events come from, and that an  *)
(* empty row of the decisions table is no evidence, make it inductive.     *)

Accounted(e) == Decided(e) \/ e \in lost \/ \E a \in Runs : Carries(a, e)

Owed ==
    /\ \A a \in Runs : run[a].fresh \subseteq run[a].batch
    /\ \A i \in Ids : ~ Known(i) => decision[i].evidence = {}
    /\ \A e \in Events : ingested[e] > 0 => Accounted(e)

\* Going on, or storing a decision over the batch, leaves nothing behind.
LEMMA GoesOwed ==
    ASSUME TypeOK, Owed, NEW a \in Runs, NEW r \in RunRecord, NEW n, Goes(a, r, n),
           r.fresh \subseteq r.batch, lost \subseteq lost',
           \A e \in Events : Carries(a, e) => e \in r.fresh,
           \A e \in Events : ingested'[e] > 0 => ingested[e] > 0 \/ e \in r.fresh
    PROVE  Owed'
<1>1. CASE /\ UNCHANGED decision
           /\ \E q \in RunRecord :
                 /\ q.fresh = r.fresh /\ q.batch = r.batch /\ q.stage \in UnderWay
                 /\ run' = [run EXCEPT ![a] = q]
  <2>1. PICK q \in RunRecord :
             /\ q.fresh = r.fresh /\ q.batch = r.batch /\ q.stage \in UnderWay
             /\ run' = [run EXCEPT ![a] = q]
    BY <1>1
  <2>2. run'[a] = q /\ \A b \in Runs \ {a} : run'[b] = run[b]
    BY <2>1 DEF TypeOK
  <2>3. \A e \in r.fresh : Carries(a, e)'
    BY <2>1, <2>2 DEF Carries, UnderWay
  <2>4. \A e \in Events, b \in Runs \ {a} : Carries(b, e) => Carries(b, e)'
    BY <2>2 DEF Carries
  <2>5. \A e \in Events : Decided(e) => Decided(e)'
    BY <1>1 DEF Decided
  <2>6. \A e \in Events : Accounted(e) \/ e \in r.fresh => Accounted(e)'
    BY <2>3, <2>4, <2>5 DEF Accounted
  <2>7. \A i \in Ids : ~ Known(i)' => decision'[i].evidence = {}
    BY <1>1 DEF Owed, Known
  <2>8. \A b \in Runs : run'[b].fresh \subseteq run'[b].batch
    BY <2>1, <2>2 DEF Owed
  <2> QED
    BY <2>6, <2>7, <2>8 DEF Owed
<1>2. CASE \E q, d :
             /\ q \in RunRecord /\ q.fresh = r.fresh /\ q.batch = r.batch
             /\ d.evidence = r.batch /\ d.policy_status \in {"approval_required", "blocked"}
             /\ Store(a, q, d)
  <2>1. PICK q, d :
             /\ q \in RunRecord /\ q.fresh = r.fresh /\ q.batch = r.batch
             /\ d.evidence = r.batch /\ d.policy_status \in {"approval_required", "blocked"}
             /\ Store(a, q, d)
    BY <1>2
  <2>2. /\ NewId \in Ids /\ ~ Known(NewId)
        /\ decision' = [decision EXCEPT ![NewId] = d]
        /\ \A b \in Runs \ {a} : run'[b] = run[b]
    BY <2>1, StoreEnds
  <2>3. decision'[NewId] = d /\ \A i \in Ids \ {NewId} : decision'[i] = decision[i]
    BY <2>2 DEF TypeOK
  <2>4. \A e \in r.fresh : Decided(e)'
    BY <2>1, <2>2, <2>3 DEF Decided
  <2>5. \A e \in Events, b \in Runs \ {a} : Carries(b, e) => Carries(b, e)'
    BY <2>2 DEF Carries
  <2>6. \A e \in Events : Decided(e) => Decided(e)'
    BY <2>2, <2>3 DEF Decided, Owed
  <2>7. \A e \in Events : Accounted(e) \/ e \in r.fresh => Accounted(e)'
    BY <2>4, <2>5, <2>6 DEF Accounted
  <2>8. \A i \in Ids : ~ Known(i)' => decision'[i].evidence = {}
    BY <2>1, <2>2, <2>3 DEF Owed, Known
  <2>9. \A b \in Runs : run'[b].fresh \subseteq run'[b].batch
    <3>1. NoRun.fresh \subseteq NoRun.batch
      BY DEF NoRun
    <3>2. WaitAt(a, [q EXCEPT !.incident = NewId], "recording") =>
            run'[a].fresh = q.fresh /\ run'[a].batch = q.batch
      BY DEF WaitAt, TypeOK, RunRecord
    <3>3. EndRun(a) => run'[a] = NoRun
      BY DEF EndRun, TypeOK
    <3>4. run'[a].fresh \subseteq run'[a].batch
      BY <2>1, <3>1, <3>2, <3>3 DEF Store
    <3> QED
      BY <2>2, <3>4 DEF Owed
  <2> QED
    BY <2>7, <2>8, <2>9 DEF Owed
<1> QED
  BY <1>1, <1>2 DEF Goes

\* A run ends with nothing in its hands, or says what it gives up.
LEMMA EndOwed ==
    ASSUME TypeOK, Owed, NEW a \in Runs, EndRun(a), UNCHANGED <<decision, ingested>>,
           lost \subseteq lost', \A e \in Events : Carries(a, e) => e \in lost'
    PROVE  Owed'
<1>1. run'[a] = NoRun /\ \A b \in Runs \ {a} : run'[b] = run[b]
  BY DEF EndRun, TypeOK
<1>2. \A e \in Events : Decided(e) => Decided(e)'
  BY DEF Decided
<1>3. \A e \in Events, b \in Runs \ {a} : Carries(b, e) => Carries(b, e)'
  BY <1>1 DEF Carries
<1>4. \A e \in Events : Accounted(e) => Accounted(e)'
  BY <1>2, <1>3 DEF Accounted
<1>5. \A b \in Runs : run'[b].fresh \subseteq run'[b].batch
  BY <1>1 DEF Owed, NoRun
<1> QED
  BY <1>4, <1>5 DEF Owed, Known

\* The runs stay as they are, and so does what the decisions rest on.
LEMMA StillOwed ==
    ASSUME TypeOK, Owed, UNCHANGED <<run, ingested, lost>>,
           \A i \in Ids : decision'[i].evidence = decision[i].evidence /\ (Known(i) => Known(i)')
    PROVE  Owed'
<1>1. \A e \in Events : Accounted(e) => Accounted(e)'
  BY DEF Accounted, Decided, Carries
<1> QED
  BY <1>1 DEF Owed

\* An event taken for new is always decided, given up, or in a run's hands.
THEOREM NoneForgotten == Spec => []NothingForgotten
<1>1. Init => Owed
  BY DEF Init, Owed, NoRun, NoDecision, Known
<1>2. AssessmentInv /\ Owed /\ [Next]_vars => Owed'
  <2> SUFFICES ASSUME AssessmentInv, TypeOK, Owed, [Next]_vars PROVE Owed'
    BY DEF AssessmentInv
  <2>1. ASSUME NEW a \in Runs, NEW batch \in SUBSET Events, BeginRun(a, batch)
        PROVE  Owed'
    <3> DEFINE r == [NoRun EXCEPT !.batch = batch, !.fresh = filter_new_events(batch)]
    <3>1. /\ r \in RunRecord /\ r.passed = 0
          /\ r.batch = batch /\ r.fresh \subseteq r.batch
      BY InitialRecords DEF RunRecord, NoRun, filter_new_events
    <3>2. /\ run[a].stage = "idle" /\ UNCHANGED lost
          /\ \/ WaitAt(a, r, "streaming") /\ UNCHANGED <<events, ingested, decision, trail>>
             \/ Ingest(a, r)
      BY <2>1 DEF BeginRun
    <3>3. \A e \in Events : ~ Carries(a, e)
      BY <3>2 DEF Carries
    <3> HIDE DEF r
    <3>4. CASE Ingest(a, r)
      <4>1. \A e \in Events : ingested'[e] > 0 => ingested[e] > 0 \/ e \in r.fresh
        BY <3>4 DEF Ingest
      <4>2. Goes(a, r, 12)
        BY <3>1, <3>4, IngestGoes
      <4> QED
        BY <3>1, <3>2, <3>3, <4>1, <4>2, GoesOwed
    <3>5. CASE WaitAt(a, r, "streaming") /\ UNCHANGED <<events, ingested, decision, trail>>
      <4>1. /\ run'[a].fresh = r.fresh /\ run'[a].batch = r.batch
            /\ \A b \in Runs \ {a} : run'[b] = run[b]
        BY <3>1, <3>5 DEF WaitAt, TypeOK, RunRecord
      <4>2. \A e \in Events, b \in Runs : Carries(b, e) => Carries(b, e)'
        BY <3>3, <4>1 DEF Carries
      <4>3. \A e \in Events : Accounted(e) => Accounted(e)'
        BY <3>2, <3>5, <4>2 DEF Accounted, Decided
      <4> QED
        BY <3>1, <3>5, <4>1, <4>3 DEF Owed, Known
    <3> QED
      BY <3>2, <3>4, <3>5
  <2>2. ASSUME NEW a \in Runs, Step(a) PROVE Owed'
    <3>1. run[a] \in RunRecord /\ run[a].fresh \subseteq run[a].batch
      BY DEF TypeOK, Owed
    <3>2. \A e \in Events : Carries(a, e) => e \in run[a].fresh
      BY DEF Carries
    <3>3. \A e \in Events : ingested'[e] > 0 => ingested[e] > 0 \/ e \in run[a].fresh
      BY <2>2 DEF Step, Streamed, Ingest, StreamRaises, EventsMirrored, ScanInput, AskNemotron,
                  AskVllm, ScanOutput, DecisionMirrored
    <3>4. CASE Goes(a, run[a], Ahead(run[a])) /\ UNCHANGED lost
      BY <3>1, <3>2, <3>3, <3>4, GoesOwed
    <3>5. CASE FailRun(a) /\ UNCHANGED ingested
      BY <3>2, <3>5, EndOwed DEF FailRun
    <3>6. CASE /\ run[a].stage \in {"streaming", "recording"}
               /\ EndRun(a) /\ UNCHANGED <<decision, lost, ingested>>
      <4>1. \A e \in Events : ~ Carries(a, e)
        BY <3>6 DEF Carries
      <4> QED
        BY <3>6, <4>1, EndOwed
    <3> QED
      BY <2>2, <3>4, <3>5, <3>6, StepIsProgress DEF StepGoes
  <2>3. CASE \E i \in Ids : approve(i) \/ reject(i)
    <3>1. "blocked" # "none" /\ \A p : evaluate(p, TRUE) # "none"
      BY GateAnswers
    <3>2. ASSUME NEW i \in Ids, NEW status, status # "none", NEW verdict,
                 Judged(i, status, verdict)
          PROVE  Owed'
      <4>1. decision' = [decision EXCEPT ![i].policy_status = status, ![i].verdict = verdict]
        BY <3>2 DEF Judged
      <4>2. \A j \in Ids : /\ decision'[j].evidence = decision[j].evidence
                           /\ Known(j) => Known(j)'
        BY <3>2, <4>1 DEF Known, TypeOK, DecisionRecord
      <4> QED
        BY <3>2, <4>2, StillOwed DEF Judged
    <3> QED
      BY <2>3, <3>1, <3>2 DEF approve, reject
  <2>4. CASE \E batch \in SUBSET Events : simulate(batch)
    BY <2>4, StillOwed DEF simulate, Known
  <2>5. CASE Crash
    <3>1. \A b \in Runs : run'[b] = NoRun
      BY <2>5 DEF Crash
    <3>2. lost \subseteq lost' /\ UNCHANGED <<decision, ingested>>
      BY <2>5 DEF Crash
    <3>3. \A e \in Events, b \in Runs : Carries(b, e) => e \in lost'
      BY <2>5 DEF Crash, Carries
    <3>4. \A e \in Events : Accounted(e) => Accounted(e)'
      BY <3>2, <3>3 DEF Accounted, Decided
    <3> QED
      BY <3>1, <3>2, <3>4 DEF Owed, Known, NoRun
  <2>6. CASE UNCHANGED vars
    BY <2>6, StillOwed DEF vars, Known
  <2> QED
    BY <2>1, <2>2, <2>3, <2>4, <2>5, <2>6 DEF Next
<1>3. Owed => NothingForgotten
  BY DEF Owed, NothingForgotten, Accounted
<1> QED
  BY <1>1, <1>2, <1>3, InvariantHolds, PTL DEF Spec

-----------------------------------------------------------------------------
(* The decisions table implements DecisionLife.                            *)

StatusOf(i) == IF Known(i) THEN decision[i].policy_status ELSE "absent"
StatusBar == [i \in Ids |-> StatusOf(i)]
OpenBar   == {i \in Ids : Known(i) /\ Executable(decision[i].draft.plan)}

\* One row changes its status.
LEMMA OneStatus ==
    ASSUME NEW i \in Ids, NEW s, StatusOf(i)' = s,
           \A j \in Ids \ {i} : StatusOf(j)' = StatusOf(j)
    PROVE  StatusBar' = [StatusBar EXCEPT ![i] = s]
  BY DEF StatusBar

\* Storing is one Store step.
LEMMA StoreIsLife ==
    ASSUME NEW i \in Ids, ~ Known(i),
           decision'[i].policy_status \in {"approval_required", "blocked"},
           \A j \in Ids \ {i} : decision'[j] = decision[j]
    PROVE  Life!Store(i)
<1> DEFINE s == decision'[i].policy_status
<1>1. Known(i)' /\ \A j \in Ids \ {i} : Known(j)' <=> Known(j)
  BY DEF Known
<1>2. StatusBar' = [StatusBar EXCEPT ![i] = s]
  <2>1. StatusOf(i)' = s
    BY <1>1 DEF StatusOf
  <2>2. \A j \in Ids \ {i} : StatusOf(j)' = StatusOf(j)
    BY <1>1 DEF StatusOf
  <2> QED
    BY <2>1, <2>2 DEF StatusBar
<1>3. OpenBar' \in {OpenBar, OpenBar \cup {i}}
  BY <1>1 DEF OpenBar
<1>4. StatusBar[i] = "absent"
  BY DEF StatusBar, StatusOf
<1> QED
  BY <1>2, <1>3, <1>4 DEF Life!Store, Life!Stored, Life!Become, StatusBar, StatusOf, OpenBar

\* The gate after a verdict: what may be executed is allowed.
LEMMA ApprovalOpens ==
    \A p : evaluate(p, TRUE) = IF Executable(p) THEN "allowed" ELSE "blocked"
  BY DEF evaluate, Executable

\* A verdict is one Approve or Reject step.
LEMMA VerdictIsLife ==
    ASSUME TypeOK, NEW i \in Ids, approve(i) \/ reject(i)
    PROVE  Life!Approve(i) \/ Life!Reject(i)
<1>1. ASSUME NEW status \in {"allowed", "blocked"}, NEW verdict, Judged(i, status, verdict)
      PROVE  /\ StatusBar[i] # "absent"
             /\ StatusBar' = [StatusBar EXCEPT ![i] = status]
             /\ OpenBar' = OpenBar
  <2>1. /\ Known(i)
        /\ decision' = [decision EXCEPT ![i].policy_status = status, ![i].verdict = verdict]
    BY <1>1 DEF Judged
  <2>2. decision'[i].policy_status = status /\ decision'[i].draft = decision[i].draft
    BY <2>1 DEF TypeOK, DecisionRecord
  <2>3. \A j \in Ids \ {i} : decision'[j] = decision[j]
    BY <2>1 DEF TypeOK
  <2>4. \A j \in Ids : Known(j)' <=> Known(j)
    BY <2>1, <2>2, <2>3 DEF Known
  <2>5. StatusBar' = [StatusBar EXCEPT ![i] = status]
    <3>1. StatusOf(i)' = status
      BY <2>1, <2>2, <2>4 DEF StatusOf
    <3>2. \A j \in Ids \ {i} : StatusOf(j)' = StatusOf(j)
      BY <2>3, <2>4 DEF StatusOf
    <3> QED
      BY <3>1, <3>2, OneStatus
  <2>6. OpenBar' = OpenBar
    BY <2>2, <2>3, <2>4 DEF OpenBar
  <2> QED
    <3>1. StatusBar[i] = decision[i].policy_status
      BY <2>1 DEF StatusBar, StatusOf
    <3>2. decision[i].policy_status # "absent"
      BY DEF TypeOK, DecisionRecord, Statuses
    <3> QED
      BY <2>5, <2>6, <3>1, <3>2
<1>2. CASE reject(i)
  <2>1. /\ StatusBar[i] # "absent"
        /\ StatusBar' = [StatusBar EXCEPT ![i] = "blocked"]
        /\ OpenBar' = OpenBar
    BY <1>1, <1>2 DEF reject
  <2> QED
    BY <2>1 DEF Life!Reject, Life!Stored, Life!Become, StatusBar, StatusOf, OpenBar
<1>3. CASE approve(i)
  <2> DEFINE s == IF Executable(decision[i].draft.plan) THEN "allowed" ELSE "blocked"
  <2>1. Judged(i, s, "approved") /\ s \in {"allowed", "blocked"}
    BY <1>3, ApprovalOpens DEF approve
  <2>2. Known(i) /\ (i \in OpenBar <=> Executable(decision[i].draft.plan))
    BY <2>1 DEF Judged, OpenBar
  <2>3. s = IF i \in OpenBar THEN "allowed" ELSE "blocked"
    BY <2>2
  <2> HIDE DEF s
  <2>4. /\ StatusBar[i] # "absent"
        /\ StatusBar' = [StatusBar EXCEPT ![i] = s]
        /\ OpenBar' = OpenBar
    BY <1>1, <2>1
  <2> QED
    BY <2>3, <2>4 DEF Life!Approve, Life!Stored, Life!Become, StatusBar, StatusOf, OpenBar
<1> QED
  BY <1>2, <1>3

\* A decision is stored once, never allowed at birth, its plan settled from then
\* on, and only the operator's verdicts change it: every behaviour of the
\* pipeline is one of DecisionLife.
THEOREM DecisionsKeepContract == Spec => StoresByContract
<1>1. Init => Life!Init
  <2> SUFFICES ASSUME Init PROVE Life!Init
    OBVIOUS
  <2>1. \A i \in Ids : ~ Known(i)
    BY DEF Init, Known, NoDecision
  <2>2. StatusBar \in [Ids -> {"absent", "approval_required", "blocked"}] /\ OpenBar = {}
    BY <2>1 DEF StatusBar, StatusOf, OpenBar
  <2> QED
    BY <2>2 DEF Life!Init, StatusBar, StatusOf, OpenBar
<1>2. AssessmentInv /\ [Next]_vars => [Life!Next]_(Life!lvars)
  <2> SUFFICES ASSUME AssessmentInv, TypeOK, [Next]_vars
               PROVE  Life!Next \/ UNCHANGED decision
    <3>1. UNCHANGED decision => UNCHANGED <<StatusBar, OpenBar>>
      BY DEF StatusBar, StatusOf, OpenBar, Known
    <3> QED
      BY <3>1 DEF AssessmentInv, Life!lvars, StatusBar, StatusOf, OpenBar
  <2>1. ASSUME NEW a \in Runs, NEW r, NEW n, Goes(a, r, n)
        PROVE  Life!Next \/ UNCHANGED decision
    <3>1. CASE \E q, d :
                  q \in RunRecord /\ d.policy_status \in {"approval_required", "blocked"} /\ Store(a, q, d)
      <4>1. PICK q, d :
                  q \in RunRecord /\ d.policy_status \in {"approval_required", "blocked"} /\ Store(a, q, d)
        BY <3>1
      <4>2. /\ NewId \in Ids /\ ~ Known(NewId)
            /\ decision' = [decision EXCEPT ![NewId] = d]
        BY <4>1, StoreEnds
      <4>3. PICK i \in Ids : ~ Known(i) /\ decision' = [decision EXCEPT ![i] = d]
        BY <4>2
      <4>4. /\ decision'[i].policy_status \in {"approval_required", "blocked"}
            /\ \A j \in Ids \ {i} : decision'[j] = decision[j]
        BY <4>1, <4>3 DEF TypeOK
      <4>5. Life!Store(i)
        BY <4>3, <4>4, StoreIsLife
      <4> QED
        BY <4>5 DEF Life!Next
    <3> QED
      BY <2>1, <3>1 DEF Goes
  <2>2. CASE \E a \in Runs, batch \in SUBSET Events : BeginRun(a, batch)
    <3>1. PICK a \in Runs, batch \in SUBSET Events : BeginRun(a, batch)
      BY <2>2
    <3> DEFINE r == [NoRun EXCEPT !.batch = batch, !.fresh = filter_new_events(batch)]
    <3>2. r \in RunRecord /\ r.passed = 0
      BY InitialRecords DEF RunRecord, NoRun, filter_new_events
    <3>3. UNCHANGED decision \/ Ingest(a, r)
      BY <3>1 DEF BeginRun
    <3> HIDE DEF r
    <3> QED
      BY <2>1, <3>2, <3>3, IngestGoes
  <2>3. CASE \E a \in Runs : Step(a)
    BY <2>1, <2>3, StepIsProgress DEF StepGoes, FailRun
  <2>4. CASE \E i \in Ids : approve(i) \/ reject(i)
    BY <2>4, VerdictIsLife DEF Life!Next
  <2>5. CASE (\E batch \in SUBSET Events : simulate(batch)) \/ Crash \/ UNCHANGED vars
    BY <2>5 DEF simulate, Crash, vars
  <2> QED
    BY <2>2, <2>3, <2>4, <2>5 DEF Next
<1> QED
  BY <1>1, <1>2, InvariantHolds, PTL DEF Spec, StoresByContract, Life!Spec

=============================================================================
