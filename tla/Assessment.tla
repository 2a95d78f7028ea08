----------------------------- MODULE Assessment -----------------------------
(***************************************************************************)
(* FloodOpsService.assess_events and the handlers that touch what it       *)
(* stores (app/service.py).                                                *)
(*                                                                         *)
(* The heartbeat task and the API handlers run assess_events as coroutines *)
(* of one process.  SQLite calls do not wait, so a run is atomic between   *)
(* two awaits: the Kafka round trip, the Supabase writes, each HiddenLayer *)
(* scan and each model call.  A stage names the await a run is in.         *)
(*                                                                         *)
(* Left out: the texts that are scanned and prompted, confidences, the     *)
(* "learning" and "security" payloads, and HiddenLayer signals other than  *)
(* prompt_injection, which are recorded and change nothing.                *)
(***************************************************************************)
EXTENDS Naturals, Sequences, FiniteSets, Policy

CONSTANTS
    Events,        \* event identifiers the feeds can deliver
    Runs,          \* assessments that can be running at once
    Heartbeat,     \* the run of the heartbeat; the others serve the API
    MaxDecisions,  \* bound: decisions stored
    Plans,         \* the plans a model may propose
    Configs,       \* the settings under which the process may be started
    MaxVerdicts,   \* bound: operator verdicts
    MaxCrashes     \* bound: process deaths

Config == [kafka : BOOLEAN, supabase : BOOLEAN, vllm : BOOLEAN,
           hiddenlayer : {"off", "broken", "on"}]

\* Both model adapters build the action with reversible=True.
ASSUME AssessmentAssumption ==
    /\ Heartbeat \in Runs
    /\ IsFiniteSet(Runs)
    /\ Plans \subseteq {p \in Plan : p.reversible}
    /\ Configs \subseteq Config
    /\ MaxDecisions \in Nat
    /\ MaxVerdicts \in Nat
    /\ MaxCrashes \in Nat

VARIABLES
    config,    \* settings
    events,    \* events table
    decision,  \* decisions table
    run,       \* volatile: the assessments under way
    trail,     \* audit entries about each decision, in order
    ingested,  \* history: how many runs took an event for new
    lost,      \* history: events whose run ended without a decision
    verdicts,  \* operator verdicts so far
    crashes    \* process deaths so far

vars == <<config, events, decision, run, trail, ingested, lost, verdicts, crashes>>

Ids == 1 .. MaxDecisions

Inputs     == 3    \* ingested_content, user_prompt_memory, model_request
Boundaries == 6    \* and tool_call, tool_result, final_answer

Stages  == {"idle", "streaming", "mirroring", "scanning", "asking", "falling_back", "recording"}
Sources == {"none", "hiddenlayer-quarantine", "nemotron", "vllm"}

\* security_block_decision proposes a quarantine of its own.
QuarantinePlan == [risk_level |-> "unknown", action_type |-> "quarantine", reversible |-> TRUE]

Draft   == [plan : Plan, source : Sources]
NoDraft == [plan |-> QuarantinePlan, source |-> "none"]

\* incident is the row the run has stored, 0 before it has.
RunRecord ==
    [stage : Stages, batch : SUBSET Events, fresh : SUBSET Events,
     passed : 0 .. Boundaries, flagged : BOOLEAN, attempt : 1 .. 2,
     draft : Draft, incident : 0 .. MaxDecisions]
NoRun ==
    [stage |-> "idle", batch |-> {}, fresh |-> {}, passed |-> 0, flagged |-> FALSE,
     attempt |-> 1, draft |-> NoDraft, incident |-> 0]

\* hold: the side of inference whose scan stopped the decision.
DecisionRecord ==
    [draft : Draft, evidence : SUBSET Events, policy_status : Statuses \cup {"none"},
     hold : {"none", "input", "output"}, passed : 0 .. Boundaries, flagged : BOOLEAN,
     verdict : {"none", "approved", "rejected"}]
NoDecision ==
    [draft |-> NoDraft, evidence |-> {}, policy_status |-> "none", hold |-> "none",
     passed |-> 0, flagged |-> FALSE, verdict |-> "none"]

EntryTypes == {"decision_created", "security_blocked", "approved", "rejected"}

TypeOK ==
    /\ config \in Configs
    /\ events \subseteq Events
    /\ decision \in [Ids -> DecisionRecord]
    /\ run \in [Runs -> RunRecord]
    /\ trail \in [Ids -> Seq(EntryTypes)]
    /\ ingested \in [Events -> Nat]
    /\ lost \subseteq Events
    /\ verdicts \in 0 .. MaxVerdicts
    /\ crashes \in 0 .. MaxCrashes

Known(i) == decision[i].policy_status # "none"
NewId    == CHOOSE i \in Ids : ~ Known(i)

Init ==
    /\ config \in Configs
    /\ events = {}
    /\ decision = [i \in Ids |-> NoDecision]
    /\ run = [a \in Runs |-> NoRun]
    /\ trail = [i \in Ids |-> << >>]
    /\ ingested = [e \in Events |-> 0]
    /\ lost = {}
    /\ verdicts = 0
    /\ crashes = 0

-----------------------------------------------------------------------------
(* What a run does between two awaits.                                     *)

\* _audit swallows every exception: the entry may be missing.
WriteAudit(i, type) ==
    \/ trail' = [trail EXCEPT ![i] = Append(@, type)]
    \/ UNCHANGED trail

WaitAt(a, r, stage) == run' = [run EXCEPT ![a] = [r EXCEPT !.stage = stage]]
EndRun(a)           == run' = [run EXCEPT ![a] = NoRun]

CreationEntry(d) == IF d.hold = "none" THEN "decision_created" ELSE "security_blocked"

\* Mutant of Store: the run also waits when no Supabase is configured.
StoreThenWait(a, r, d) ==
    /\ \E i \in Ids : ~ Known(i)
    /\ decision' = [decision EXCEPT ![NewId] = d]
    /\ WaitAt(a, [r EXCEPT !.incident = NewId], "recording")
    /\ UNCHANGED trail

\* save_decision, then the Supabase write when configured, then the entry.
Store(a, r, d) ==
    /\ \E i \in Ids : ~ Known(i)
    /\ decision' = [decision EXCEPT ![NewId] = d]
    /\ \/ /\ config.supabase
          /\ WaitAt(a, [r EXCEPT !.incident = NewId], "recording")
          /\ UNCHANGED trail
       \/ /\ ~ config.supabase
          /\ EndRun(a)
          /\ WriteAudit(NewId, CreationEntry(d))

\* The row a run stores: status from the gate, or "blocked" by a scan.
Row(r, draft, status, hold) ==
    [draft |-> draft, evidence |-> r.batch, policy_status |-> status, hold |-> hold,
     passed |-> r.passed, flagged |-> r.flagged, verdict |-> "none"]

\* Mutant of security_block_decision: the block keeps an executable action.
BlockWithoutQuarantine(r) ==
    Row(r, [plan |-> [QuarantinePlan EXCEPT !.action_type = "request_approval"],
            source |-> "hiddenlayer-quarantine"], "blocked", "input")

security_block_decision(r) ==
    Row(r, [NoDraft EXCEPT !.source = "hiddenlayer-quarantine"], "blocked", "input")

\* Mutant of GateStatus: the gate takes the operator's approval for granted.
GateStatusPreapproved(p) == evaluate(p, TRUE)

GateStatus(p) == evaluate(p, FALSE)

Gate(a, r)       == Store(a, r, Row(r, r.draft, GateStatus(r.draft.plan), "none"))
HoldOutput(a, r) == Store(a, r, Row(r, r.draft, "blocked", "output"))

\* From the memory lookup to the first scan, the block, or the first model call.
Screen(a, r) ==
    \/ /\ config.hiddenlayer = "on"
       /\ WaitAt(a, r, "scanning")
       /\ UNCHANGED <<decision, trail>>
    \/ /\ config.hiddenlayer = "off"
       /\ WaitAt(a, r, "asking")
       /\ UNCHANGED <<decision, trail>>
    \/ /\ config.hiddenlayer = "broken"
       /\ Store(a, r, security_block_decision(r))

\* Mutant of Ingest: the events table is written by a later pass.
IngestWithoutSave(a, r) ==
    /\ ingested' = [e \in Events |-> IF e \in r.fresh THEN ingested[e] + 1 ELSE ingested[e]]
    /\ Screen(a, r)
    /\ UNCHANGED events

\* save_events is INSERT OR IGNORE; the evidence_ingested entry follows it.
Ingest(a, r) ==
    /\ events' = events \cup r.fresh
    /\ ingested' = [e \in Events |-> IF e \in r.fresh THEN ingested[e] + 1 ELSE ingested[e]]
    /\ \/ /\ config.supabase /\ r.fresh # {}
          /\ WaitAt(a, r, "mirroring")
          /\ UNCHANGED <<decision, trail>>
       \/ /\ ~ (config.supabase /\ r.fresh # {})
          /\ Screen(a, r)

\* A run that ends with an error or an exception after it has saved.
FailRun(a) ==
    /\ lost' = lost \cup run[a].fresh
    /\ EndRun(a)
    /\ UNCHANGED <<decision, trail>>

-----------------------------------------------------------------------------
(* The steps of a run.                                                     *)

Room == Cardinality({a \in Runs : run[a].stage # "idle"})
            < Cardinality({i \in Ids : ~ Known(i)})

\* Mutant of filter_new_events: nothing is filtered.
FilterNothing(batch) == batch

filter_new_events(batch) == batch \ events

\* The batch is what the feeds returned.  The heartbeat passes on only what
\* is not in the table, and does not assess an empty rest.
BeginRun(a, batch) ==
    LET r == [NoRun EXCEPT !.batch = batch, !.fresh = filter_new_events(batch)] IN
    /\ run[a].stage = "idle"
    /\ Room
    /\ batch # {}
    /\ a = Heartbeat => r.fresh = batch
    /\ \/ /\ config.kafka /\ r.fresh # {}
          /\ WaitAt(a, r, "streaming")
          /\ UNCHANGED <<events, ingested, decision, trail>>
       \/ /\ ~ (config.kafka /\ r.fresh # {})
          /\ Ingest(a, r)
    /\ UNCHANGED <<config, lost, verdicts, crashes>>

\* stream_events returns the events it was given, round-tripped or direct.
\* The new events are those filtered before the wait.
Streamed(a) ==
    /\ run[a].stage = "streaming"
    /\ Ingest(a, run[a])
    /\ UNCHANGED <<config, lost, verdicts, crashes>>

\* Only KafkaUnavailable is caught: another error ends the run, nothing saved.
StreamRaises(a) ==
    /\ run[a].stage = "streaming"
    /\ EndRun(a)
    /\ UNCHANGED <<config, events, decision, trail, ingested, lost, verdicts, crashes>>

\* Mutant of EventsMirrored: a failed mirror ends the run.
MirrorFailureEnds(a) ==
    /\ run[a].stage = "mirroring"
    /\ \/ Screen(a, run[a])
       \/ EndRun(a) /\ UNCHANGED <<decision, trail>>
    /\ UNCHANGED <<config, events, ingested, lost, verdicts, crashes>>

\* The Supabase write of the events has returned, or failed and was passed over.
EventsMirrored(a) ==
    /\ run[a].stage = "mirroring"
    /\ Screen(a, run[a])
    /\ UNCHANGED <<config, events, ingested, lost, verdicts, crashes>>

\* Mutant of ScanInput: the loop leaves before the last boundary.
ScanInputTwice(a) ==
    LET r == [run[a] EXCEPT !.passed = @ + 1] IN
    /\ run[a].stage = "scanning"
    /\ run[a].passed < Inputs
    /\ \/ /\ WaitAt(a, r, IF r.passed = Inputs - 1 THEN "asking" ELSE "scanning")
          /\ UNCHANGED <<decision, trail>>
       \/ Store(a, run[a], security_block_decision(run[a]))
    /\ UNCHANGED <<config, events, ingested, lost, verdicts, crashes>>

\* One of the three input scans answers, or HiddenLayerUnavailable is raised.
ScanInput(a) ==
    LET r == [run[a] EXCEPT !.passed = @ + 1] IN
    /\ run[a].stage = "scanning"
    /\ run[a].passed < Inputs
    /\ \/ /\ WaitAt(a, r, IF r.passed = Inputs THEN "asking" ELSE "scanning")
          /\ UNCHANGED <<decision, trail>>
       \/ Store(a, run[a], security_block_decision(run[a]))
       \/ Store(a, r, security_block_decision([r EXCEPT !.flagged = TRUE]))
    /\ UNCHANGED <<config, events, ingested, lost, verdicts, crashes>>

\* What follows a usable answer: the output scans, or the gate.
Review(a, r) ==
    \/ /\ config.hiddenlayer = "on"
       /\ WaitAt(a, r, "scanning")
       /\ UNCHANGED <<decision, trail>>
    \/ /\ config.hiddenlayer # "on"
       /\ Gate(a, r)

\* Mutant of RetryOrGiveUp: the count starts again after the second attempt.
RetryAround(a) ==
    /\ WaitAt(a, [run[a] EXCEPT !.attempt = 3 - @], "asking")
    /\ UNCHANGED <<decision, trail, lost>>

\* A lost connection, a 429 or 5xx, or an answer without the required fields
\* or without grounded citations: one more attempt with the same request.
RetryOrGiveUp(a) ==
    \/ /\ run[a].attempt = 1
       /\ WaitAt(a, [run[a] EXCEPT !.attempt = 2], "asking")
       /\ UNCHANGED <<decision, trail, lost>>
    \/ /\ run[a].attempt = 2
       /\ \/ /\ config.vllm
             /\ WaitAt(a, run[a], "falling_back")
             /\ UNCHANGED <<decision, trail, lost>>
          \/ ~ config.vllm /\ FailRun(a)

\* assess_incident.  Only an answer with grounded citations is used; another
\* HTTP error is final, and so is an exception of another kind.
AskNemotron(a) ==
    /\ run[a].stage = "asking"
    /\ \/ \E p \in Plans :
             /\ Review(a, [run[a] EXCEPT !.draft = [plan |-> p, source |-> "nemotron"]])
             /\ UNCHANGED lost
       \/ RetryOrGiveUp(a)
       \/ /\ config.vllm
          /\ WaitAt(a, run[a], "falling_back")
          /\ UNCHANGED <<decision, trail, lost>>
       \/ FailRun(a)
    /\ UNCHANGED <<config, events, ingested, verdicts, crashes>>

\* assess_incident_vllm: one attempt.
AskVllm(a) ==
    /\ run[a].stage = "falling_back"
    /\ \/ \E p \in Plans :
             /\ Review(a, [run[a] EXCEPT !.draft = [plan |-> p, source |-> "vllm"]])
             /\ UNCHANGED lost
       \/ FailRun(a)
    /\ UNCHANGED <<config, events, ingested, verdicts, crashes>>

\* Mutant of Judge: findings of the output scans are recorded and passed over.
JudgeLeniently(a, r) ==
    \/ r.passed < Boundaries /\ WaitAt(a, r, "scanning") /\ UNCHANGED <<decision, trail>>
    \/ r.passed = Boundaries /\ Gate(a, r)

\* After an output scan: the next one, or the verdict over all three.
Judge(a, r) ==
    \/ /\ r.passed < Boundaries
       /\ WaitAt(a, r, "scanning")
       /\ UNCHANGED <<decision, trail>>
    \/ r.passed = Boundaries /\ r.flagged /\ HoldOutput(a, r)
    \/ r.passed = Boundaries /\ ~ r.flagged /\ Gate(a, r)

\* One of the three output scans answers, or is unavailable.
ScanOutput(a) ==
    /\ run[a].stage = "scanning"
    /\ run[a].passed >= Inputs
    /\ \/ \E fired \in BOOLEAN :
             Judge(a, [run[a] EXCEPT !.passed = @ + 1, !.flagged = @ \/ fired])
       \/ HoldOutput(a, run[a])
    /\ UNCHANGED <<config, events, ingested, lost, verdicts, crashes>>

\* The Supabase write of the decision has returned, or failed and was passed
\* over: the entry is appended.
DecisionMirrored(a) ==
    LET i == run[a].incident IN
    /\ run[a].stage = "recording"
    /\ WriteAudit(i, CreationEntry(decision[i]))
    /\ EndRun(a)
    /\ UNCHANGED <<config, events, decision, ingested, lost, verdicts, crashes>>

Step(a) ==
    \/ Streamed(a) \/ StreamRaises(a) \/ EventsMirrored(a) \/ ScanInput(a)
    \/ AskNemotron(a) \/ AskVllm(a) \/ ScanOutput(a) \/ DecisionMirrored(a)

-----------------------------------------------------------------------------
(* Other handlers, and the process.                                        *)

Judged(i, status, verdict) ==
    /\ Known(i)
    /\ verdicts < MaxVerdicts
    /\ verdicts' = verdicts + 1
    /\ decision' = [decision EXCEPT ![i].policy_status = status, ![i].verdict = verdict]
    /\ WriteAudit(i, verdict)
    /\ UNCHANGED <<config, events, run, ingested, lost, crashes>>

approve(i) == Judged(i, evaluate(decision[i].draft.plan, TRUE), "approved")
reject(i)  == Judged(i, "blocked", "rejected")

\* POST /api/simulate stores what it gathered and assesses nothing.
simulate(batch) ==
    /\ events' = events \cup filter_new_events(batch)
    /\ UNCHANGED <<config, decision, run, trail, ingested, lost, verdicts, crashes>>

Crash ==
    /\ crashes < MaxCrashes
    /\ crashes' = crashes + 1
    /\ lost' = lost \cup UNION {run[a].fresh : a \in {b \in Runs :
                    run[b].stage \notin {"idle", "streaming", "recording"}}}
    /\ run' = [a \in Runs |-> NoRun]
    /\ UNCHANGED <<config, events, decision, trail, ingested, verdicts>>

Next ==
    \/ \E a \in Runs, batch \in SUBSET Events : BeginRun(a, batch)
    \/ \E a \in Runs : Step(a)
    \/ \E i \in Ids : approve(i) \/ reject(i)
    \/ \E batch \in SUBSET Events : simulate(batch)
    \/ Crash

Spec == Init /\ [][Next]_vars

\* Every await returns: the Kafka, Supabase, Nemotron and vLLM clients carry
\* timeouts, and a HiddenLayer call is one request of its client.  The
\* heartbeat polls for ever.
FairSpec ==
    /\ Spec
    /\ \A a \in Runs : WF_vars(Step(a))
    /\ WF_vars(\E batch \in SUBSET Events : BeginRun(Heartbeat, batch))

-----------------------------------------------------------------------------
(* Properties.                                                             *)

\* With HiddenLayer configured no model is asked before the three input scans
\* of the same run have passed, and never when the scans cannot be made.
InferenceIsScreened ==
    \A a \in Runs :
        (run[a].stage \in {"asking", "falling_back"} /\ config.hiddenlayer # "off") =>
            /\ config.hiddenlayer = "on"
            /\ run[a].passed = Inputs
            /\ ~ run[a].flagged

\* A decision that waits for an operator has passed all six boundaries clean.
OnlyClearedWaits ==
    \A i \in Ids :
        (Known(i) /\ decision[i].verdict = "none" /\ decision[i].policy_status # "blocked"
            /\ config.hiddenlayer # "off") =>
                decision[i].passed = Boundaries /\ ~ decision[i].flagged

\* What was stopped before inference stays blocked, whatever the operator does.
InputHoldIsFinal ==
    \A i \in Ids : decision[i].hold = "input" => decision[i].policy_status = "blocked"

\* The evidence a decision names can be read back: feedback and prediction
\* look the events up by these identifiers.
EvidenceIsStored ==
    \A i \in Ids : Known(i) => decision[i].evidence # {} /\ decision[i].evidence \subseteq events

\* An event counts as new once; only while runs wait for Kafka with an old
\* answer of filter_new_events can it count again, once per such run.
NewIsCountedOnce ==
    \A e \in Events :
        ingested[e] <= IF config.kafka THEN Cardinality(Runs) ELSE 1

\* Unless the Supabase write comes in between, the audit trail tells of a
\* decision before it tells of a verdict on it.
CreationComesFirst ==
    ~ config.supabase =>
        \A i \in Ids : \A k \in 2 .. Len(trail[i]) : trail[i][k] \in {"approved", "rejected"}

Decided(e) == \E i \in Ids : e \in decision[i].evidence

\* Run a has taken e for new and has neither stored a decision nor failed.
Carries(a, e) ==
    /\ run[a].stage \notin {"idle", "streaming", "recording"}
    /\ e \in run[a].fresh

\* At every moment an event taken for new is part of a decision, given up by a
\* run that failed or died, or in the hands of a run: none falls between the
\* events table and the decisions table without a trace.
NothingForgotten ==
    \A e \in Events : ingested[e] > 0 =>
        Decided(e) \/ e \in lost \/ \E a \in Runs : Carries(a, e)

\* How many waits a run has ahead of it at most: Kafka, the mirror, three scans,
\* two attempts, the fallback, three scans, the record.
Ahead(r) ==
    CASE r.stage = "streaming"    -> 12
      [] r.stage = "mirroring"    -> 11
      [] r.stage = "scanning"     -> IF r.passed < Inputs THEN 10 - r.passed ELSE 7 - r.passed
      [] r.stage = "asking"       -> 8 - r.attempt
      [] r.stage = "falling_back" -> 5
      [] r.stage = "recording"    -> 1
      [] r.stage = "idle"         -> 0

\* Every step of a run under way leaves it fewer waits: retries, fallback and
\* scans never send it round again, so that no run waits more than twelve times.
RunsMoveForward ==
    [][\A a \in Runs : (run[a].stage # "idle" /\ run'[a] # run[a]) =>
            Ahead(run'[a]) < Ahead(run[a])]_vars

\* What approval and delivery find in the decisions table: plans of the kind
\* the gate was written for, with the gate's status or a hold.
StoresWhatDeliveryReads ==
    \A i \in Ids : (Known(i) /\ decision[i].verdict = "none") =>
        /\ decision[i].draft.plan \in Plans \cup {QuarantinePlan}
        /\ decision[i].policy_status \in {evaluate(decision[i].draft.plan, FALSE), "blocked"}

\* The inductive invariant of the proofs.  A run under way: what it has for
\* new covers what the table lacks, and once past ingestion nothing is lacking;
\* where it stands in the scans tells what they have found.
RunOK(r, evs, cfg) ==
    /\ r.stage # "idle" => r.batch # {} /\ r.batch \subseteq evs \cup r.fresh
    /\ r.stage \notin {"idle", "streaming"} => r.batch \subseteq evs
    /\ r.stage \in {"streaming", "mirroring"} => r.passed = 0 /\ ~ r.flagged
    /\ r.stage = "scanning" =>
          /\ cfg.hiddenlayer = "on"
          /\ r.passed < Boundaries
          /\ r.passed < Inputs => ~ r.flagged
          /\ r.passed >= Inputs => r.draft.plan \in Plans
    /\ r.stage \in {"asking", "falling_back"} =>
          /\ cfg.hiddenlayer # "broken"
          /\ ~ r.flagged
          /\ cfg.hiddenlayer = "on" => r.passed = Inputs

\* A stored decision: the properties above, and that a block before inference
\* carries the quarantine plan.
DecisionOK(d, evs, cfg) ==
    /\ d.policy_status # "none" => d.evidence # {} /\ d.evidence \subseteq evs
    /\ d.hold = "input" => d.policy_status = "blocked" /\ d.draft.plan = QuarantinePlan
    /\ (d.policy_status # "none" /\ d.verdict = "none") =>
          /\ d.draft.plan \in Plans \cup {QuarantinePlan}
          /\ d.policy_status \in {evaluate(d.draft.plan, FALSE), "blocked"}
          /\ (d.policy_status # "blocked" /\ cfg.hiddenlayer # "off") =>
                d.passed = Boundaries /\ ~ d.flagged

AssessmentInv ==
    /\ TypeOK
    /\ \A a \in Runs : RunOK(run[a], events, config)
    /\ \A i \in Ids : DecisionOK(decision[i], events, config)

\* The decisions table as the rows of DecisionLife.
Life == INSTANCE DecisionLife WITH
    Rows <- Ids,
    status <- [i \in Ids |-> IF Known(i) THEN decision[i].policy_status ELSE "absent"],
    executable <- {i \in Ids : Known(i) /\ Executable(decision[i].draft.plan)}

\* Whatever overlaps, runs and operators treat a decision as DecisionLife says:
\* stored once, not yet allowed, its plan settled, and then judged by the
\* operator alone.
StoresByContract == Life!Spec

\* A run never hangs: an event taken for new gets a decision unless its run
\* fails or the process dies.
NewReachesDecision ==
    \A e \in Events : (ingested[e] > 0) ~> (Decided(e) \/ e \in lost)
=============================================================================
