# Austin FloodOps: a verification development

TLA+ modules, TLC runs and TLAPS proofs about the server in `app/`: a FastAPI
process that polls public flood feeds, round-trips new events through Kafka,
screens them with HiddenLayer, asks a model for an incident plan, holds the
plan for an operator, and hands approved plans to responders.

## 1. The system

One process (`replicas: 1`, strategy `Recreate` in `deploy/openshift-template.yaml`)
runs everything on one asyncio loop. All API handlers are `async def`, the
heartbeat is a task of the same loop, and every SQLite call is synchronous.
**A handler is therefore atomic between two awaits**, and all concurrency is
the interleaving of heartbeat and handlers at awaits. A crash can fall between
any two SQLite commits, also where no await is. This reading of the code is
what the granularity of every module rests on. `Resources` and `AuditChain` also
allow a second process on the same database file, which the code does not
prevent and whose effects its audit log is there to show.

| Component | State it keeps | Operations | Interacts with |
|---|---|---|---|
| Policy gate `app/safety/policy.py` | none | `evaluate` | called by assessment and approval |
| Verdicts and hand-off `app/main.py:366-435`, `app/service.py:637-710` | `decisions`, `deliveries` tables | approve, reject, first-responder, webeoc | gate, responder endpoints, audit |
| Assessment `app/service.py:222-631` | `events`, `decisions` tables; per run: batch, scans passed, draft | `assess_events`, `stream_events`, `simulate` | feeds, Kafka, HiddenLayer, models, Supabase, audit |
| Heartbeat `app/streaming/heartbeat.py`, lifespan `app/main.py:36` | `heartbeat_state` table, the task, the stop event | `run`, `run_cycle`, `stop` | feeds, assessment |
| Kafka bus `app/streaming/kafka.py` | topic and group offset (broker), producer | `publish`, `consume` | assessment, probe |
| Supabase mirror `app/storage/supabase.py` | remote ledger | `save_*` | assessment, feedback |
| Audit chain `app/storage/audit.py` | `audit_chain` table | `append`, `verify_chain` | every handler that changes state |
| Feedback and memory `app/learning/` | `feedback`, `memories` tables | `record_feedback`, `retire_*`, `rank_memories` | model, assessment |
| HiddenLayer, Nemotron, vLLM adapters | none | one request each | assessment |
| Resources `app/storage/sqlite.py:310-441` | `resources`, `resource_assignments` | list, create, assign, release | API |
| Roles and tokens `app/auth.py` | none (signed tokens) | `create_token`, `require_action` | every handler |
| Simulation, routing, prediction, evaluation, reports | none | pure computations | API |
| Dashboard and worker `app/static/` | browser store of drafts | approve, reject, feedback buttons | API |

**What is hard here.** Two operators (or one impatient one) sending the same
hand-off; an acknowledgement lost after the endpoint acted; a crash between a
claim and its result; a verdict that arrives while a post or an assessment is
waiting; two assessments that both took an event for new; a model that fails
after the evidence was stored; a path through retries and fallbacks that skips
a safety boundary; a heartbeat row that mixes fields of different cycles; a
shutdown in the middle of a cycle; a consumer group shared by readers that each
wait for their own records; feedback requests whose rules come back out of
order; a hash read on one connection and used on another; a citation counted
twice, or one no model wrote; a verdict whose answer is lost. `PROJECT.json`
lists these under `hazards`, each at its line and with the properties that
watch it.

**What correctness means, component by component.** Gate and hand-off: no post
begins without a standing approval of an executable plan, by one sender at a
time, not again after a recorded success, and claims end. Assessment: no model
is asked and no plan waits for an operator with a boundary missing; stored
evidence can be read; no run hangs; events are announced once. Adapters: a
validated decision cites evidence the model was shown and named, and an
operator is advised to approve only such decisions. Heartbeat: it goes on
whatever happens, its row is consistent and honest. Bus: nothing is skipped,
nothing is read twice without a failure. Audit: an untouched chain verifies, a
changed one that no race has forked does not. Memory: retired rules stop being retrieved, the versions
of an incident's rules count up, feedback is not lost silently. Resources: the
tables of units and assignments agree on who holds a unit.

## 2. Modules

| Module | Models | Lines |
|---|---|---|
| `Policy` | `evaluate` and what it reads of a decision | 36 |
| `HandoffPromise` | abstract: what the delivery path promises per target | 51 |
| `DecisionLife` | abstract: what any handler may do to a row of the decisions table | 44 |
| `GroupQueue` | abstract: what the topic is to the group that reads it | 57 |
| `Delivery` | verdicts, both delivery handlers, endpoint, crashes; refines `HandoffPromise` and `DecisionLife` | 390 |
| `Assessment` | `assess_events` and the handlers that touch what it stores; refines `DecisionLife` | 523 |
| `Heartbeat` | heartbeat task, lifespan hook, `heartbeat_state` | 309 |
| `KafkaStream` | the round trip record by record: `publish`, `consume`, one shared group; refines `GroupQueue` | 412 |
| `Learning` | feedback, reflection, rule versions, retirement, retrieval, the remote write | 279 |
| `AuditChain` | `append` in two steps, lost entries, changed rows, `verify_chain` | 182 |
| `Resources` | the inventory and its handlers; extends and refines `AuditChain` | 155 |
| `Grounding` | evidence selection, citation grounding, fallback, the preview's advice; refines `DecisionLife` | 359 |
| `OfflineDrafts` | verdicts through the service worker over a lossy network | 95 |
| `MCDelivery`, `MCAssessment`, `MCLearning`, `MCResources`, `MCGrounding`, `MCOfflineDrafts` | small instances | |
| `Delivery_proofs`, `Assessment_proofs`, `Heartbeat_proofs`, `KafkaStream_proofs`, `Learning_proofs`, `AuditChain_proofs`, `Resources_proofs`, `Grounding_proofs` | theorems | |

`Policy` is extended by `Delivery`, `Assessment`, `Grounding` and
`OfflineDrafts`. `Resources` is composed with `AuditChain` in one state space,
and `ResourcesAudit` proves that the composition implements `AuditSpec`. The
other state machines are composed by interface rather than by product:
`Assessment` proves `StoresWhatDeliveryReads`, which is the initial condition of
`Delivery` (`StoredStatus`); `Heartbeat` takes an assessment as one wait with
the outcomes `Assessment` can produce (a decision, an error, both, or an
exception); `Assessment` takes a round trip as one wait with the outcomes of
`KafkaStream` (all events go on, whatever was read back, or an exception), and
the model as one wait per attempt, whose answers `Grounding` opens up;
`Learning` takes an assessment as one wait between retrieval and decision.

Three modules have a view of their own of one table: `Assessment` stores a
decision, and `Delivery` and `Grounding` take it from there, all three with
operators who judge it. What makes these one story is `DecisionLife`: the status
column, and the set of rows whose plan an approval may open. Each of the three
implements it (`StoresByContract`, `JudgesByContract`, `GroundsByContract`), so
that none gives a decision a history the others do not allow for: it is stored
once and never as allowed, an approval opens exactly the rows that were
executable when stored, a rejection closes any row, and nothing returns one to
waiting.

**DecisionLife's mapping.** `status[i]` is `policy_status` of a stored row and
`"absent"` of one that is not; `executable` is where `Executable(plan)` holds.
All rows of `Delivery` are stored; `Grounding` has one row, which its `Init` has
absent. The plan of a row does not change after `Store`, because `approve` and
`reject` write the status and the history only.

**GroupQueue's mapping.** All readers together are one: a record is `out` when
some reader holds it, `done` is the group's offset, `failures` are commits that
did not return and deaths with a record out. Rebalances, joins, timeouts and
ends of round trips are stutters.

**Delivery.** `decision` and `deliveries` are the tables (a claim is the row
with `response_status = -1`, written `"claimed"`). `call[c]` is a delivery
handler: idle, or waiting in its HTTP post. `BeginPost` is the handler up to
`await send_cap` / `send_to_webeoc`; `Acknowledge`, `GiveUp` and `CommitFails`
are what it does after. The handlers of the two channels have the same steps
and share the actions. An unconfigured channel raises before its first wait
(`AttemptUnconfigured`). The endpoint acts when a post arrives (`Arrive`), which
may be after its sender gave up (`ArriveLate`, from `transit`). `accepted`
counts its actions. `AcknowledgeAsClaim` is a post the endpoint acted on and
answered with -1: `webeoc.py:78` returns whatever integer the endpoint sent,
`record_delivery` stores it, and -1 is the mark of an unfinished claim. `Numbered`
are the channels whose record is such a number (WebEOC; the other one records a
2xx status). `verdict`, `posts` and `failures` are history.

**Assessment.** A run's `stage` names the await it is in: `streaming` (Kafka
round trip), `mirroring` (events to Supabase), `scanning` (a HiddenLayer
boundary; `passed` tells which), `asking` (Nemotron, `attempt` 1 or 2),
`falling_back` (vLLM), `recording` (decision to Supabase). Each action is the
code from one await to the next: for example `ScanInput` is one round of the
loop at `service.py:331-391` with the block that ends it, `Ingest` is
`service.py:254-263`, `Store` is `save_decision` with its remote write and audit
entry. `config` holds which services are configured; `hiddenlayer = "broken"`
is configured without API v2, which blocks at once. `hold` on a decision says
whether a scan before or after inference stopped it. `_audit` swallows
exceptions, so an entry may be missing.

**Heartbeat.** `row` is the table; `previous` is the copy a cycle computes
from. `Gathered` and `Assessed` are the two ends of a cycle, `CycleRaises` is
the `except Exception` branch, `Commit` the single commit of `save_heartbeat_state`.
A time stamp is the number of its cycle. `Start` chooses `kafka` anew, because the
broker may be configured, or no longer, when the process comes up again. `Exit` covers both the joined and the
cancelled task of the lifespan hook.

**KafkaStream.** `log`, `committed`, `owner` and `unsettled` are the broker's:
the topic (one partition), the group's offset, the member the partition is
assigned to, and that members have come or gone since. `reader[r]` is a round
trip: `publishing` in `bus.publish`, `reading` in `bus.consume`; `held` is the
gap between a record handed to the loop and its `consumer.commit()`. Both calls
run in worker threads, so records of two round trips interleave one by one.
`Settle` is a rebalance (a new owner starts at the group's offset; offset 0 for
`auto_offset_reset="earliest"`), `Quiet` is `consumer_timeout_ms`, `Commit` with
`Finish` is the end at `max_records`. `CommitFails`, `PollFails` and the second
outcome of `PublishFails` are the exceptions that are no `KafkaUnavailable` and
leave `stream_events`. `stray` are records of a producer that was given up and
may still arrive. `from`, history, is the group's offset when a round trip began. A member that loses its assignment while it holds a record is
taken as a commit that fails.

**Learning.** `feedback` and `memories` are the tables, in the order of their
ids; `remote` is what Supabase holds. `request[r]` is a feedback handler in one
of its two waits: `reflecting` (the model that turns a correction into a rule)
and `mirroring` (Supabase). `Reflect`, `Degrade` and `ReflectionRaises` are the
three ends of the first: a rule, `ReflectionUnavailable`, and the
`IntegrationUnavailable` of `_extract_json` that `reflect_on_feedback` does not
convert, which ends the request before the remote write. `Mirror` and
`MirrorFails` end the second; a write that failed may have landed. An
assessment is `Retrieve` (`rank_memories` up to the first wait) and `Decide` or
`Abandon`. `told` is history: the rows whose client got `pending_local_retry`,
an error, or no answer.

**AuditChain and Resources.** `chain` is the table. A process is `due` to append
after a handler has committed, and `linked` between `last_hash` and the INSERT,
which use two connections. `digests` makes SHA-256 injective: a hash is the
position of what it was computed from. `Lose` is an append that fails, which
`_audit` swallows, or a death. `Edit` and `Remove` stand for whoever changes the
file by other means; `verify_chain` is `BadLinks` and `BadHashes`. `raced` marks
rows that another process's insert overtook. `Resources` gives these entries
their handlers: each runs without a pause in its process, and what a second
process can come between is the SELECT of `assign_resource` (`check_resource`)
and its transaction. `contested` marks units booked in spite of that.

**Grounding.** One assessment from its evidence to the preview. An event is its
position in the list as `_select_evidence` sorts it; `Selected` is its choice of
eight, first of each source first. `Required` is what the request's schema asks
for, `Cited` what `_ground_model_references` makes of an answer: the array
first, then the text until there are enough. `Accept`, `Refuse`, `NoUse`,
`Rejected` and `Raises` are the ends of an attempt, `AskVllm` the fallback, which
takes citations over as written and marks nothing as validated. `Gate`,
`BlockedAfter`, `approve` and `reject` set the status `webeoc_preview` reads for
`should_approve`.

**OfflineDrafts.** `sent[b]` is the POST under way from a dashboard, `served`
once the endpoint applied it. `FetchFails` is the worker's `catch`, which cannot
tell a request that was lost from an answer that was.

## 3. Runs

| Run | Expect | Shows | Bounds |
|---|---|---|---|
| `delivery` | pass | sending needs a standing approval; one sender per target; extra actions of the endpoint are retries after a reported failure; records are true and final; claims end; `HandoffPromise` and `DecisionLife` are implemented | one incident, a configured and an unconfigured channel, two requests, three posts per target, one fault |
| `assessment` | pass | boundaries gate inference and approval; input holds are final; evidence is stored; an event is announced once (once per run that waited for Kafka); creation precedes verdicts in the trail; no new event falls between the tables; every step leaves a run fewer waits; no run hangs; `DecisionLife` is implemented | one event, the heartbeat and one API run, two decisions, one verdict, one crash, three settings that reach every branch |
| `heartbeat` | pass | counters agree, `verified` is earned, a degraded round trip makes its cycle a failed one, no success is taken back, a beating heartbeat is shown, it goes on, a shutdown ends | five cycles, two faults, started with and without a broker |
| `stream` | pass | the offset skips nothing, records are read again only after a failed commit, "verified" rests on records read since the round trip began and now behind the offset, "degraded" has a reason, no reader waits for ever; `GroupQueue` is implemented | two events, two readers, limit of two records, three records in the topic (foreign ones included), one fault |
| `learning` | pass | versions count up, each rule has its feedback row, no feedback is missing at Supabase silently, retired rules enter no new context | two incidents, two requests, one assessment, three feedback rows, the two newest rules ranked and one taken |
| `inventory` | pass | an untouched chain is reported broken only at raced rows, an unforked one that was changed always; units and assignments agree on the holder | two processes, two units (one in the seed as deployed), two incidents, three audit rows, one change, two assignments |
| `grounding` | pass | validated citations were shown to the model and named by it, advice rests on enough of them, an answer that obeys the schema is accepted; `DecisionLife` is implemented | five evidence lists of one to four events over one URL, three of them in the prompt, two citations asked for, every answer over four ids and the URL |
| `stranded` | violation | a fault after the claim leaves a reservation that no handler can release; every later request answers `already_delivered` | as `delivery`, one channel |
| `shared` | violation | two overlapping assessments take each other's records: degraded with a healthy broker | two readers, two records, no fault |
| `one_url` | violation | an answer that writes one URL shared by several events, and no id, is accepted as if it had written enough references | as `grounding`, one risk, action and confidence |
| `masked` | violation | a cycle with a degraded round trip and a failed model keeps showing the earlier `verified` | with a broker, three cycles, no fault |
| `drafted` | violation | a verdict the server has applied is reported and kept as an offline draft when its answer is lost | one dashboard, two decisions |

*What the runs leave to the proofs.* Some statements are theorems and appear in no
run, because a run checks something that is stronger or that they go with: the
type invariants; `AllowedIsApproved` (next to `JudgesByContract`, which says of
the status column which verdict opens it), `RecordedIsFinal` (next to
`KeepsPromise`, in which a hand-off that is done stays done), `RereadNeedsFailure`
(a consequence of `ReadsAsOneQueue`) and `LoopGoesOn` (the safety half of
`KeepsBeating`).

*Why the bounds are enough.* The delivery properties are about one target; a
duplicate needs two posts and a third shows that a retry after a retry is still
counted; two requests make every race between handlers, and the unconfigured
channel is there for its own path. In `assessment` two runs and one event are
what the stale `filter_new_events` needs; a decision is independent of others
once stored. Five cycles reach every combination of success, failure, idle and
verified with a crash and a failed commit. In `stream` two readers suffice for
every rebalance, and with three records and a limit of two a backlog is left
behind and found by the next reader. In `learning` three rows give an incident a
third version after a retired one, and two open requests answer in either
order; a rank limit of two leaves an active rule out. In `inventory` three rows
are a row before, at and after a change, and two assignments a unit's second
holder. In `grounding` a prompt of three out of four events leaves one out, two
of three citations leave a choice, and the lists have a shared URL, a source
twice and fewer events than citations asked for. The theorems hold without any
bound, in particular for the limits of the code: eight events, three citations,
100 rules ranked and three taken.

*Fairness.* Only the program's own steps are fair, never operators, requests,
faults or answers of a particular kind. `Resolve`: httpx ends every post
(timeouts of 15 and 20 seconds). `Step` of a run: Kafka calls carry 5 and 10
second limits, Supabase 15, models 60 and more; a HiddenLayer call is one
request of the SDK's client, whose default timeout is assumed. `Wake` and
`LeaveLoop`: `asyncio.wait_for` ends the sleep. `Exit`: the hook waits five
seconds at most and then cancels. A fair run still may end in failure;
`NewReachesDecision` and `ClaimsResolve` say so. `Learning`, `AuditChain`,
`Resources` and `Grounding` state safety only: nothing there has to happen
(no code retries a remote write, an audit entry or a draft).

*Violations.* Each of these five runs checks one sentence of a doc or a comment
that the code does not keep; `findings` in `PROJECT.json` quotes it. Two need a
remark. `masked`: the cycle itself is recorded as failed, for the model's error;
of the degraded round trip nothing is recorded. `one_url`: every citation is
grounded, as `AcceptedIsGrounded` says; it is the number of references the model
wrote that is too small.

*What "verified" does not say.* `stream_events` matches records by event id, and
so does `VerifiedIsRead`. A record of an earlier round trip that failed half-way
(`from` or later) can vouch for its event, and the run's own record then stays in
the topic as backlog, to be read and dropped by a later reader.

*Observations.* Five more behaviours a reader may not expect follow from the
actions and have no run of their own: `reject` after a completed dispatch still
stores "no dispatch occurred" (`service.py:652`), and one that arrives during a
post changes nothing about it (`main.py:394`); `approve` turns a decision
blocked by an output scan into `allowed` (`service.py:638`); `simulate` stores
events that no audit entry mentions and that the heartbeat then takes for known
(`main.py:221`); new events are saved before the model is asked, and when it
fails, which fails closed as `docs/ARCHITECTURE_EXPLAINED.md` says, no later
cycle assesses them (`service.py:255`); errors of commit, send and poll leave
`stream_events` without a stream state (`service.py:175`), and the events, not
yet saved, are new again in a later cycle.

## 4. Proofs

All are by TLAPS, for every value of the constants that satisfies the named
assumptions (`DeliveryAssumption`, `AssessmentAssumption`,
`HeartbeatAssumption`, `StreamAssumption`, `LearningAssumption`,
`AuditAssumption`, `ResourcesAssumption`, `GroundingAssumption`); TLC evaluates
these on each passing run.

* `Delivery_proofs`: from `DeliveryInv` follow `TypeOK`, `AllowedIsApproved`,
  `OneOwnerPerClaim`, `DuplicatesComeFromRetries`, `RecordIsTrue`, the action
  properties `RecordedIsFinal` and `PostNeedsStandingApproval`, and the
  refinements `KeepsPromise` and `JudgesByContract`. The bound on duplicates is not inductive: it needs
  `PostsAccounted` (arrived, travelling and outstanding posts are at most those
  begun; those begun are at most the failures reported plus one for the present
  row) and `LandedWasAccepted`.
* `Assessment_proofs`: from `AssessmentInv` follow `TypeOK`,
  `InferenceIsScreened`, `OnlyClearedWaits`, `InputHoldIsFinal`,
  `EvidenceIsStored` and `StoresWhatDeliveryReads`. `RunOK` ties a run's stage to
  the scans it has passed and to the table (batch ⊆ table ∪ new, later
  batch ⊆ table); `DecisionOK` says the same of stored rows. `InputHoldIsFinal`
  needs that such a block carries the quarantine plan, which the gate refuses
  even when approved. Two more invariants are inductive only with a part of
  their own. `CreationComesFirst` needs `TrailOK`: without Supabase no run waits
  to record, and the trail of a decision not yet stored is empty.
  `NewIsCountedOnce` needs `CountOK`: an event that counted is in the table, and
  the count together with the number of runs that wait for Kafka with the event
  stays within the bound, so that a run coming back moves one from the second
  to the first. That a run never goes back to wait for Kafka, and stores a
  decision only with its entry, is `StepMoves`.
  What a step of a run can do is put once, in `StepGoes`: it waits for something
  nearer the end, or stores a decision over its batch (both are `Goes`), or fails
  and says so (`FailRun`), or ends with nothing owed. `StepIsProgress` proves it
  of every step, and three results rest on it. `RunsMoveForward`: the number of
  waits a run has ahead (`Ahead`, twelve at most) falls with every step, through
  retries, fallback and both loops of scans. `NothingForgotten`, by the
  invariant `Owed`: an event taken for new is in a decision, given up by a run
  that failed or died, or carried by a run that still is under way; inductive
  with `fresh` within `batch`, so that the decision that is stored has the event
  as evidence. `StoresByContract`, the refinement of `DecisionLife`.
* `Heartbeat_proofs`: from `HeartbeatInv` follow `TypeOK`, `RowIsConsistent`,
  `VerifiedIsDecided` and `LiveMeansRunning`; the added conjunct is that during a
  cycle the copy `previous` equals the table. The action property `RecordIsHonest`
  rests on the same conjunct, because a cycle replaces the whole row: cycles are
  counted one by one, no success is taken back, a cycle with a degraded round
  trip of its own is a failed one, and the label becomes `verified` only with a
  round trip that was. `LoopGoesOn` says which steps leave the loop; it
  takes one more invariant, `Backed`: where there is no process there is no task,
  so that a start leaves no loop.
* `KafkaStream_proofs`: from `StreamInv` follow `TypeOK`, `NothingSkipped`,
  `RereadNeedsFailure`, `VerifiedIsRead` and `DegradedIsExplained`. `ReaderOK`
  says that only the owner holds a record and that it is the group's next one,
  that what a reader has got lies between the offset at its beginning and its
  mark, and that without company what it wants is got, still to be sent, or
  ahead. `HandedOnce` says that ahead of the offset nothing but the held record was handed out for free. The
  refinement `ReadsAsOneQueue` goes action by action: `Publish`, `StrayArrives`
  and `ForeignRecord` put a record, `Take` hands the next one out (nobody holds
  one then, because only the owner can), `Commit` acknowledges it, `CommitFails`
  and a `Crash` with a record out fail, everything else stutters.
* `Learning_proofs`: from `LearningInv` follow `VersionsCount`,
  `RuleHasItsFeedback` and `MissingIsReported`; `RetiredStaysOut` is an action
  property of the same invariant. `RowsInHand` adds
  that open requests hold different rows, of which no rule was made while the
  model is asked; `HasLatest` that an incident with rules has a latest one,
  whose version `NextVersion` continues.
* `AuditChain_proofs`: from `AuditInv` follow `AlarmsNeedARace` and
  `EditIsReported`, the latter for a chain without raced rows: with one branch of
  a fork removed the other one verifies. `DigestsInOrder` says that a digest is taken once and of an
  earlier hash, so that no two rows, and no changed row, can have the hash of
  another; `HashesKnown` that only computed hashes are stored;
  `InTimeContinues` that until a change an append that is not late carries the
  newest hash.
* `Resources_proofs`: from `UnitInv` follows `HolderIsOnRecord`; each step of the
  inventory is a step of `AuditChain` or leaves it alone, so that
  `Spec => AuditSpec` and the chain's theorems hold of the composition. With one
  process, as deployed, no append is overtaken and no unit is contested
  (`OneProcessRacesNot`).
* `Grounding_proofs`: `AcceptedIsGrounded` is inductive with the types, because
  one step sets the citations and the answer they come from; what it takes is
  that `Cited` holds selected and named events only, as many as `Validation`
  says. `AdviceIsGrounded` follows, and the refinement `GroundsByContract`. `ComplianceIsAccepted` is a fact about the
  prefixes of one order (`RequiredIsEnough`): of the events that are selected and
  not asked for, the foremost would have only required ones ahead of it, fewer
  than `Minimum`. It assumes `Minimum # 0`, the code passing 3.

Model-checked only: all liveness (`ClaimsResolve`, `NewReachesDecision`,
`KeepsBeating`, `ShutdownEnds`, `RoundTripEnds`), because liveness under fairness
is out of the prover's reach. Of two of them the part that is safety is proved.
For `NewReachesDecision` it is the variant (`RunsMoveForward`) together with
`NothingForgotten`: what TLC adds is that the fair steps of a run are enabled
until its waits are used up. For `KeepsBeating` it is `LoopGoesOn`: what TLC
adds is that a cycle ends and the next one begins.

## 5. Not modelled

*Components.* Feeds and parsers, message formats, prompt texts, scores:
inputs and payloads that no property tells apart. Reports and exports read the
tables and change nothing. Roles and tokens are a fixed table and a signature
with an end time, without a state. Regressions, thresholds, routes and the
impact simulation are floating-point arithmetic over one request. The
evaluation harness is a sequential use of the pipeline. Deployment files and
scripts are no program state. Of the Supabase mirror, the remote events and
decisions: nothing reads them back (a verdict is not written there), and their
loss is not reported anywhere.

*Within the modules.* `AuditChain`: the columns the hash leaves out, a change of
several columns or rows, and the removal of the newest row, which leaves a
chain that verifies. `Learning`: the rules and feedback of a second process.
`Grounding`: the sort by time and kind is taken as given, event ids are unique,
an id is no URL, and no URL is part of another; duplicates in the fallback's
list count once; a number that is no number becomes full confidence there, as
in the code (`max(0.0, min(1.0, nan))` is 1). `OfflineDrafts`: one request of a
browser at a time, and a request whose fetch fails before it is served is not
served later.

## 6. What is left

Several events in `Assessment` with a heartbeat batch larger than one; bounded
checks of the thresholds of the gage forecast. To prove: that the place of a
reader in the topic never goes back (the safety half of `RoundTripEnds`), and
that with one process the inventory implements an exclusive allocation of
units.
