------------------------------ MODULE Heartbeat ------------------------------
(***************************************************************************)
(* The heartbeat task (app/streaming/heartbeat.py), the lifespan hook that *)
(* starts and stops it (app/main.py), and the heartbeat_state table.       *)
(*                                                                         *)
(* A cycle reads the table, waits for the feeds, may wait for an           *)
(* assessment, and then writes the table in one commit.  What an           *)
(* assessment does is the subject of Assessment; here it returns a         *)
(* decision, an error or both, or raises, after a round trip through       *)
(* Kafka that was verified or degraded.                                    *)
(*                                                                         *)
(* A time stamp is the number of the cycle that wrote it.  Source counts,  *)
(* warnings and texts are left out.                                        *)
(***************************************************************************)
EXTENDS Naturals

CONSTANTS
    KafkaSettings,  \* the values of has_kafka the process may be started with
    MaxCycles,      \* bound: completed cycles
    MaxFaults       \* bound: process deaths and failed SQLite commits

ASSUME HeartbeatAssumption ==
    /\ KafkaSettings \subseteq BOOLEAN
    /\ MaxCycles \in Nat
    /\ MaxFaults \in Nat

VARIABLES
    kafka,      \* settings.has_kafka, read when the process starts
    row,        \* heartbeat_state table
    process,    \* the server process
    task,       \* volatile: the coroutine HeartbeatEngine.run
    stopping,   \* volatile: the _stop event
    previous,   \* volatile: what the cycle read from the table
    core_ok,    \* volatile: both core sources answered in this cycle
    trip,       \* history: the latest round trip the heartbeat made
    evidence,   \* history: the round trip of the latest decision a cycle recorded
    faults

vars == <<kafka, row, process, task, stopping, previous, core_ok, trip, evidence, faults>>

Trips    == {"none", "verified", "degraded"}
Streams  == {"none", "not_configured", "idle", "verified", "degraded"}
Outcomes == {"none", "no_new_events", "decided", "degraded"}
Waiting  == {"gathering", "assessing"}
InLoop   == Waiting \cup {"sleeping"}

Row == [running : BOOLEAN, cycles : Nat, consecutive_failures : Nat,
        last_success_at : Nat, last_error : BOOLEAN, stream : Streams,
        decision_outcome : Outcomes]

\* heartbeat_state() of an empty table.
EmptyRow == [running |-> FALSE, cycles |-> 0, consecutive_failures |-> 0,
             last_success_at |-> 0, last_error |-> FALSE, stream |-> "none",
             decision_outcome |-> "none"]

TypeOK ==
    /\ kafka \in KafkaSettings
    /\ row \in Row
    /\ process \in {"down", "up"}
    /\ task \in InLoop \cup {"none", "ended", "dead"}
    /\ stopping \in BOOLEAN
    /\ previous \in Row
    /\ core_ok \in BOOLEAN
    /\ trip \in Trips
    /\ evidence \in Trips
    /\ faults \in Nat

Init ==
    /\ kafka \in KafkaSettings
    /\ row = EmptyRow
    /\ process = "down"
    /\ task = "none"
    /\ stopping = FALSE
    /\ previous = EmptyRow
    /\ core_ok = TRUE
    /\ trip = "none"
    /\ evidence = "none"
    /\ faults = 0

-----------------------------------------------------------------------------
(* What a cycle writes.                                                    *)

\* Mutant of StreamOf: a quiet cycle reports a fresh verification.
StreamOfOptimist(decided, t) ==
    IF kafka /\ (~ decided \/ t = "verified") THEN "verified"
    ELSE IF kafka THEN t ELSE "not_configured"

\* stream: that of the decision's round trip; without a decision, the last
\* verified one is kept and the cycle labelled idle.
StreamOf(decided, t) ==
    IF decided THEN (IF kafka THEN t ELSE "not_configured")
    ELSE IF kafka /\ previous.stream = "verified" THEN "verified"
    ELSE IF kafka THEN "idle" ELSE "not_configured"

\* Mutant of Written: a failed cycle advances last_success_at as well.
WrittenAlwaysSuccess(error, stream, outcome) ==
    [running |-> TRUE, cycles |-> previous.cycles + 1,
     consecutive_failures |-> IF error THEN previous.consecutive_failures + 1 ELSE 0,
     last_success_at |-> previous.cycles + 1,
     last_error |-> error, stream |-> stream, decision_outcome |-> outcome]

\* Mutant of Written: a cycle writes "running" as False.
WrittenStopped(error, stream, outcome) ==
    [EmptyRow EXCEPT !.cycles = previous.cycles + 1,
     !.consecutive_failures = IF error THEN previous.consecutive_failures + 1 ELSE 0,
     !.last_success_at = IF error THEN previous.last_success_at ELSE previous.cycles + 1,
     !.last_error = error, !.stream = stream, !.decision_outcome = outcome]

\* The keys of state.update(...), over "running" and "cycles".
Written(error, stream, outcome) ==
    [running |-> TRUE, cycles |-> previous.cycles + 1,
     consecutive_failures |-> IF error THEN previous.consecutive_failures + 1 ELSE 0,
     last_success_at |-> IF error THEN previous.last_success_at ELSE previous.cycles + 1,
     last_error |-> error, stream |-> stream, decision_outcome |-> outcome]

\* One commit of the table, after which the task goes on; a commit that fails
\* ends the task.
Commit(state, next) ==
    \/ /\ row' = state
       /\ task' = next
       /\ UNCHANGED faults
    \/ /\ faults < MaxFaults
       /\ faults' = faults + 1
       /\ task' = "dead"
       /\ UNCHANGED row

\* Mutant of Complete: a degraded stream is not an error.
CompleteLenient(decided, error, t) ==
    Commit(Written(error, StreamOf(decided, t),
                   IF decided THEN "decided" ELSE "no_new_events"),
           "sleeping")

\* decision: one was returned; error: assess_events or a core source failed.
\* A degraded stream that is reported is an error too.
Complete(decided, error, t) ==
    LET stream == StreamOf(decided, t) IN
    Commit(Written(error \/ stream = "degraded", stream,
                   IF decided THEN "decided" ELSE "no_new_events"),
           "sleeping")

-----------------------------------------------------------------------------
(* The steps of the task.                                                  *)

\* The feeds have answered; without new events the cycle ends here.
Gathered ==
    /\ task = "gathering"
    /\ \E ok \in BOOLEAN :
         /\ core_ok' = ok
         /\ \/ task' = "assessing" /\ UNCHANGED <<row, faults>>
            \/ Complete(FALSE, ~ ok, "none")
    /\ UNCHANGED <<kafka, process, stopping, previous, trip, evidence>>

RoundTrip == IF kafka THEN {"verified", "degraded"} ELSE {"none"}

\* assess_events has returned: a decision, an error, or a hold with both.
Assessed ==
    /\ task = "assessing"
    /\ \E t \in RoundTrip, decided \in BOOLEAN, failed \in BOOLEAN :
         /\ decided \/ failed
         /\ trip' = t
         /\ Complete(decided, ~ core_ok \/ failed, t)
         /\ evidence' = IF decided /\ task' # "dead" THEN t ELSE evidence
    /\ UNCHANGED <<kafka, process, stopping, previous, core_ok>>

\* Mutant of CycleRaises: the exception leaves run_cycle.
RaisingEndsTask ==
    /\ task \in Waiting
    /\ task' = "ended"
    /\ UNCHANGED <<kafka, row, process, stopping, previous, core_ok, trip, evidence, faults>>

\* Any other exception: the branch writes no stream key, so the row keeps it.
CycleRaises ==
    /\ task \in Waiting
    /\ trip' \in IF task = "assessing" THEN RoundTrip \cup {trip} ELSE {trip}
    /\ Commit(Written(TRUE, row.stream, "degraded"), "sleeping")
    /\ UNCHANGED <<kafka, process, stopping, previous, core_ok, evidence>>

\* The interval is over: run_cycle reads the table and asks the feeds.
Wake ==
    /\ task = "sleeping"
    /\ ~ stopping
    /\ row.cycles < MaxCycles
    /\ previous' = row
    /\ task' = "gathering"
    /\ UNCHANGED <<kafka, row, process, stopping, core_ok, trip, evidence, faults>>

\* Mutant of LeaveLoop: the event is cleared when the sleep sees it.
ForgetsStop ==
    /\ task = "sleeping"
    /\ stopping
    /\ stopping' = FALSE
    /\ UNCHANGED <<kafka, row, process, task, previous, core_ok, trip, evidence, faults>>

\* The sleep is cut short, or never begun, because of stop(): run() leaves its
\* loop and writes the table once more.
LeaveLoop ==
    /\ task = "sleeping"
    /\ stopping
    /\ Commit([row EXCEPT !.running = FALSE], "ended")
    /\ UNCHANGED <<kafka, process, stopping, previous, core_ok, trip, evidence>>

-----------------------------------------------------------------------------
(* The lifespan hook, and faults.                                          *)

\* run() marks the row before its first cycle; heartbeat_enabled may be off.  The
\* broker may be configured otherwise than when the process last ran.
Start ==
    /\ process = "down"
    /\ process' = "up"
    /\ \/ /\ row.cycles < MaxCycles
          /\ Commit([row EXCEPT !.running = TRUE], "gathering")
          /\ previous' = row'
       \/ task' = "none" /\ UNCHANGED <<row, previous, faults>>
    /\ kafka' \in KafkaSettings
    /\ UNCHANGED <<stopping, core_ok, trip, evidence>>

Shutdown ==
    /\ process = "up"
    /\ ~ stopping
    /\ stopping' = TRUE
    /\ UNCHANGED <<kafka, row, process, task, previous, core_ok, trip, evidence, faults>>

\* The task is over, or wait_for(task, timeout=5) has cancelled it in a wait:
\* CancelledError passes run_cycle and run, and nothing is written.
Exit ==
    /\ process = "up"
    /\ stopping
    /\ task \in Waiting \cup {"none", "ended", "dead"}
    /\ process' = "down"
    /\ task' = "none"
    /\ stopping' = FALSE
    /\ UNCHANGED <<kafka, row, previous, core_ok, trip, evidence, faults>>

Crash ==
    /\ process = "up"
    /\ faults < MaxFaults
    /\ faults' = faults + 1
    /\ process' = "down"
    /\ task' = "none"
    /\ stopping' = FALSE
    /\ UNCHANGED <<kafka, row, previous, core_ok, trip, evidence>>

Step == Gathered \/ Assessed \/ CycleRaises

Next == Step \/ Wake \/ LeaveLoop \/ Start \/ Shutdown \/ Exit \/ Crash

Spec == Init /\ [][Next]_vars

\* The feeds and the clients of an assessment carry timeouts, asyncio.wait_for
\* ends the sleep, and the lifespan hook waits five seconds at most.
FairSpec == Spec /\ WF_vars(Step) /\ WF_vars(Wake) /\ WF_vars(LeaveLoop) /\ WF_vars(Exit)

-----------------------------------------------------------------------------
(* Properties.                                                             *)

\* The counters of the table agree over failures, cancelled cycles and
\* restarts: every cycle since the last success is a counted failure.
RowIsConsistent ==
    /\ row.cycles = row.last_success_at + row.consecutive_failures
    /\ row.last_error <=> row.consecutive_failures > 0

\* The table says "verified" only if the round trip of the latest
\* decision recorded was.
VerifiedIsDecided == row.stream = "verified" => evidence = "verified"

\* A heartbeat that beats is never shown as stopped.
LiveMeansRunning == task \in InLoop => row.running

\* What a step may do to the record, over failing cycles, failed commits,
\* cancellations and restarts.  Cycles are counted one by one and no success is
\* taken back.  A cycle whose own round trip was degraded is recorded as failed,
\* with or without a decision.  The label becomes "verified" only by a round trip
\* verified in the same step, and a quiet poll with a broker keeps it.
RecordIsHonest ==
    [][/\ row'.cycles \in {row.cycles, row.cycles + 1}
       /\ row'.last_success_at >= row.last_success_at
       /\ (task = "assessing" /\ task' = "sleeping" /\ trip' = "degraded") => row'.last_error
       /\ (row.stream # "verified" /\ row'.stream = "verified") => trip' = "verified"
       /\ (row.stream = "verified" /\ task = "gathering" /\ kafka) => row'.stream = "verified"]_vars

\* Only a stop, the death of the process or a failed commit takes the heartbeat
\* out of its loop, whatever the feeds, the assessment and the round trip do.
LoopGoesOn ==
    [][(task \in InLoop /\ task' \notin InLoop) => (stopping \/ faults' > faults)]_vars

\* The inductive invariant of the proofs: the copy a cycle works from is still
\* what the table holds when the cycle writes.
HeartbeatInv ==
    /\ TypeOK
    /\ RowIsConsistent
    /\ VerifiedIsDecided
    /\ LiveMeansRunning
    /\ task \in Waiting => previous = row

\* Whatever a cycle meets, the next one follows, until the heartbeat is
\* stopped or a commit fails under it.
KeepsBeating ==
    \A n \in 0 .. MaxCycles - 1 :
        (task \in InLoop /\ row.cycles = n) ~>
            (row.cycles > n \/ stopping \/ process = "down" \/ task = "dead")

\* A shutdown ends the process, wherever the heartbeat is.
ShutdownEnds == (process = "up" /\ stopping) ~> process = "down"

\* Does not hold.  docs/ARCHITECTURE_EXPLAINED.md: "The stream status records
\* whether Kafka was verified, degraded, skipped, or not configured.  A broker
\* failure never masquerades as success."
NoFailureMasquerades == (task = "sleeping" /\ trip = "degraded") => row.stream # "verified"
=============================================================================
