--------------------------- MODULE Heartbeat_proofs ---------------------------
(***************************************************************************)
(* Proofs about the heartbeat, for every bound and either Kafka setting.   *)
(* A cycle computes its row from the copy it read before its waits; that   *)
(* the copy is still the table's content when the row is written is the    *)
(* part of HeartbeatInv the other parts need.                              *)
(***************************************************************************)
EXTENDS Heartbeat, TLAPS

\* A row computed from a consistent copy is consistent, typed and marked as
\* running, whatever the cycle met.
LEMMA WrittenRow ==
    ASSUME previous \in Row, NEW error \in BOOLEAN, NEW stream \in Streams, NEW outcome \in Outcomes,
           previous.cycles = previous.last_success_at + previous.consecutive_failures
    PROVE  LET w == Written(error, stream, outcome) IN
           /\ w \in Row
           /\ w.cycles = w.last_success_at + w.consecutive_failures
           /\ w.last_error <=> w.consecutive_failures > 0
           /\ w.running
           /\ w.stream = stream
BY DEF Written, Row

\* The stream a cycle reports is one of the known ones; it is "verified" only
\* with a verified round trip of this cycle or with the copy's own label.
LEMMA StreamReported ==
    ASSUME NEW decided \in BOOLEAN, NEW t \in Trips
    PROVE  /\ StreamOf(decided, t) \in Streams
           /\ StreamOf(decided, t) = "verified" =>
                IF decided THEN t = "verified" ELSE previous.stream = "verified"
BY DEF StreamOf, Streams, Trips

\* One commit of a good row keeps the invariant of the row.
RowOK(state, ev) ==
    /\ state \in Row
    /\ state.cycles = state.last_success_at + state.consecutive_failures
    /\ state.last_error <=> state.consecutive_failures > 0
    /\ state.stream = "verified" => ev = "verified"

\* A cycle that completes writes a good row, or ends the task.
LEMMA CompletedRow ==
    ASSUME HeartbeatInv, task \in Waiting,
           NEW decided \in BOOLEAN, NEW error \in BOOLEAN, NEW t \in Trips,
           Complete(decided, error, t)
    PROVE  /\ task' \in {"sleeping", "dead"}
           /\ faults' \in Nat
           /\ task' = "sleeping" => row'.running /\ RowOK(row', IF decided THEN t ELSE evidence)
           /\ task' = "dead" => row' = row
<1> DEFINE stream == StreamOf(decided, t)
           failed == error \/ stream = "degraded"
           outcome == IF decided THEN "decided" ELSE "no_new_events"
<1>1. previous = row /\ row \in Row
  BY DEF HeartbeatInv, TypeOK
<1>2. /\ stream \in Streams
      /\ stream = "verified" => IF decided THEN t = "verified" ELSE previous.stream = "verified"
  BY StreamReported
<1>3. failed \in BOOLEAN /\ outcome \in Outcomes
  BY DEF Outcomes
<1>4. Commit(Written(failed, stream, outcome), "sleeping")
  BY DEF Complete
<1>5. row.cycles = row.last_success_at + row.consecutive_failures
      /\ (row.stream = "verified" => evidence = "verified")
  BY DEF HeartbeatInv, RowIsConsistent, VerifiedIsDecided
<1> HIDE DEF stream, failed, outcome
<1>6. LET w == Written(failed, stream, outcome) IN
      /\ w \in Row
      /\ w.cycles = w.last_success_at + w.consecutive_failures
      /\ w.last_error <=> w.consecutive_failures > 0
      /\ w.running
      /\ w.stream = stream
  BY <1>1, <1>2, <1>3, <1>5, WrittenRow
<1>7. faults \in Nat
  BY DEF HeartbeatInv, TypeOK
<1> QED
  BY <1>1, <1>2, <1>4, <1>5, <1>6, <1>7 DEF Commit, RowOK

-----------------------------------------------------------------------------
\* The invariant, one lemma for each step that writes the table.

\* Gathered keeps the invariant: without a decision only an earlier label is
\* carried over.
LEMMA GatheredStep == HeartbeatInv /\ Gathered => HeartbeatInv'
<1> SUFFICES ASSUME HeartbeatInv, Gathered PROVE HeartbeatInv'
  OBVIOUS
<1>1. task = "gathering" /\ UNCHANGED <<kafka, process, stopping, previous, trip, evidence>>
  BY DEF Gathered
<1>2. PICK ok \in BOOLEAN :
         /\ core_ok' = ok
         /\ \/ task' = "assessing" /\ UNCHANGED <<row, faults>>
            \/ Complete(FALSE, ~ ok, "none")
  BY DEF Gathered
<1>3. CASE task' = "assessing" /\ UNCHANGED <<row, faults>>
  BY <1>1, <1>2, <1>3
  DEF HeartbeatInv, TypeOK, InLoop, Waiting, RowIsConsistent, VerifiedIsDecided, LiveMeansRunning
<1>4. CASE Complete(FALSE, ~ ok, "none")
  <2>1. /\ task' \in {"sleeping", "dead"}
        /\ faults' \in Nat
        /\ task' = "sleeping" => row'.running /\ RowOK(row', evidence)
        /\ task' = "dead" => row' = row
    BY <1>1, <1>4, CompletedRow DEF Waiting, Trips
  <2> QED
    BY <1>1, <1>2, <2>1
    DEF HeartbeatInv, TypeOK, InLoop, Waiting, RowIsConsistent, VerifiedIsDecided,
        LiveMeansRunning, RowOK
<1> QED
  BY <1>2, <1>3, <1>4

\* Assessed keeps the invariant: a decision brings its own round trip.
LEMMA AssessedStep == HeartbeatInv /\ Assessed => HeartbeatInv'
<1> SUFFICES ASSUME HeartbeatInv, Assessed PROVE HeartbeatInv'
  OBVIOUS
<1>1. task = "assessing" /\ UNCHANGED <<kafka, process, stopping, previous, core_ok>>
  BY DEF Assessed
<1>2. PICK t \in RoundTrip, decided \in BOOLEAN, failed \in BOOLEAN :
         /\ trip' = t
         /\ Complete(decided, ~ core_ok \/ failed, t)
         /\ evidence' = IF decided /\ task' # "dead" THEN t ELSE evidence
  BY DEF Assessed
<1>3. t \in Trips /\ (~ core_ok \/ failed) \in BOOLEAN
  BY DEF RoundTrip, Trips
<1>4. /\ task' \in {"sleeping", "dead"}
      /\ faults' \in Nat
      /\ task' = "sleeping" => row'.running /\ RowOK(row', IF decided THEN t ELSE evidence)
      /\ task' = "dead" => row' = row
  BY <1>1, <1>2, <1>3, CompletedRow DEF Waiting
<1> QED
  BY <1>1, <1>2, <1>3, <1>4
  DEF HeartbeatInv, TypeOK, InLoop, Waiting, RowIsConsistent, VerifiedIsDecided,
      LiveMeansRunning, RowOK

\* CycleRaises keeps the invariant: the label stays, and so does its evidence.
LEMMA RaisedStep == HeartbeatInv /\ CycleRaises => HeartbeatInv'
<1> SUFFICES ASSUME HeartbeatInv, CycleRaises PROVE HeartbeatInv'
  OBVIOUS
<1>1. task \in Waiting /\ UNCHANGED <<kafka, process, stopping, previous, core_ok, evidence>>
  BY DEF CycleRaises
<1>2. trip' \in Trips
  BY DEF CycleRaises, RoundTrip, Trips, HeartbeatInv, TypeOK
<1>3. Commit(Written(TRUE, row.stream, "degraded"), "sleeping")
  BY DEF CycleRaises
<1>4. previous = row /\ row \in Row /\ row.stream \in Streams
  BY <1>1 DEF HeartbeatInv, TypeOK, Row
<1>5. LET w == Written(TRUE, row.stream, "degraded") IN
      /\ w \in Row
      /\ w.cycles = w.last_success_at + w.consecutive_failures
      /\ w.last_error <=> w.consecutive_failures > 0
      /\ w.running
      /\ w.stream = row.stream
  BY <1>4, WrittenRow DEF HeartbeatInv, RowIsConsistent, Outcomes
<1>6. \/ RowOK(row', evidence) /\ row'.running /\ task' = "sleeping" /\ UNCHANGED faults
      \/ row' = row /\ task' = "dead" /\ faults' = faults + 1
  <2> DEFINE w == Written(TRUE, row.stream, "degraded")
  <2>1. \/ row' = w /\ task' = "sleeping" /\ UNCHANGED faults
        \/ row' = row /\ task' = "dead" /\ faults' = faults + 1
    BY <1>3 DEF Commit
  <2>2. RowOK(w, evidence) /\ w.running
    BY <1>5 DEF RowOK, HeartbeatInv, VerifiedIsDecided
  <2> HIDE DEF w
  <2> QED
    BY <2>1, <2>2
<1> QED
  BY <1>1, <1>2, <1>6
  DEF HeartbeatInv, TypeOK, InLoop, Waiting, RowIsConsistent, VerifiedIsDecided, LiveMeansRunning, RowOK

\* Start and LeaveLoop change nothing of the row but "running".
LEMMA MarkStep == HeartbeatInv /\ (Start \/ LeaveLoop) => HeartbeatInv'
<1> SUFFICES ASSUME HeartbeatInv, Start \/ LeaveLoop PROVE HeartbeatInv'
  OBVIOUS
<1> DEFINE on == [row EXCEPT !.running = TRUE]
           off == [row EXCEPT !.running = FALSE]
<1>1. RowOK(on, evidence) /\ on.running /\ RowOK(off, evidence) /\ RowOK(row, evidence)
  BY DEF HeartbeatInv, TypeOK, Row, RowOK, RowIsConsistent, VerifiedIsDecided
<1>2. \/ UNCHANGED <<row, previous>> /\ task' \in {"none", "dead"}
      \/ row' = row /\ previous' = row /\ task' = "dead"
      \/ row' = on /\ previous' = on /\ task' = "gathering"
      \/ row' = off /\ UNCHANGED previous /\ task' = "ended"
  BY DEF Start, LeaveLoop, Commit
<1>3. /\ process' \in {"down", "up"}
      /\ faults' \in Nat
      /\ kafka' \in KafkaSettings
      /\ UNCHANGED <<stopping, core_ok, trip, evidence>>
  BY DEF Start, LeaveLoop, Commit, HeartbeatInv, TypeOK
<1> HIDE DEF on, off
<1>4. /\ RowOK(row', evidence)
      /\ previous' \in Row
      /\ task' \in InLoop \cup {"none", "ended", "dead"}
      /\ task' \in InLoop => row'.running
      /\ task' \in Waiting => previous' = row'
  BY <1>1, <1>2 DEF RowOK, InLoop, Waiting, HeartbeatInv, TypeOK
<1> QED
  BY <1>3, <1>4
  DEF HeartbeatInv, TypeOK, RowIsConsistent, VerifiedIsDecided, LiveMeansRunning, RowOK

\* The steps that leave the table alone.
LEMMA QuietStep ==
    HeartbeatInv /\ (Wake \/ Shutdown \/ Exit \/ Crash \/ UNCHANGED vars) => HeartbeatInv'
<1> SUFFICES ASSUME HeartbeatInv, Wake \/ Shutdown \/ Exit \/ Crash \/ UNCHANGED vars
             PROVE  HeartbeatInv'
  OBVIOUS
<1> USE DEF HeartbeatInv, TypeOK, InLoop, Waiting, RowIsConsistent, VerifiedIsDecided, LiveMeansRunning
<1>1. CASE Wake
  <2>1. task' = "gathering" /\ previous' = row /\ task = "sleeping"
        /\ UNCHANGED <<kafka, row, process, stopping, core_ok, trip, evidence, faults>>
    BY <1>1 DEF Wake
  <2> QED
    BY <2>1
<1>2. CASE Shutdown
  BY <1>2 DEF Shutdown
<1>3. CASE Exit
  BY <1>3 DEF Exit
<1>4. CASE Crash
  <2>1. /\ process' = "down" /\ task' = "none" /\ stopping' = FALSE /\ faults' \in Nat
        /\ UNCHANGED <<kafka, row, previous, core_ok, trip, evidence>>
    BY <1>4 DEF Crash
  <2>2. TypeOK'
    BY <2>1
  <2>3. RowIsConsistent' /\ VerifiedIsDecided'
    BY <2>1
  <2>4. task' \notin InLoop
    BY <2>1
  <2> QED
    BY <2>2, <2>3, <2>4
<1>5. CASE UNCHANGED vars
  BY <1>5 DEF vars
<1> QED
  BY <1>1, <1>2, <1>3, <1>4, <1>5

-----------------------------------------------------------------------------
\* HeartbeatInv holds in every reachable state: the empty table has it, and the
\* steps above keep it.
THEOREM InvariantHolds == Spec => []HeartbeatInv
<1>1. Init => HeartbeatInv
  <2> SUFFICES ASSUME Init PROVE HeartbeatInv
    OBVIOUS
  <2>1. /\ EmptyRow \in Row
        /\ EmptyRow.cycles = EmptyRow.last_success_at + EmptyRow.consecutive_failures
        /\ ~ EmptyRow.last_error /\ EmptyRow.consecutive_failures = 0
        /\ EmptyRow.stream = "none"
    BY DEF EmptyRow, Row, Streams, Outcomes
  <2>2. TypeOK
    BY <2>1 DEF Init, TypeOK, InLoop, Waiting, Trips
  <2>3. RowIsConsistent /\ VerifiedIsDecided
    BY <2>1 DEF Init, RowIsConsistent, VerifiedIsDecided
  <2>4. task \notin InLoop /\ task \notin Waiting
    BY DEF Init, InLoop, Waiting
  <2> QED
    BY <2>2, <2>3, <2>4 DEF HeartbeatInv, LiveMeansRunning
<1>2. HeartbeatInv /\ [Next]_vars => HeartbeatInv'
  BY GatheredStep, AssessedStep, RaisedStep, MarkStep, QuietStep DEF Next, Step
<1> QED
  BY <1>1, <1>2, PTL DEF Spec

\* The table and the heartbeat's own state stay well formed.
THEOREM TypeCorrect == Spec => []TypeOK
<1>1. HeartbeatInv => TypeOK
  BY DEF HeartbeatInv
<1> QED
  BY <1>1, InvariantHolds, PTL

\* For any number of cycles, failures, cancellations and restarts: the cycle
\* count is the last success plus the failures since.
THEOREM CountersAgree == Spec => []RowIsConsistent
<1>1. HeartbeatInv => RowIsConsistent
  BY DEF HeartbeatInv
<1> QED
  BY <1>1, InvariantHolds, PTL

\* The table never claims a verification that the latest recorded decision
\* does not carry.
THEOREM VerificationIsEarned == Spec => []VerifiedIsDecided
<1>1. HeartbeatInv => VerifiedIsDecided
  BY DEF HeartbeatInv
<1> QED
  BY <1>1, InvariantHolds, PTL

\* While the task is in its loop the table says "running", across a restart
\* that follows a cancelled cycle or a crash.
THEOREM BeatingIsShown == Spec => []LiveMeansRunning
<1>1. HeartbeatInv => LiveMeansRunning
  BY DEF HeartbeatInv
<1> QED
  BY <1>1, InvariantHolds, PTL

-----------------------------------------------------------------------------
(* What no step takes away.  A cycle writes the whole row, so that each of *)
(* these rests on the row it replaces being the one it has read.           *)

\* There is a task only where there is a process.
Backed == process = "down" => task = "none"

LEMMA BackedHolds == Spec => []Backed
<1>1. Init => Backed
  BY DEF Init, Backed
<1>2. Backed /\ [Next]_vars => Backed'
  <2> SUFFICES ASSUME Backed, [Next]_vars PROVE Backed'
    OBVIOUS
  <2>1. CASE UNCHANGED process /\ task # "none"
    BY <2>1 DEF Backed
  <2>2. CASE process' = "up" \/ task' = "none"
    BY <2>2 DEF Backed
  <2>3. CASE Shutdown \/ UNCHANGED vars
    BY <2>3 DEF Backed, Shutdown, vars
  <2> QED
    BY <2>1, <2>2, <2>3
    DEF Next, Step, Gathered, Assessed, CycleRaises, Wake, LeaveLoop, Start, Exit, Crash, Waiting
<1> QED
  BY <1>1, <1>2, PTL DEF Spec

\* What RecordIsHonest says of a step: what it keeps of the counters, ...
Keeps(state) ==
    /\ state.cycles \in {row.cycles, row.cycles + 1}
    /\ state.last_success_at >= row.last_success_at

\* ... and what the row it writes says of the round trips.
Honest ==
    /\ (task = "assessing" /\ task' = "sleeping" /\ trip' = "degraded") => row'.last_error
    /\ (row.stream # "verified" /\ row'.stream = "verified") => trip' = "verified"
    /\ (row.stream = "verified" /\ task = "gathering" /\ kafka) => row'.stream = "verified"

\* A row computed by a cycle counts it and takes no success back.
LEMMA WrittenKeeps ==
    ASSUME HeartbeatInv, task \in Waiting, NEW error \in BOOLEAN, NEW stream, NEW outcome
    PROVE  Keeps(Written(error, stream, outcome))
<1>1. previous = row /\ row \in Row
  BY DEF HeartbeatInv, TypeOK
<1>2. row.cycles \in Nat /\ row.last_success_at \in Nat /\ row.last_success_at <= row.cycles
  BY <1>1 DEF HeartbeatInv, RowIsConsistent, Row
<1> QED
  BY <1>1, <1>2 DEF Written, Keeps

\* A row that stays keeps all.
LEMMA SameRowKeeps == HeartbeatInv => Keeps(row)
<1> SUFFICES ASSUME HeartbeatInv PROVE Keeps(row)
  OBVIOUS
<1>1. row.cycles \in Nat /\ row.last_success_at \in Nat
  BY DEF HeartbeatInv, TypeOK, Row
<1> QED
  BY <1>1 DEF Keeps

\* What a cycle that completes has written, unless its commit failed: an error if
\* its round trip was degraded, and the label of that round trip or the old one.
LEMMA CompletedIsHonest ==
    ASSUME HeartbeatInv, task \in Waiting,
           NEW decided \in BOOLEAN, NEW error \in BOOLEAN, NEW t \in Trips,
           decided \/ error \/ t # "degraded",
           t = "degraded" => kafka,
           Complete(decided, error, t)
    PROVE  /\ Keeps(row')
           /\ \/ row' = row /\ task' = "dead"
              \/ /\ t = "degraded" => row'.last_error
                 /\ row'.stream = StreamOf(decided, t)
<1> DEFINE stream == StreamOf(decided, t)
           failed == error \/ stream = "degraded"
           outcome == IF decided THEN "decided" ELSE "no_new_events"
           w == Written(failed, stream, outcome)
<1>1. Commit(w, "sleeping")
  BY DEF Complete
<1>2. failed \in BOOLEAN
  OBVIOUS
<1>3. t = "degraded" => failed
  BY DEF StreamOf
<1> HIDE DEF stream, failed, outcome
<1>4. Keeps(w) /\ w.last_error = failed /\ w.stream = stream
  BY <1>2, WrittenKeeps DEF Written
<1> HIDE DEF w
<1>5. CASE row' = w
  BY <1>3, <1>4, <1>5 DEF stream
<1>6. CASE row' = row /\ task' = "dead"
  BY <1>6, SameRowKeeps
<1> QED
  BY <1>1, <1>5, <1>6 DEF Commit

\* Every step of the heartbeat, of the lifespan hook and of a fault leaves an
\* honest record.
LEMMA StepIsHonest ==
    ASSUME HeartbeatInv, [Next]_vars
    PROVE  Keeps(row') /\ Honest
<1>1. CASE Gathered
  <2>1. task = "gathering" /\ task \in Waiting /\ previous = row
    BY <1>1 DEF Gathered, Waiting, HeartbeatInv
  <2>2. PICK ok \in BOOLEAN : row' = row \/ Complete(FALSE, ~ ok, "none")
    BY <1>1 DEF Gathered
  <2>3. CASE row' = row
    BY <2>1, <2>3, SameRowKeeps DEF Honest
  <2>4. CASE Complete(FALSE, ~ ok, "none")
    <3>1. Keeps(row') /\ (row' = row \/ row'.stream = StreamOf(FALSE, "none"))
      BY <2>1, <2>4, CompletedIsHonest DEF Trips
    <3>2. kafka /\ row.stream = "verified" <=> StreamOf(FALSE, "none") = "verified"
      BY <2>1 DEF StreamOf
    <3> QED
      BY <2>1, <3>1, <3>2 DEF Honest
  <2> QED
    BY <2>2, <2>3, <2>4
<1>2. CASE Assessed
  <2>1. task = "assessing" /\ task \in Waiting /\ previous = row /\ kafka \in BOOLEAN
    BY <1>2, HeartbeatAssumption DEF Assessed, Waiting, HeartbeatInv, TypeOK
  <2>2. PICK t \in RoundTrip, decided \in BOOLEAN, failed \in BOOLEAN :
          /\ decided \/ failed
          /\ trip' = t
          /\ Complete(decided, ~ core_ok \/ failed, t)
    BY <1>2 DEF Assessed
  <2>3. t \in Trips /\ (t = "degraded" => kafka) /\ (~ core_ok \/ failed) \in BOOLEAN
    BY DEF RoundTrip, Trips
  <2>4. /\ Keeps(row')
        /\ \/ row' = row /\ task' = "dead"
           \/ /\ t = "degraded" => row'.last_error
              /\ row'.stream = StreamOf(decided, t)
    BY <2>1, <2>2, <2>3, CompletedIsHonest
  <2>5. StreamOf(decided, t) = "verified" => t = "verified" \/ row.stream = "verified"
    BY <2>1 DEF StreamOf
  <2> QED
    BY <2>1, <2>2, <2>4, <2>5 DEF Honest
<1>3. CASE CycleRaises
  <2> DEFINE w == Written(TRUE, row.stream, "degraded")
  <2>1. task \in Waiting /\ ((row' = row /\ task' = "dead") \/ row' = w)
    BY <1>3 DEF CycleRaises, Commit
  <2>2. Keeps(w) /\ w.last_error /\ w.stream = row.stream
    BY <2>1, WrittenKeeps DEF Written
  <2> HIDE DEF w
  <2> QED
    BY <2>1, <2>2, SameRowKeeps DEF Honest
<1>4. CASE Start \/ LeaveLoop
  <2>1. /\ row' \in {row, [row EXCEPT !.running = TRUE], [row EXCEPT !.running = FALSE]}
        /\ task # "assessing" \/ task' # "sleeping"
    BY <1>4 DEF Start, LeaveLoop, Commit
  <2>2. row \in Row
    BY DEF HeartbeatInv, TypeOK
  <2>3. /\ row'.cycles = row.cycles /\ row'.last_success_at = row.last_success_at
        /\ row'.stream = row.stream
        /\ row.cycles \in Nat /\ row.last_success_at \in Nat
    BY <2>1, <2>2 DEF Row
  <2> QED
    BY <2>1, <2>3 DEF Keeps, Honest
<1>5. CASE Wake \/ Shutdown \/ Exit \/ Crash \/ UNCHANGED vars
  <2>1. row' = row /\ (task # "assessing" \/ task' # "sleeping")
    BY <1>5 DEF Wake, Shutdown, Exit, Crash, vars
  <2> QED
    BY <2>1, SameRowKeeps DEF Honest
<1> QED
  BY <1>1, <1>2, <1>3, <1>4, <1>5 DEF Next, Step

\* For any number of cycles, faults and restarts, with a broker or without:
\* cycles are counted one by one, no success is taken back, a cycle whose round
\* trip was degraded is recorded as failed, and "verified" appears only with a
\* verified round trip and stays over quiet polls.
THEOREM RecordStays == Spec => RecordIsHonest
<1>1. HeartbeatInv /\ [Next]_vars =>
        [/\ row'.cycles \in {row.cycles, row.cycles + 1}
         /\ row'.last_success_at >= row.last_success_at
         /\ (task = "assessing" /\ task' = "sleeping" /\ trip' = "degraded") => row'.last_error
         /\ (row.stream # "verified" /\ row'.stream = "verified") => trip' = "verified"
         /\ (row.stream = "verified" /\ task = "gathering" /\ kafka) => row'.stream = "verified"]_vars
  BY StepIsHonest DEF Keeps, Honest
<1> QED
  BY <1>1, InvariantHolds, PTL DEF Spec, RecordIsHonest

\* Whatever a cycle meets, only a stop, a death or a failed commit takes the
\* heartbeat out of its loop.
THEOREM LoopIsLeftOnPurpose == Spec => LoopGoesOn
<1>1. TypeOK /\ Backed /\ [Next]_vars =>
        [(task \in InLoop /\ task' \notin InLoop) => (stopping \/ faults' > faults)]_vars
  <2> SUFFICES ASSUME TypeOK, Backed, Next, task \in InLoop, task' \notin InLoop, ~ stopping
               PROVE  faults' > faults
    OBVIOUS
  <2>1. faults \in Nat
    BY DEF TypeOK
  <2>2. CASE Gathered
    <3>1. PICK ok \in BOOLEAN : task' = "assessing" \/ Complete(FALSE, ~ ok, "none")
      BY <2>2 DEF Gathered
    <3>2. ASSUME Complete(FALSE, ~ ok, "none") PROVE task' = "sleeping" \/ faults' = faults + 1
      BY <3>2 DEF Complete, Commit
    <3>3. task' \in {"assessing", "sleeping"} \/ faults' = faults + 1
      BY <3>1, <3>2
    <3> QED
      BY <2>1, <3>3 DEF InLoop, Waiting
  <2>3. CASE Assessed
    <3>1. PICK t \in RoundTrip, decided \in BOOLEAN, failed \in BOOLEAN :
            Complete(decided, ~ core_ok \/ failed, t)
      BY <2>3 DEF Assessed
    <3>2. task' = "sleeping" \/ faults' = faults + 1
      BY <3>1 DEF Complete, Commit
    <3> QED
      BY <2>1, <3>2 DEF InLoop, Waiting
  <2>4. CASE CycleRaises
    <3>1. task' = "sleeping" \/ faults' = faults + 1
      BY <2>4 DEF CycleRaises, Commit
    <3> QED
      BY <2>1, <3>1 DEF InLoop, Waiting
  <2>5. CASE Start
    BY <2>5 DEF Start, Backed, InLoop, Waiting
  <2>6. CASE Crash
    BY <2>1, <2>6 DEF Crash
  <2> QED
    BY <2>2, <2>3, <2>4, <2>5, <2>6 DEF Next, Step, Wake, LeaveLoop, Shutdown, Exit, InLoop, Waiting
<1> QED
  BY <1>1, TypeCorrect, BackedHolds, PTL DEF Spec, LoopGoesOn
=============================================================================
