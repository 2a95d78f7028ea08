----------------------------- MODULE KafkaStream -----------------------------
(***************************************************************************)
(* The round trip of new events through Kafka: stream_events in            *)
(* app/service.py over EventBus in app/streaming/kafka.py.                 *)
(*                                                                         *)
(* Every assessment publishes its events and then opens a consumer of its  *)
(* own, but all consumers join the same group, so that they share one      *)
(* committed offset and only one of them is assigned the topic (one        *)
(* partition).  publish and consume run in worker threads: the steps of    *)
(* two round trips interleave record by record.                            *)
(*                                                                         *)
(* The probe endpoint uses a topic and group of its own and does not       *)
(* appear.  Record contents are left out, but for whether they decode.     *)
(***************************************************************************)
EXTENDS Naturals, Sequences, FiniteSets

CONSTANTS
    Events,      \* event identifiers
    Runs,        \* assessments that can be streaming at once
    NoOne,       \* owner of an unassigned partition
    Malformed,   \* a record that does not decode
    MaxRead,     \* max_records: 100, or four times what the run published
    MaxRecords,  \* bound: records handed to the topic
    MaxFaults    \* bound: broker faults and process deaths

ASSUME StreamAssumption ==
    /\ NoOne \notin Runs
    /\ Malformed \notin Events
    /\ IsFiniteSet(Events)
    /\ MaxRead \in Nat \ {0}
    /\ MaxRecords \in Nat
    /\ MaxFaults \in Nat

VARIABLES
    log,        \* broker: the records of the topic
    committed,  \* broker: the group's offset, how many records are done with
    owner,      \* broker: the consumer the partition is assigned to
    unsettled,  \* broker: members came or went since the last assignment
    stray,      \* records of a producer that was given up, still on their way
    reader,     \* volatile: the round trips under way
    outcome,    \* how the latest round trip of each run ended
    handed,     \* history: how often each record was handed to a consumer
    unacked,    \* history: records handed out whose commit did not return
    sent,       \* records handed to producers
    faults

vars == <<log, committed, owner, unsettled, stray, reader, outcome,
          handed, unacked, sent, faults>>

\* from, history: the group's offset when this round trip began; company,
\* history: another round trip was under way at some time during this.
Reader ==
    [stage : {"idle", "publishing", "reading"}, wanted : SUBSET Events,
     unsent : SUBSET Events, got : SUBSET Events, count : 0 .. (MaxRead - 1),
     position : Nat, held : BOOLEAN, from : Nat, company : BOOLEAN]
Fresh(stage, batch, from, company) ==
    [stage |-> stage, wanted |-> batch, unsent |-> batch, got |-> {}, count |-> 0,
     position |-> 0, held |-> FALSE, from |-> from, company |-> company]
Idle == Fresh("idle", {}, 0, FALSE)

\* full: the reader stopped at max_records; fault: at a fault of the broker.
Outcome ==
    [status : {"none", "verified", "degraded", "raised"}, wanted : SUBSET Events,
     from : Nat, company : BOOLEAN, full : BOOLEAN, fault : BOOLEAN]

TypeOK ==
    /\ log \in Seq(Events \cup {Malformed})
    /\ committed \in Nat
    /\ owner \in Runs \cup {NoOne}
    /\ unsettled \in BOOLEAN
    /\ stray \subseteq Events
    /\ reader \in [Runs -> Reader]
    /\ outcome \in [Runs -> Outcome]
    /\ handed \in Seq(Nat)
    /\ unacked \in Nat
    /\ sent \in Nat
    /\ faults \in Nat

Busy(r)   == reader[r].stage # "idle"
Member(r) == reader[r].stage = "reading"

Init ==
    /\ log = << >>
    /\ committed = 0
    /\ owner = NoOne
    /\ unsettled = FALSE
    /\ stray = {}
    /\ reader = [r \in Runs |-> Idle]
    /\ outcome = [r \in Runs |-> [status |-> "none", wanted |-> {}, from |-> 0,
                                  company |-> FALSE, full |-> FALSE, fault |-> FALSE]]
    /\ handed = << >>
    /\ unacked = 0
    /\ sent = 0
    /\ faults = 0

Fault == faults < MaxFaults /\ faults' = faults + 1

-----------------------------------------------------------------------------
(* How a round trip ends.                                                  *)

\* "verified" only if everything published was read back by this reader.
Verdict(r) == IF reader[r].wanted \subseteq reader[r].got THEN "verified" ELSE "degraded"

\* consumer.close(), if it got that far: the member leaves, the partition waits
\* for another one.
Leave(r) ==
    /\ reader' = [reader EXCEPT ![r] = Idle]
    /\ owner' = IF owner = r THEN NoOne ELSE owner
    /\ unsettled' = IF Member(r) THEN \E x \in Runs \ {r} : Member(x) ELSE unsettled

Finish(r, status, full, fault) ==
    /\ Leave(r)
    /\ outcome' = [outcome EXCEPT ![r] =
           [status |-> status, wanted |-> reader[r].wanted, from |-> reader[r].from,
            company |-> reader[r].company, full |-> full, fault |-> fault]]

-----------------------------------------------------------------------------
(* publish.                                                                *)

\* stream_events with something to stream: a producer of its own.
Begin(r, batch) ==
    /\ ~ Busy(r)
    /\ batch # {}
    /\ sent + Cardinality(batch) <= MaxRecords
    /\ sent' = sent + Cardinality(batch)
    /\ reader' = [x \in Runs |->
           IF x = r THEN Fresh("publishing", batch, committed, \E y \in Runs : Busy(y))
           ELSE IF Busy(x) THEN [reader[x] EXCEPT !.company = TRUE]
           ELSE reader[x]]
    /\ UNCHANGED <<log, committed, owner, unsettled, stray, outcome, handed, unacked, faults>>

Arrives(record) ==
    /\ log' = Append(log, record)
    /\ handed' = Append(handed, 0)

\* A record of the batch is acknowledged by the broker.
Publish(r) ==
    \E e \in reader[r].unsent :
        /\ Arrives(e)
        /\ reader' = [reader EXCEPT ![r].unsent = @ \ {e}]
        /\ UNCHANGED <<committed, owner, unsettled, stray, outcome, unacked, sent, faults>>

\* Connecting or waiting for an acknowledgement fails: KafkaUnavailable, reported
\* as nothing published, though some records are in the topic and others may
\* still reach it.  The producer's send itself raises another exception.
PublishFails(r) ==
    /\ reader[r].stage = "publishing"
    /\ Fault
    /\ \E S \in SUBSET reader[r].unsent : stray' = stray \cup S
    /\ \E status \in {"degraded", "raised"} : Finish(r, status, FALSE, TRUE)
    /\ UNCHANGED <<log, committed, handed, unacked, sent>>

-----------------------------------------------------------------------------
(* consume.                                                                *)

Published(r) == reader[r].stage = "publishing" /\ reader[r].unsent = {}

\* The consumer joins the group; the assignment is now out of date.
Join(r) ==
    /\ Published(r)
    /\ reader' = [reader EXCEPT ![r].stage = "reading"]
    /\ unsettled' = TRUE
    /\ UNCHANGED <<log, committed, owner, stray, outcome, handed, unacked, sent, faults>>

ConnectFails(r) ==
    /\ Published(r)
    /\ Fault
    /\ Finish(r, "degraded", FALSE, TRUE)
    /\ UNCHANGED <<log, committed, stray, handed, unacked, sent>>

\* A record is handed to the loop, which decodes it and keeps it if it does;
\* the commit is still to come.  Records of other runs are read and dropped.
Take(r) ==
    LET k == reader[r].position + 1 IN
    /\ Member(r)
    /\ owner = r
    /\ ~ reader[r].held
    /\ k <= Len(log)
    /\ reader' = [reader EXCEPT ![r].position = k, ![r].held = TRUE,
                                ![r].got = @ \cup ({log[k]} \cap reader[r].wanted)]
    /\ handed' = [handed EXCEPT ![k] = @ + 1]
    /\ UNCHANGED <<log, committed, owner, unsettled, stray, outcome, unacked, sent, faults>>

\* Malformed records are committed and skipped; they do not count.
CountOf(r) == reader[r].count + IF log[reader[r].position] = Malformed THEN 0 ELSE 1

\* Mutant of Commit: the limit is tested before the commit, which the last
\* record then misses.
CommitShort(r) ==
    /\ reader[r].held
    /\ \/ /\ CountOf(r) < MaxRead
          /\ committed' = reader[r].position
          /\ reader' = [reader EXCEPT ![r].held = FALSE, ![r].count = CountOf(r)]
          /\ UNCHANGED <<owner, unsettled, outcome>>
       \/ /\ CountOf(r) >= MaxRead
          /\ Finish(r, Verdict(r), TRUE, FALSE)
          /\ UNCHANGED committed
    /\ UNCHANGED <<log, stray, handed, unacked, sent, faults>>

\* consumer.commit() after each record, and the end at max_records.
Commit(r) ==
    /\ reader[r].held
    /\ committed' = reader[r].position
    /\ \/ /\ CountOf(r) < MaxRead
          /\ reader' = [reader EXCEPT ![r].held = FALSE, ![r].count = CountOf(r)]
          /\ UNCHANGED <<owner, unsettled, outcome>>
       \/ /\ CountOf(r) >= MaxRead
          /\ Finish(r, Verdict(r), TRUE, FALSE)
    /\ UNCHANGED <<log, stray, handed, unacked, sent, faults>>

\* The commit raises, applied or not: no KafkaUnavailable, so it leaves
\* stream_events as well.
CommitFails(r) ==
    /\ reader[r].held
    /\ Fault
    /\ committed' \in {committed, reader[r].position}
    /\ unacked' = unacked + 1
    /\ Finish(r, "raised", FALSE, TRUE)
    /\ UNCHANGED <<log, stray, handed, sent>>

\* Mutant of Quiet: no consumer_timeout_ms, the reader waits for its own records.
QuietWhenDone(r) ==
    /\ Member(r)
    /\ ~ reader[r].held
    /\ reader[r].wanted \subseteq reader[r].got
    /\ Finish(r, Verdict(r), FALSE, FALSE)
    /\ UNCHANGED <<log, committed, stray, handed, unacked, sent, faults>>

\* consumer_timeout_ms without a record: the topic is read to its end, or the
\* partition belongs to another consumer.
Quiet(r) ==
    /\ Member(r)
    /\ ~ reader[r].held
    /\ \/ owner = r /\ reader[r].position = Len(log)
       \/ owner \notin {r, NoOne}
    /\ Finish(r, Verdict(r), FALSE, FALSE)
    /\ UNCHANGED <<log, committed, stray, handed, unacked, sent, faults>>

\* The same timeout although a record could have come (a slow broker, a group
\* that still waits for a member that has died), or an error of the client in
\* the middle of the loop, which leaves stream_events.
PollFails(r) ==
    /\ Member(r)
    /\ ~ reader[r].held
    /\ Fault
    /\ \E status \in {Verdict(r), "raised"} : Finish(r, status, FALSE, TRUE)
    /\ UNCHANGED <<log, committed, stray, handed, unacked, sent>>

-----------------------------------------------------------------------------
(* The broker, other producers, and the process.                           *)

\* Mutant of Settle: auto_offset_reset is "latest": so that a group without an
\* offset starts at the end of the topic.
SettleLatest ==
    /\ unsettled
    /\ \A r \in Runs : ~ reader[r].held
    /\ \E r \in Runs :
         /\ Member(r)
         /\ owner' = r
         /\ reader' = [reader EXCEPT ![r].position =
                           IF committed = 0 THEN Len(log) ELSE committed]
    /\ unsettled' = FALSE
    /\ UNCHANGED <<log, committed, stray, outcome, handed, unacked, sent, faults>>

\* Mutant of Settle: the group keeps no offset, every reader starts at the
\* beginning of the topic.
SettleEarliest ==
    /\ unsettled
    /\ \A r \in Runs : ~ reader[r].held
    /\ \E r \in Runs :
         /\ Member(r)
         /\ owner' = r
         /\ reader' = [reader EXCEPT ![r].position = 0]
    /\ unsettled' = FALSE
    /\ UNCHANGED <<log, committed, stray, outcome, handed, unacked, sent, faults>>

\* The group assigns the partition to one member, which starts at the group's
\* offset.  A member rejoins between records, never while it holds one; that it
\* is thrown out of the group while it does is a commit that fails.
Settle ==
    /\ unsettled
    /\ \A r \in Runs : ~ reader[r].held
    /\ \E r \in Runs :
         /\ Member(r)
         /\ owner' = r
         /\ reader' = [reader EXCEPT ![r].position = committed]
    /\ unsettled' = FALSE
    /\ UNCHANGED <<log, committed, stray, outcome, handed, unacked, sent, faults>>

StrayArrives ==
    \E e \in stray :
        /\ Arrives(e)
        /\ stray' = stray \ {e}
        /\ UNCHANGED <<committed, owner, unsettled, reader, outcome, unacked, sent, faults>>

\* Somebody else writes a record to the topic that does not decode.
ForeignRecord ==
    /\ sent < MaxRecords
    /\ sent' = sent + 1
    /\ Arrives(Malformed)
    /\ UNCHANGED <<committed, owner, unsettled, stray, reader, outcome, unacked, faults>>

\* The process dies: round trips vanish, records on their way may arrive.
Crash ==
    /\ Fault
    /\ \E S \in SUBSET UNION {reader[r].unsent : r \in Runs} : stray' = stray \cup S
    /\ reader' = [r \in Runs |-> Idle]
    /\ owner' = NoOne
    /\ unsettled' = FALSE
    /\ unacked' = unacked + IF \E r \in Runs : reader[r].held THEN 1 ELSE 0
    /\ UNCHANGED <<log, committed, outcome, handed, sent>>

Step(r) ==
    \/ Publish(r) \/ PublishFails(r) \/ Join(r) \/ ConnectFails(r) \/ Take(r)
    \/ Commit(r) \/ CommitFails(r) \/ Quiet(r) \/ PollFails(r)

Next ==
    \/ \E r \in Runs, batch \in SUBSET Events : Begin(r, batch)
    \/ \E r \in Runs : Step(r)
    \/ Settle \/ StrayArrives \/ ForeignRecord \/ Crash

Spec == Init /\ [][Next]_vars

\* The client's timeouts end each wait of a thread, and the group assigns its
\* partition while it has members.
FairSpec == Spec /\ (\A r \in Runs : WF_vars(Step(r))) /\ WF_vars(Settle)

-----------------------------------------------------------------------------
(* Properties.                                                             *)

\* The group's offset never passes a record that no consumer has been handed:
\* no event is skipped by commits, exceptions and reassignments.
NothingSkipped == \A k \in 1 .. committed : handed[k] > 0

\* A record is handed out again only after a commit that did not return.
RereadNeedsFailure == \A k \in DOMAIN handed : handed[k] <= 1 + unacked

\* A verified round trip has read each of its events after it began, in a record
\* the group was not done with then and is done with now: nothing read by an
\* earlier round trip vouches for it.  Records are matched by event only, as in
\* stream_events: that of an earlier round trip that failed counts, and the
\* record this one sent may then still be ahead of the offset.
VerifiedIsRead ==
    \A r \in Runs : outcome[r].status = "verified" =>
        outcome[r].wanted \subseteq {log[k] : k \in (outcome[r].from + 1) .. committed}

\* A round trip that nothing interfered with is verified: one reported degraded
\* had company in the group, met a fault, or stopped at max_records.
DegradedIsExplained ==
    \A r \in Runs : outcome[r].status = "degraded" =>
        outcome[r].company \/ outcome[r].full \/ outcome[r].fault

\* How far the group had got by what reader r has done.
Mark(r) == IF reader[r].held THEN reader[r].position ELSE committed

\* Only the owner holds a record, the next one of the group; what a reader has
\* got is between where it began and its mark; without company what it wants is
\* got, on its way to the topic, or ahead of the mark.
ReaderOK(r) ==
    /\ reader[r].held => /\ owner = r
                         /\ reader[r].position = committed + 1
                         /\ reader[r].position \in DOMAIN handed
                         /\ handed[reader[r].position] > 0
    /\ owner = r => /\ Member(r)
                    /\ ~ reader[r].held => reader[r].position = committed
    /\ reader[r].stage # "publishing" => reader[r].unsent = {}
    /\ reader[r].from <= committed
    /\ \A e \in reader[r].got : \E k \in (reader[r].from + 1) .. Mark(r) : log[k] = e
    /\ Busy(r) /\ ~ reader[r].company =>
         /\ \A x \in Runs \ {r} : ~ Busy(x)
         /\ \A e \in reader[r].wanted \ (reader[r].unsent \cup reader[r].got) :
              \E k \in (Mark(r) + 1) .. Len(log) : log[k] = e

\* Beyond the group's offset, only the record that is held has been handed out
\* without a commit that failed.
HandedOnce ==
    \A k \in DOMAIN handed :
        k <= committed \/ handed[k] <= unacked
        \/ \E r \in Runs : reader[r].held /\ reader[r].position = k

\* The inductive invariant of the proofs.
StreamInv ==
    /\ TypeOK
    /\ Len(handed) = Len(log)
    /\ committed <= Len(log)
    /\ \A r \in Runs : ReaderOK(r)
    /\ HandedOnce
    /\ NothingSkipped
    /\ RereadNeedsFailure
    /\ VerifiedIsRead
    /\ DegradedIsExplained

\* The topic as the queue it is to all round trips together.
Queue == INSTANCE GroupQueue WITH
    Records <- Events \cup {Malformed},
    done <- committed,
    out <- \E r \in Runs : reader[r].held,
    failures <- unacked

\* However consumers join, leave, time out, fail and die, the group reads the
\* topic as one reader with one place in it would.
ReadsAsOneQueue == Queue!Spec

\* No assessment is held up for ever by its round trip.
RoundTripEnds == \A r \in Runs : Busy(r) ~> ~ Busy(r)

\* Does not hold.  docs/SPOKEN_SYSTEM_GUIDE.md: the events are consumed "through
\* an isolated consumer group": two round trips do not take each other's records,
\* so that one is degraded by the broker or by a backlog only.
DegradedMeansBroker ==
    \A r \in Runs : outcome[r].status = "degraded" => outcome[r].full \/ outcome[r].fault
=============================================================================
