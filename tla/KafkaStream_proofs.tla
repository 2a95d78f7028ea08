-------------------------- MODULE KafkaStream_proofs --------------------------
(***************************************************************************)
(* Proofs about the round trip, for any number of readers and events, any  *)
(* limit of records and any number of faults.  Six actions end a round     *)
(* trip; what they have in common is the lemma Finishes.                   *)
(***************************************************************************)
EXTENDS KafkaStream, FiniteSetTheorems, TLAPS

\* What a round trip starts with and ends as.
LEMMA FreshReader ==
    ASSUME NEW batch \in SUBSET Events, NEW stage \in {"idle", "publishing"},
           NEW from \in Nat, NEW company \in BOOLEAN
    PROVE  Fresh(stage, batch, from, company) \in Reader
<1>1. 0 \in 0 .. (MaxRead - 1)
  BY StreamAssumption
<1> QED
  BY <1>1 DEF Fresh, Reader

\* A reader that is alone is left alone by whatever another, busy reader does.
LEMMA BusyHasCompany ==
    ASSUME StreamInv, NEW r \in Runs, NEW x \in Runs, x # r, Busy(r), Busy(x)
    PROVE  reader[x].company
BY DEF StreamInv, ReaderOK

\* The held record is its reader's alone, and the group's next one.
LEMMA HeldIsOwners ==
    ASSUME StreamInv, NEW r \in Runs, reader[r].held
    PROVE  /\ Member(r)
           /\ reader[r].position = committed + 1
           /\ reader[r].position \in DOMAIN handed
           /\ handed[reader[r].position] > 0
           /\ \A x \in Runs \ {r} : ~ reader[x].held /\ owner # x
BY DEF StreamInv, ReaderOK

\* A round trip that ends keeps the invariant if it commits at most what it
\* holds, accounts for what it does not commit, and reports honestly.
LEMMA Finishes ==
    ASSUME StreamInv, NEW r \in Runs, Busy(r),
           NEW status \in {"verified", "degraded", "raised"},
           NEW full \in BOOLEAN, NEW fault \in BOOLEAN,
           Finish(r, status, full, fault),
           UNCHANGED <<log, handed>>,
           stray' \subseteq Events, sent' \in Nat, faults' \in Nat,
           unacked' \in Nat, unacked' >= unacked,
           committed' = committed \/ (reader[r].held /\ committed' = reader[r].position),
           reader[r].held => committed' = reader[r].position \/ unacked' > unacked,
           status = "verified" =>
               reader[r].wanted \subseteq reader[r].got /\ committed' = Mark(r),
           status = "degraded" => reader[r].company \/ full \/ fault
    PROVE  StreamInv'
<1> USE StreamAssumption
<1>1. /\ reader' = [reader EXCEPT ![r] = Idle]
      /\ owner' = IF owner = r THEN NoOne ELSE owner
      /\ unsettled' \in BOOLEAN
      /\ outcome' = [outcome EXCEPT ![r] =
             [status |-> status, wanted |-> reader[r].wanted, from |-> reader[r].from,
              company |-> reader[r].company, full |-> full, fault |-> fault]]
  BY DEF Finish, Leave, StreamInv, TypeOK
<1>2. /\ committed \in Nat /\ committed' \in Nat /\ committed <= committed'
      /\ committed' <= Len(log)
      /\ \A k \in 1 .. committed' : handed[k] > 0
      /\ log \in Seq(Events \cup {Malformed}) /\ handed \in Seq(Nat) /\ Len(handed) = Len(log)
  BY HeldIsOwners DEF StreamInv, TypeOK, NothingSkipped
<1>3. TypeOK'
  <2>1. Idle \in Reader
    BY FreshReader DEF Idle
  <2>2. reader[r] \in Reader
    BY DEF StreamInv, TypeOK
  <2>3. outcome' \in [Runs -> Outcome]
    BY <1>1, <2>2 DEF Outcome, Reader, StreamInv, TypeOK
  <2> QED
    BY <1>1, <1>2, <2>1, <2>3 DEF StreamInv, TypeOK
<1>4. ReaderOK(r)'
  BY <1>1 DEF ReaderOK, Idle, Fresh, Busy, Member, Mark, StreamInv, TypeOK
<1>5. ASSUME NEW x \in Runs, x # r PROVE ReaderOK(x)'
  <2>1. reader'[x] = reader[x] /\ ReaderOK(x)
    BY <1>1, <1>5 DEF StreamInv, TypeOK
  <2>2. owner' = x <=> owner = x
    BY <1>1, <1>5
  <2>3. (reader[x].held \/ owner = x) => committed' = committed
    BY <1>5, HeldIsOwners
  <2>4. Busy(x) => reader[x].company
    BY <1>5, BusyHasCompany
  <2>5. Mark(x)' = IF reader[x].held THEN reader[x].position ELSE committed'
    BY <2>1 DEF Mark
  <2>6. /\ reader[x].from <= committed'
        /\ \A e \in reader[x].got : \E k \in (reader[x].from + 1) .. Mark(x)' : log[k] = e
    <3>1. reader[x].from \in Nat
      BY DEF StreamInv, TypeOK, Reader
    <3> QED
      BY <1>2, <2>1, <2>5, <3>1 DEF ReaderOK, Mark
  <2> QED
    BY <1>1, <2>1, <2>2, <2>3, <2>4, <2>6 DEF ReaderOK, Busy, Member
<1>6. HandedOnce'
  <2> SUFFICES ASSUME NEW k \in DOMAIN handed, k > committed', handed[k] > unacked'
               PROVE  \E x \in Runs : reader'[x].held /\ reader'[x].position = k
    BY <1>2 DEF HandedOnce
  <2>1. k \in Nat /\ handed[k] \in Nat /\ k > committed /\ handed[k] > unacked
    BY <1>2 DEF StreamInv, TypeOK
  <2>2. PICK x \in Runs : reader[x].held /\ reader[x].position = k
    <3>1. HandedOnce
      BY DEF StreamInv
    <3> QED
      BY <1>2, <2>1, <3>1 DEF HandedOnce, StreamInv, TypeOK
  <2>3. x # r
    <3> SUFFICES ASSUME x = r PROVE FALSE
      OBVIOUS
    <3>1. unacked' > unacked
      BY <1>2, <2>1, <2>2
    <3>2. handed[k] <= 1 + unacked
      BY DEF StreamInv, RereadNeedsFailure
    <3> QED
      BY <2>1, <3>1, <3>2 DEF StreamInv, TypeOK
  <2> QED
    BY <1>1, <2>2, <2>3 DEF StreamInv, TypeOK
<1>7. NothingSkipped' /\ RereadNeedsFailure'
  BY <1>2 DEF NothingSkipped, RereadNeedsFailure, StreamInv, TypeOK
<1>8. VerifiedIsRead'
  <2> SUFFICES ASSUME NEW x \in Runs, outcome'[x].status = "verified", NEW e \in outcome'[x].wanted
               PROVE  \E k \in (outcome'[x].from + 1) .. committed' : log[k] = e
    BY DEF VerifiedIsRead
  <2>1. CASE x = r
    <3>1. status = "verified" /\ e \in reader[r].wanted /\ outcome'[x].from = reader[r].from
      BY <1>1, <2>1 DEF StreamInv, TypeOK
    <3> QED
      BY <3>1 DEF StreamInv, ReaderOK
  <2>2. CASE x # r
    <3>1. outcome'[x] = outcome[x]
      BY <1>1, <2>2 DEF StreamInv, TypeOK
    <3>2. \E k \in (outcome[x].from + 1) .. committed : log[k] = e
      BY <3>1 DEF StreamInv, VerifiedIsRead
    <3>3. outcome[x].from \in Nat
      BY DEF StreamInv, TypeOK, Outcome
    <3> QED
      BY <1>2, <3>1, <3>2, <3>3
  <2> QED
    BY <2>1, <2>2
<1>9. DegradedIsExplained'
  BY <1>1 DEF DegradedIsExplained, StreamInv, TypeOK
<1> QED
  BY <1>2, <1>3, <1>4, <1>5, <1>6, <1>7, <1>8, <1>9 DEF StreamInv

-----------------------------------------------------------------------------
(* The steps that end a round trip.                                        *)

\* A fault of the broker before anything is read, or a wait without a record:
\* no record is held and the offset stays.
LEMMA EndsEmptyHanded ==
    ASSUME StreamInv, NEW r \in Runs,
           PublishFails(r) \/ ConnectFails(r) \/ Quiet(r) \/ PollFails(r)
    PROVE  StreamInv'
<1> USE StreamAssumption
<1>1. PICK full \in BOOLEAN, fault \in BOOLEAN, status \in {"verified", "degraded", "raised"} :
        /\ Finish(r, status, full, fault)
        /\ status = "verified" => status = Verdict(r) /\ Member(r)
        /\ fault \/ (Quiet(r) /\ status = Verdict(r))
  BY DEF PublishFails, ConnectFails, Quiet, PollFails, Verdict
<1>2. /\ Busy(r) /\ ~ reader[r].held
      /\ UNCHANGED <<log, committed, handed, unacked, sent>>
      /\ stray' \subseteq Events /\ faults' \in Nat /\ sent' \in Nat /\ unacked' \in Nat
  <2>1. reader[r].unsent \subseteq Events
    BY DEF StreamInv, TypeOK, Reader
  <2>2. reader[r].stage = "publishing" => ~ reader[r].held
    BY HeldIsOwners DEF Member
  <2>3. faults \in Nat /\ sent \in Nat /\ unacked \in Nat /\ stray \subseteq Events
    BY DEF StreamInv, TypeOK
  <2>4. CASE PublishFails(r)
    BY <2>1, <2>2, <2>3, <2>4 DEF PublishFails, Fault, Busy
  <2>5. CASE ConnectFails(r)
    BY <2>2, <2>3, <2>5 DEF ConnectFails, Fault, Published, Busy
  <2>6. CASE Quiet(r)
    BY <2>3, <2>6 DEF Quiet, Busy, Member
  <2>7. CASE PollFails(r)
    BY <2>3, <2>7 DEF PollFails, Fault, Busy, Member
  <2> QED
    BY <2>4, <2>5, <2>6, <2>7
<1>3. status = "degraded" => reader[r].company \/ full \/ fault
  <2> SUFFICES ASSUME Quiet(r), Verdict(r) = "degraded", ~ reader[r].company PROVE FALSE
    BY <1>1
  <2>1. PICK e \in reader[r].wanted : e \notin reader[r].got
    BY DEF Verdict
  <2>2. Member(r) /\ Busy(r) /\ reader[r].unsent = {} /\ ReaderOK(r)
    BY DEF Quiet, Member, Busy, StreamInv, ReaderOK
  <2>3. \E k \in (committed + 1) .. Len(log) : log[k] = e
    BY <1>2, <2>1, <2>2 DEF ReaderOK, Mark
  <2>4. CASE owner = r /\ reader[r].position = Len(log)
    BY <1>2, <2>2, <2>3, <2>4 DEF ReaderOK, StreamInv, TypeOK
  <2>5. CASE owner \notin {r, NoOne}
    <3>1. owner \in Runs \ {r} /\ ReaderOK(owner)
      BY <2>5 DEF StreamInv, TypeOK
    <3>2. Busy(owner)
      BY <3>1 DEF ReaderOK, Busy, Member
    <3> QED
      BY <2>2, <3>1, <3>2 DEF ReaderOK
  <2> QED
    BY <2>4, <2>5 DEF Quiet
<1>4. status = "verified" =>
        reader[r].wanted \subseteq reader[r].got /\ committed' = Mark(r)
  BY <1>1, <1>2 DEF Verdict, Mark
<1>5. unacked \in Nat
  BY DEF StreamInv, TypeOK
<1> QED
  BY <1>1, <1>2, <1>3, <1>4, <1>5, Finishes

\* The reader stops at its limit, its last record committed.
LEMMA EndsFull ==
    ASSUME StreamInv, NEW r \in Runs, reader[r].held,
           committed' = reader[r].position, Finish(r, Verdict(r), TRUE, FALSE),
           UNCHANGED <<log, stray, handed, unacked, sent, faults>>
    PROVE  StreamInv'
<1>1. Busy(r)
  BY HeldIsOwners DEF Member, Busy
<1>2. Verdict(r) \in {"verified", "degraded"}
      /\ (Verdict(r) = "verified" => reader[r].wanted \subseteq reader[r].got)
      /\ Mark(r) = reader[r].position
  BY DEF Verdict, Mark
<1>3. /\ stray' \subseteq Events /\ sent' \in Nat /\ faults' \in Nat /\ unacked' \in Nat
      /\ unacked' >= unacked
  BY DEF StreamInv, TypeOK
<1> QED
  BY <1>1, <1>2, <1>3, Finishes

\* A commit that raises ends the assessment, applied or not.
LEMMA EndsRaised ==
    ASSUME StreamInv, NEW r \in Runs, CommitFails(r)
    PROVE  StreamInv'
<1>1. /\ Busy(r)
      /\ reader[r].held
      /\ Finish(r, "raised", FALSE, TRUE)
      /\ UNCHANGED <<log, handed>>
      /\ committed' = committed \/ committed' = reader[r].position
  BY HeldIsOwners DEF CommitFails, Member, Busy
<1>2. /\ stray' \subseteq Events /\ sent' \in Nat /\ faults' \in Nat /\ unacked' \in Nat
      /\ unacked' > unacked /\ unacked' >= unacked
  BY DEF StreamInv, TypeOK, CommitFails, Fault
<1> QED
  BY <1>1, <1>2, Finishes

-----------------------------------------------------------------------------
(* The steps of publishing.                                                *)

\* A record that arrives is at the end, not yet handed out, and moves nothing
\* before it.
LEMMA Arrival ==
    ASSUME StreamInv, NEW record \in Events \cup {Malformed}, Arrives(record)
    PROVE  /\ log' \in Seq(Events \cup {Malformed}) /\ handed' \in Seq(Nat)
           /\ Len(log) \in Nat /\ Len(log') = Len(log) + 1 /\ Len(handed') = Len(log')
           /\ DOMAIN handed = 1 .. Len(log) /\ DOMAIN handed' = 1 .. (Len(log) + 1)
           /\ \A k \in 1 .. Len(log) : log'[k] = log[k] /\ handed'[k] = handed[k]
           /\ log'[Len(log) + 1] = record /\ handed'[Len(log) + 1] = 0
BY DEF Arrives, StreamInv, TypeOK

\* Nothing about the group or a reader's own reading changes when a record
\* arrives and readers wait for no more than they did, or than that record.
LEMMA ArrivalStep ==
    ASSUME StreamInv, NEW record \in Events \cup {Malformed}, Arrives(record),
           reader' \in [Runs -> Reader],
           \A x \in Runs : \/ reader'[x] = reader[x]
                           \/ /\ reader[x].stage = "publishing"
                              /\ reader'[x] = [reader[x] EXCEPT !.unsent = @ \ {record}],
           stray' \subseteq Events, sent' \in Nat,
           UNCHANGED <<committed, owner, unsettled, outcome, unacked, faults>>
    PROVE  StreamInv'
<1>1. /\ log' \in Seq(Events \cup {Malformed}) /\ handed' \in Seq(Nat)
      /\ Len(log) \in Nat /\ Len(log') = Len(log) + 1 /\ Len(handed') = Len(log')
      /\ DOMAIN handed = 1 .. Len(log) /\ DOMAIN handed' = 1 .. (Len(log) + 1)
      /\ \A k \in 1 .. Len(log) : log'[k] = log[k] /\ handed'[k] = handed[k]
      /\ log'[Len(log) + 1] = record /\ handed'[Len(log) + 1] = 0
  BY Arrival
<1>2. committed \in Nat /\ committed <= Len(log) /\ unacked \in Nat
  BY DEF StreamInv, TypeOK
<1>3. TypeOK'
  BY <1>1 DEF StreamInv, TypeOK
<1>4. ASSUME NEW x \in Runs
      PROVE  /\ reader'[x].stage = reader[x].stage
             /\ reader'[x].held = reader[x].held
             /\ reader'[x].position = reader[x].position
             /\ reader'[x].got = reader[x].got
             /\ reader'[x].wanted = reader[x].wanted
             /\ reader'[x].company = reader[x].company
             /\ reader'[x].from = reader[x].from
             /\ reader'[x].unsent \subseteq reader[x].unsent
             /\ reader[x].unsent \subseteq reader'[x].unsent \cup {record}
             /\ Mark(x)' = Mark(x) /\ Mark(x) \in Nat /\ Mark(x) <= Len(log)
  <2>1. reader[x] \in Reader /\ ReaderOK(x)
    BY DEF StreamInv, TypeOK
  <2>2. \/ reader'[x] = reader[x]
        \/ reader'[x] = [reader[x] EXCEPT !.unsent = @ \ {record}]
    OBVIOUS
  <2>3. Mark(x) \in Nat /\ Mark(x) <= Len(log)
    BY <1>1, <1>2, <2>1 DEF Mark, ReaderOK, Reader
  <2> QED
    BY <2>1, <2>2, <2>3 DEF Reader, Mark
<1>5. ASSUME NEW x \in Runs PROVE ReaderOK(x)'
  <2>1. ReaderOK(x) /\ reader[x].unsent \subseteq Events
    BY DEF StreamInv, TypeOK, Reader
  <2>2. /\ reader[x].from \in Nat
        /\ reader[x].from <= committed
        /\ \A e \in reader[x].got : \E k \in (reader[x].from + 1) .. Mark(x) : log'[k] = e
    <3>1. reader[x].from \in Nat
      BY DEF StreamInv, TypeOK, Reader
    <3>2. Mark(x) \in Nat /\ Mark(x) <= Len(log)
      BY <1>4
    <3>3. ASSUME NEW e \in reader[x].got
          PROVE  \E k \in (reader[x].from + 1) .. Mark(x) : log'[k] = e
      <4>1. PICK k \in (reader[x].from + 1) .. Mark(x) : log[k] = e
        BY <2>1 DEF ReaderOK
      <4>2. k \in 1 .. Len(log)
        BY <1>1, <3>1, <3>2, <4>1
      <4> QED
        BY <1>1, <4>1, <4>2
    <3> QED
      BY <2>1, <3>1, <3>3 DEF ReaderOK
  <2>3. ASSUME Busy(x), ~ reader[x].company
        PROVE  /\ \A y \in Runs \ {x} : ~ Busy(y)'
               /\ \A e \in reader[x].wanted \ (reader'[x].unsent \cup reader[x].got) :
                    \E k \in (Mark(x) + 1) .. Len(log') : log'[k] = e
    <3>1. \A y \in Runs \ {x} : ~ Busy(y)'
      BY <1>4, <2>1, <2>3 DEF ReaderOK, Busy
    <3>2. ASSUME NEW e \in reader[x].wanted \ (reader'[x].unsent \cup reader[x].got)
          PROVE  \E k \in (Mark(x) + 1) .. Len(log') : log'[k] = e
      <4>1. CASE e = record
        BY <1>1, <1>4, <4>1
      <4>2. CASE e # record
        <5>1. e \notin reader[x].unsent
          BY <1>4, <4>2, <3>2
        <5>2. PICK k \in (Mark(x) + 1) .. Len(log) : log[k] = e
          BY <2>1, <2>3, <3>2, <5>1 DEF ReaderOK
        <5> QED
          BY <1>1, <1>4, <5>2
      <4> QED
        BY <4>1, <4>2
    <3> QED
      BY <3>1, <3>2
  <2>4. reader'[x].stage # "publishing" => reader'[x].unsent = {}
    BY <1>4, <2>1 DEF ReaderOK
  <2>5. reader[x].held => /\ owner = x
                          /\ reader[x].position = committed + 1
                          /\ reader[x].position \in DOMAIN handed'
                          /\ handed'[reader[x].position] > 0
    BY <1>1, <2>1 DEF ReaderOK
  <2>6. owner = x => /\ Member(x)
                     /\ ~ reader[x].held => reader[x].position = committed
    BY <2>1 DEF ReaderOK
  <2> QED
    BY <1>4, <2>2, <2>3, <2>4, <2>5, <2>6 DEF ReaderOK, Busy, Member
<1>6. HandedOnce'
  <2> SUFFICES ASSUME NEW k \in 1 .. (Len(log) + 1), k > committed, handed'[k] > unacked
               PROVE  \E x \in Runs : reader'[x].held /\ reader'[x].position = k
    BY <1>1, <1>2 DEF HandedOnce, TypeOK
  <2>1. k \in 1 .. Len(log) /\ handed[k] > unacked
    BY <1>1, <1>2
  <2>2. HandedOnce /\ handed[k] \in Nat
    BY <1>1, <2>1 DEF StreamInv, TypeOK
  <2>3. PICK x \in Runs : reader[x].held /\ reader[x].position = k
    BY <1>1, <1>2, <2>1, <2>2 DEF HandedOnce
  <2> QED
    BY <1>4, <2>3
<1>7. NothingSkipped' /\ RereadNeedsFailure'
  <2>1. ASSUME NEW k \in 1 .. committed PROVE handed'[k] > 0
    <3>1. k \in 1 .. Len(log) /\ handed[k] > 0
      BY <1>1, <1>2 DEF StreamInv, NothingSkipped
    <3> QED
      BY <1>1, <3>1
  <2>2. ASSUME NEW k \in DOMAIN handed' PROVE handed'[k] <= 1 + unacked
    <3>1. CASE k = Len(log) + 1
      BY <1>1, <1>2, <3>1
    <3>2. CASE k \in 1 .. Len(log)
      <4>1. handed[k] <= 1 + unacked
        BY <1>1, <3>2 DEF StreamInv, RereadNeedsFailure
      <4> QED
        BY <1>1, <3>2, <4>1
    <3> QED
      BY <1>1, <3>1, <3>2
  <2> QED
    BY <2>1, <2>2 DEF NothingSkipped, RereadNeedsFailure
<1>8. VerifiedIsRead' /\ DegradedIsExplained'
  <2>1. \A k \in 1 .. committed : log'[k] = log[k]
    BY <1>1, <1>2
  <2>2. \A x \in Runs : outcome[x].from \in Nat
    BY DEF StreamInv, TypeOK, Outcome
  <2>3. VerifiedIsRead'
    <3> SUFFICES ASSUME NEW x \in Runs, outcome[x].status = "verified", NEW e \in outcome[x].wanted
                 PROVE  \E k \in (outcome[x].from + 1) .. committed : log'[k] = e
      BY DEF VerifiedIsRead
    <3>1. PICK k \in (outcome[x].from + 1) .. committed : log[k] = e
      BY DEF StreamInv, VerifiedIsRead
    <3> QED
      BY <1>2, <2>1, <2>2, <3>1
  <2> QED
    BY <2>3 DEF StreamInv, DegradedIsExplained
<1> QED
  BY <1>1, <1>2, <1>3, <1>5, <1>6, <1>7, <1>8 DEF StreamInv

\* Publish, StrayArrives and ForeignRecord are arrivals.
LEMMA ArrivingSteps ==
    ASSUME StreamInv, (\E r \in Runs : Publish(r)) \/ StrayArrives \/ ForeignRecord
    PROVE  StreamInv'
<1>1. ASSUME NEW r \in Runs, Publish(r) PROVE StreamInv'
  <2>1. PICK e \in reader[r].unsent :
          /\ Arrives(e)
          /\ reader' = [reader EXCEPT ![r].unsent = @ \ {e}]
          /\ UNCHANGED <<committed, owner, unsettled, stray, outcome, unacked, sent, faults>>
    BY <1>1 DEF Publish
  <2>2. e \in Events /\ reader[r] \in Reader
    BY DEF StreamInv, TypeOK, Reader
  <2>3. reader' \in [Runs -> Reader]
    BY <2>1, <2>2 DEF StreamInv, TypeOK, Reader
  <2>4. reader[r].stage = "publishing"
    BY <2>1, <2>2 DEF StreamInv, ReaderOK, Member, Reader, Busy
  <2>5. \A x \in Runs : \/ reader'[x] = reader[x]
                        \/ /\ reader[x].stage = "publishing"
                           /\ reader'[x] = [reader[x] EXCEPT !.unsent = @ \ {e}]
    BY <2>1, <2>4 DEF StreamInv, TypeOK
  <2>6. stray' \subseteq Events /\ sent' \in Nat
    BY <2>1 DEF StreamInv, TypeOK
  <2> QED
    BY <2>1, <2>2, <2>3, <2>5, <2>6, ArrivalStep
<1>2. CASE StrayArrives
  <2>1. PICK e \in stray : /\ Arrives(e)
                           /\ stray' = stray \ {e}
                           /\ UNCHANGED <<committed, owner, unsettled, reader, outcome,
                                          unacked, sent, faults>>
    BY <1>2 DEF StrayArrives
  <2>2. e \in Events /\ stray' \subseteq Events /\ sent' \in Nat /\ reader' \in [Runs -> Reader]
    BY <2>1 DEF StreamInv, TypeOK
  <2> QED
    BY <2>1, <2>2, ArrivalStep
<1>3. CASE ForeignRecord
  <2>1. /\ Arrives(Malformed)
        /\ UNCHANGED <<committed, owner, unsettled, stray, reader, outcome, unacked, faults>>
        /\ stray' \subseteq Events /\ sent' \in Nat /\ reader' \in [Runs -> Reader]
    BY <1>3 DEF ForeignRecord, StreamInv, TypeOK
  <2> QED
    BY <2>1, ArrivalStep
<1> QED
  BY <1>1, <1>2, <1>3

\* Begin: the new round trip and those under way now have company; alone, it
\* has everything it wants still to send.
LEMMA BeginStep ==
    ASSUME StreamInv, NEW r \in Runs, NEW batch \in SUBSET Events, Begin(r, batch)
    PROVE  StreamInv'
<1> USE StreamAssumption
<1> DEFINE some == \E y \in Runs : Busy(y)
           new == Fresh("publishing", batch, committed, some)
<1>1. /\ ~ Busy(r)
      /\ reader' = [x \in Runs |-> IF x = r THEN new
                                  ELSE IF Busy(x) THEN [reader[x] EXCEPT !.company = TRUE]
                                  ELSE reader[x]]
      /\ UNCHANGED <<log, committed, owner, unsettled, stray, outcome, handed, unacked, faults>>
  BY DEF Begin
<1>2. some \in BOOLEAN
  OBVIOUS
<1>3. /\ new \in Reader
      /\ new.stage = "publishing" /\ new.wanted = batch /\ new.unsent = batch
      /\ new.got = {} /\ new.company = some /\ ~ new.held
      /\ new.from = committed
  <2> HIDE DEF some
  <2>1. committed \in Nat
    BY DEF StreamInv, TypeOK
  <2> QED
    BY <1>2, <2>1, FreshReader DEF Fresh
<1>4. sent' \in Nat
  <2>1. Cardinality(batch) \in Nat
    BY FS_Subset, FS_CardinalityType
  <2>2. sent \in Nat /\ sent' = sent + Cardinality(batch)
    BY DEF Begin, StreamInv, TypeOK
  <2> QED
    BY <2>1, <2>2
<1> HIDE DEF new
<1>5. ~ reader[r].held /\ owner # r
  BY <1>1, HeldIsOwners DEF Busy, Member, StreamInv, ReaderOK
<1>6. ASSUME NEW x \in Runs, x # r
      PROVE  /\ reader'[x] \in Reader
             /\ reader'[x].stage = reader[x].stage
             /\ reader'[x].held = reader[x].held
             /\ reader'[x].position = reader[x].position
             /\ reader'[x].got = reader[x].got
             /\ reader'[x].unsent = reader[x].unsent
             /\ reader'[x].from = reader[x].from
             /\ Busy(x) => reader'[x].company
  <2>1. reader[x] \in Reader
    BY DEF StreamInv, TypeOK
  <2> QED
    BY <1>1, <1>6, <2>1 DEF Reader
<1>7. TypeOK'
  BY <1>1, <1>3, <1>4, <1>6 DEF StreamInv, TypeOK
<1>8. ReaderOK(r)'
  <2>1. reader'[r] = new
    BY <1>1
  <2>2. ~ new.company => \A x \in Runs \ {r} : ~ Busy(x)'
    BY <1>3, <1>6 DEF Busy
  <2>3. new.from <= committed'
    <3>1. committed \in Nat
      BY DEF StreamInv, TypeOK
    <3> QED
      BY <1>1, <1>3, <3>1
  <2> QED
    BY <1>1, <1>3, <1>5, <2>1, <2>2, <2>3 DEF ReaderOK
<1>9. ASSUME NEW x \in Runs, x # r PROVE ReaderOK(x)'
  <2>1. ReaderOK(x)
    BY DEF StreamInv
  <2>2. Mark(x)' = Mark(x)
    BY <1>1, <1>6, <1>9 DEF Mark
  <2> QED
    BY <1>1, <1>6, <1>9, <2>1, <2>2 DEF ReaderOK, Busy, Member
<1>10. HandedOnce'
  BY <1>1, <1>5, <1>6 DEF HandedOnce, StreamInv
<1> QED
  BY <1>1, <1>7, <1>8, <1>9, <1>10
  DEF StreamInv, NothingSkipped, RereadNeedsFailure, VerifiedIsRead, DegradedIsExplained

-----------------------------------------------------------------------------
(* The steps of reading.                                                   *)

\* What a step of one reader leaves true of the others: alone or not, they see
\* nothing of it while the group's offset stays or they hold nothing.
LEMMA OthersKeep ==
    ASSUME StreamInv, NEW r \in Runs, Busy(r), NEW x \in Runs, x # r,
           reader'[x] = reader[x], owner' = owner, log' = log,
           \A k \in DOMAIN handed : handed'[k] >= handed[k] /\ handed'[k] \in Nat,
           DOMAIN handed' = DOMAIN handed,
           committed' \in Nat, committed' >= committed,
           committed' # committed => owner = r
    PROVE  ReaderOK(x)'
<1>1. ReaderOK(x) /\ committed \in Nat /\ handed \in Seq(Nat)
  BY DEF StreamInv, TypeOK
<1>2. Busy(x) => reader[x].company
  BY BusyHasCompany
<1>3. (reader[x].held \/ owner = x) => committed' = committed
  BY <1>1 DEF ReaderOK
<1>4. Mark(x)' = IF reader[x].held THEN reader[x].position ELSE committed'
  BY DEF Mark
<1>5. /\ reader[x].from <= committed'
      /\ \A e \in reader[x].got : \E k \in (reader[x].from + 1) .. Mark(x)' : log[k] = e
  <2>1. reader[x].from \in Nat
    BY DEF StreamInv, TypeOK, Reader
  <2> QED
    BY <1>1, <1>3, <1>4, <2>1 DEF ReaderOK, Mark
<1>6. reader[x].held => handed'[reader[x].position] > 0
  BY <1>1 DEF ReaderOK
<1> QED
  BY <1>1, <1>2, <1>3, <1>5, <1>6 DEF ReaderOK, Busy, Member

\* Join changes nothing that has been read.
LEMMA JoinStep == ASSUME StreamInv, NEW r \in Runs, Join(r) PROVE StreamInv'
<1>1. /\ reader' = [reader EXCEPT ![r].stage = "reading"]
      /\ unsettled' = TRUE
      /\ UNCHANGED <<log, committed, owner, stray, outcome, handed, unacked, sent, faults>>
      /\ reader[r].stage = "publishing" /\ reader[r].unsent = {} /\ Busy(r)
      /\ reader[r] \in Reader
  BY DEF Join, Published, Busy, StreamInv, TypeOK
<1>2. reader'[r] = [reader[r] EXCEPT !.stage = "reading"] /\ reader'[r] \in Reader
  BY <1>1 DEF StreamInv, TypeOK, Reader
<1>3. TypeOK'
  BY <1>1, <1>2 DEF StreamInv, TypeOK
<1>4. ASSUME NEW x \in Runs, x # r PROVE ReaderOK(x)'
  <2>1. reader'[x] = reader[x] /\ committed \in Nat /\ \A k \in DOMAIN handed : handed[k] \in Nat
    BY <1>1, <1>4 DEF StreamInv, TypeOK
  <2> QED
    BY <1>1, <1>4, <2>1, OthersKeep
<1>5. ASSUME NEW x \in Runs
      PROVE  /\ reader'[x].held = reader[x].held /\ reader'[x].position = reader[x].position
             /\ reader'[x].got = reader[x].got /\ reader'[x].wanted = reader[x].wanted
             /\ reader'[x].unsent = reader[x].unsent /\ reader'[x].company = reader[x].company
             /\ reader'[x].from = reader[x].from
             /\ Busy(x)' = Busy(x)
             /\ Mark(x)' = Mark(x)
  BY <1>1, <1>2 DEF StreamInv, TypeOK, Reader, Mark, Busy
<1>6. ReaderOK(r)'
  <2>1. ReaderOK(r) /\ Member(r)'
    BY <1>1, <1>2 DEF StreamInv, Member, Reader
  <2> QED
    BY <1>1, <1>5, <2>1 DEF ReaderOK
<1>7. HandedOnce'
  BY <1>1, <1>5 DEF HandedOnce, StreamInv
<1> QED
  BY <1>1, <1>3, <1>4, <1>6, <1>7
  DEF StreamInv, NothingSkipped, RereadNeedsFailure, VerifiedIsRead, DegradedIsExplained

\* Take: the owner is handed the record after the group's offset, for the first
\* time unless a commit has failed.
LEMMA TakeStep == ASSUME StreamInv, NEW r \in Runs, Take(r) PROVE StreamInv'
<1> DEFINE k == reader[r].position + 1
<1>1. /\ Member(r) /\ Busy(r) /\ owner = r /\ ~ reader[r].held /\ k <= Len(log)
      /\ reader' = [reader EXCEPT ![r].position = k, ![r].held = TRUE,
                                  ![r].got = @ \cup ({log[k]} \cap reader[r].wanted)]
      /\ handed' = [handed EXCEPT ![k] = @ + 1]
      /\ UNCHANGED <<log, committed, owner, unsettled, stray, outcome, unacked, sent, faults>>
  BY DEF Take, Member, Busy
<1>2. /\ ReaderOK(r) /\ reader[r] \in Reader
      /\ committed \in Nat /\ unacked \in Nat
      /\ Len(handed) = Len(log) /\ handed \in Seq(Nat) /\ Len(log) \in Nat
  BY DEF StreamInv, TypeOK
<1>3. k = committed + 1 /\ k \in DOMAIN handed
  BY <1>1, <1>2 DEF ReaderOK
<1> HIDE DEF k
<1>4. /\ handed' \in Seq(Nat) /\ Len(handed') = Len(handed) /\ DOMAIN handed' = DOMAIN handed
      /\ handed'[k] = handed[k] + 1 /\ handed[k] \in Nat
      /\ \A j \in DOMAIN handed : j # k => handed'[j] = handed[j]
  BY <1>1, <1>2, <1>3
<1>5. /\ reader'[r] \in Reader
      /\ reader'[r] = [reader[r] EXCEPT !.position = k, !.held = TRUE,
                                        !.got = @ \cup ({log[k]} \cap reader[r].wanted)]
      /\ reader' \in [Runs -> Reader]
  <2>1. reader'[r] = [reader[r] EXCEPT !.position = k, !.held = TRUE,
                                      !.got = @ \cup ({log[k]} \cap reader[r].wanted)]
    BY <1>1 DEF StreamInv, TypeOK
  <2> DEFINE g == reader[r].got \cup ({log[k]} \cap reader[r].wanted)
  <2>2. g \in SUBSET Events /\ k \in Nat
    BY <1>2, <1>3 DEF Reader
  <2>3. reader'[r] = [reader[r] EXCEPT !.position = k, !.held = TRUE, !.got = g]
    BY <1>2, <2>1 DEF Reader
  <2> HIDE DEF g
  <2>4. reader'[r] \in Reader
    BY <1>2, <2>2, <2>3 DEF Reader
  <2> QED
    BY <1>1, <2>1, <2>4 DEF StreamInv, TypeOK
<1>6. ASSUME NEW x \in Runs, x # r
      PROVE  /\ reader'[x] = reader[x]
             /\ ReaderOK(x)'
             /\ ~ reader[x].held
  <2>1. reader'[x] = reader[x] /\ \A j \in DOMAIN handed : handed'[j] >= handed[j] /\ handed'[j] \in Nat
    BY <1>1, <1>2, <1>4, <1>6 DEF StreamInv, TypeOK
  <2>2. /\ owner' = owner /\ log' = log /\ DOMAIN handed' = DOMAIN handed
        /\ committed' \in Nat /\ committed' >= committed /\ committed' = committed
    BY <1>1, <1>2, <1>4
  <2>4. ReaderOK(x)'
    BY <1>1, <1>6, <2>1, <2>2, OthersKeep
  <2>3. ~ reader[x].held
    BY <1>1, <1>6 DEF StreamInv, ReaderOK
  <2> QED
    BY <2>1, <2>3, <2>4
<1>7. ReaderOK(r)'
  <2>1. /\ reader'[r].stage = reader[r].stage /\ reader'[r].unsent = reader[r].unsent
        /\ reader'[r].wanted = reader[r].wanted /\ reader'[r].company = reader[r].company
        /\ reader'[r].held /\ reader'[r].position = k
        /\ reader'[r].got = reader[r].got \cup ({log[k]} \cap reader[r].wanted)
        /\ reader'[r].from = reader[r].from /\ reader[r].from \in Nat
        /\ Mark(r) = committed /\ Mark(r)' = k
    BY <1>1, <1>2, <1>5 DEF Reader, Mark
  <2>2. /\ reader[r].from <= committed
        /\ \A e \in reader'[r].got : \E j \in (reader[r].from + 1) .. k : log[j] = e
    BY <1>2, <1>3, <2>1 DEF ReaderOK
  <2>3. ASSUME ~ reader[r].company
        PROVE  /\ \A x \in Runs \ {r} : ~ Busy(x)'
               /\ \A e \in reader'[r].wanted \ (reader'[r].unsent \cup reader'[r].got) :
                    \E j \in (k + 1) .. Len(log) : log[j] = e
    <3>1. \A x \in Runs \ {r} : ~ Busy(x)'
      BY <1>1, <1>2, <1>6, <2>3 DEF ReaderOK, Busy
    <3>2. ASSUME NEW e \in reader'[r].wanted \ (reader'[r].unsent \cup reader'[r].got)
          PROVE  \E j \in (k + 1) .. Len(log) : log[j] = e
      <4>1. PICK j \in (committed + 1) .. Len(log) : log[j] = e
        BY <1>1, <1>2, <2>1, <2>3, <3>2 DEF ReaderOK
      <4>2. e # log[k]
        BY <2>1, <3>2
      <4> QED
        BY <1>2, <1>3, <4>1, <4>2
    <3> QED
      BY <3>1, <3>2
  <2>4. handed'[k] > 0 /\ k \in DOMAIN handed' /\ k = committed' + 1
    BY <1>1, <1>3, <1>4
  <2>5. reader[r].stage # "publishing" => reader'[r].unsent = {}
    BY <1>2, <2>1 DEF ReaderOK
  <2> QED
    BY <1>1, <2>1, <2>2, <2>3, <2>4, <2>5 DEF ReaderOK, Member
<1>8. HandedOnce'
  <2> SUFFICES ASSUME NEW j \in DOMAIN handed, j > committed, j # k
               PROVE  handed'[j] <= unacked
    BY <1>1, <1>3, <1>4, <1>5 DEF HandedOnce, Reader
  <2>1. \A x \in Runs : ~ reader[x].held
    BY <1>1, <1>6
  <2>2. j \in Nat /\ HandedOnce
    BY <1>2 DEF StreamInv
  <2>3. handed[j] <= unacked
    BY <1>2, <2>1, <2>2 DEF HandedOnce
  <2> QED
    BY <1>4, <2>3
<1>9. RereadNeedsFailure'
  <2>1. handed[k] <= unacked
    <3>1. \A x \in Runs : ~ reader[x].held
      BY <1>1, <1>6
    <3> QED
      BY <1>2, <1>3, <3>1 DEF StreamInv, HandedOnce
  <2>2. ASSUME NEW j \in DOMAIN handed PROVE handed'[j] <= 1 + unacked
    <3>1. handed[j] <= 1 + unacked
      BY DEF StreamInv, RereadNeedsFailure
    <3>2. CASE j = k
      BY <1>2, <1>4, <2>1, <3>2
    <3>3. CASE j # k
      BY <1>4, <3>1, <3>3
    <3> QED
      BY <3>2, <3>3
  <2> QED
    BY <1>1, <1>4, <2>2 DEF RereadNeedsFailure
<1>10. NothingSkipped'
  BY <1>1, <1>2, <1>3, <1>4 DEF NothingSkipped, StreamInv
<1>11. TypeOK'
  BY <1>1, <1>4, <1>5 DEF StreamInv, TypeOK
<1> QED
  BY <1>1, <1>4, <1>6, <1>7, <1>8, <1>9, <1>10, <1>11
  DEF StreamInv, VerifiedIsRead, DegradedIsExplained

\* Commit: the offset follows the record that was held.
LEMMA CommitStep == ASSUME StreamInv, NEW r \in Runs, Commit(r) PROVE StreamInv'
<1>1. /\ reader[r].held
      /\ committed' = reader[r].position
      /\ UNCHANGED <<log, stray, handed, unacked, sent, faults>>
  BY DEF Commit
<1>2. CASE CountOf(r) >= MaxRead /\ Finish(r, Verdict(r), TRUE, FALSE)
  BY <1>1, <1>2, EndsFull
<1>3. CASE /\ CountOf(r) < MaxRead
           /\ reader' = [reader EXCEPT ![r].held = FALSE, ![r].count = CountOf(r)]
           /\ UNCHANGED <<owner, unsettled, outcome>>
  <2>1. /\ Member(r) /\ Busy(r) /\ owner = r /\ reader[r].position = committed + 1
        /\ reader[r].position \in DOMAIN handed /\ handed[reader[r].position] > 0
        /\ ReaderOK(r)
    BY <1>1 DEF StreamInv, ReaderOK, Member, Busy
  <2>2. /\ reader[r] \in Reader /\ committed \in Nat /\ Len(log) \in Nat /\ handed \in Seq(Nat)
        /\ Len(handed) = Len(log) /\ MaxRead \in Nat
    BY StreamAssumption DEF StreamInv, TypeOK
  <2>3. CountOf(r) \in 0 .. (MaxRead - 1)
    BY <1>3, <2>2 DEF CountOf, Reader
  <2>4. /\ reader'[r] = [reader[r] EXCEPT !.held = FALSE, !.count = CountOf(r)]
        /\ reader'[r] \in Reader
        /\ reader' \in [Runs -> Reader]
    BY <1>3, <2>2, <2>3 DEF Reader, StreamInv, TypeOK
  <2>5. committed' = committed + 1 /\ committed' <= Len(log)
    BY <1>1, <2>1, <2>2
  <2>6. ASSUME NEW x \in Runs, x # r
        PROVE  reader'[x] = reader[x] /\ ReaderOK(x)'
    <3>1. reader'[x] = reader[x]
      BY <1>3, <2>6 DEF StreamInv, TypeOK
    <3>2. \A k \in DOMAIN handed : handed'[k] >= handed[k] /\ handed'[k] \in Nat
      BY <1>1, <2>2
    <3>3. /\ owner' = owner /\ log' = log /\ DOMAIN handed' = DOMAIN handed
          /\ committed' \in Nat /\ committed' >= committed
      BY <1>1, <1>3, <2>2, <2>5
    <3> QED
      BY <2>1, <2>6, <3>1, <3>2, <3>3, OthersKeep
  <2>7. ReaderOK(r)'
    <3>1. /\ reader'[r].stage = reader[r].stage /\ reader'[r].unsent = reader[r].unsent
          /\ reader'[r].wanted = reader[r].wanted /\ reader'[r].company = reader[r].company
          /\ ~ reader'[r].held /\ reader'[r].position = reader[r].position
          /\ reader'[r].got = reader[r].got
          /\ reader'[r].from = reader[r].from /\ reader[r].from \in Nat
          /\ Mark(r)' = Mark(r)
      BY <1>1, <2>2, <2>4 DEF Reader, Mark
    <3>2. ~ reader[r].company => \A x \in Runs \ {r} : ~ Busy(x)'
      BY <2>1, <2>6 DEF ReaderOK, Busy
    <3>3. reader[r].from <= committed'
      BY <2>1, <2>2, <2>5, <3>1 DEF ReaderOK
    <3>4. Member(r)' /\ Busy(r)' /\ reader'[r].unsent = {}
      BY <2>1, <3>1 DEF ReaderOK, Member, Busy
    <3>5. \A e \in reader'[r].got : \E k \in (reader'[r].from + 1) .. Mark(r)' : log'[k] = e
      BY <1>1, <2>1, <3>1 DEF ReaderOK
    <3>6. ASSUME ~ reader[r].company
          PROVE  \A e \in reader'[r].wanted \ (reader'[r].unsent \cup reader'[r].got) :
                   \E k \in (Mark(r)' + 1) .. Len(log') : log'[k] = e
      BY <1>1, <2>1, <3>1, <3>6 DEF ReaderOK
    <3> QED
      BY <1>1, <1>3, <3>1, <3>2, <3>3, <3>4, <3>5, <3>6 DEF ReaderOK
  <2>8. HandedOnce'
    <3> SUFFICES ASSUME NEW k \in DOMAIN handed, k > committed + 1
                 PROVE  handed[k] <= unacked
      BY <1>1, <2>2, <2>5 DEF HandedOnce
    <3>1. \A x \in Runs : reader[x].held => reader[x].position = committed + 1
      BY DEF StreamInv, ReaderOK
    <3> QED
      BY <2>2, <3>1 DEF StreamInv, HandedOnce
  <2>9. NothingSkipped'
    BY <1>1, <2>1, <2>2, <2>5 DEF NothingSkipped, StreamInv
  <2>10. TypeOK'
    BY <1>1, <1>3, <2>2, <2>4, <2>5 DEF StreamInv, TypeOK
  <2>11. VerifiedIsRead'
    <3>1. \A x \in Runs : outcome[x].from \in Nat
      BY DEF StreamInv, TypeOK, Outcome
    <3> QED
      BY <1>1, <1>3, <2>2, <2>5, <3>1 DEF StreamInv, VerifiedIsRead
  <2> QED
    BY <1>1, <1>3, <2>5, <2>6, <2>7, <2>8, <2>9, <2>10, <2>11
    DEF StreamInv, RereadNeedsFailure, DegradedIsExplained
<1> QED
  BY <1>2, <1>3 DEF Commit

-----------------------------------------------------------------------------
(* The group and the process.                                              *)

\* Settle: while nothing is held, a new owner starts at the group's offset.
LEMMA SettleStep == ASSUME StreamInv, Settle PROVE StreamInv'
<1>1. PICK r \in Runs : /\ Member(r)
                        /\ owner' = r
                        /\ reader' = [reader EXCEPT ![r].position = committed]
  BY DEF Settle
<1>2. /\ \A x \in Runs : ~ reader[x].held
      /\ unsettled' = FALSE
      /\ UNCHANGED <<log, committed, stray, outcome, handed, unacked, sent, faults>>
      /\ committed \in Nat /\ reader[r] \in Reader
  BY DEF Settle, StreamInv, TypeOK
<1>3. reader'[r] = [reader[r] EXCEPT !.position = committed] /\ reader'[r] \in Reader
  BY <1>1, <1>2 DEF StreamInv, TypeOK, Reader
<1>4. TypeOK'
  BY <1>1, <1>2, <1>3 DEF StreamInv, TypeOK
<1>5. ASSUME NEW x \in Runs
      PROVE  /\ ~ reader'[x].held /\ reader'[x].stage = reader[x].stage
             /\ reader'[x].got = reader[x].got /\ reader'[x].wanted = reader[x].wanted
             /\ reader'[x].unsent = reader[x].unsent /\ reader'[x].company = reader[x].company
             /\ reader'[x].from = reader[x].from
             /\ Mark(x)' = Mark(x)
  BY <1>1, <1>2, <1>3 DEF StreamInv, TypeOK, Reader, Mark
<1>6. ASSUME NEW x \in Runs PROVE ReaderOK(x)'
  <2>1. ReaderOK(x)
    BY DEF StreamInv
  <2>2. owner' = x => Member(x)' /\ reader'[x].position = committed'
    BY <1>1, <1>2, <1>3, <1>5 DEF Reader, Member
  <2>3. ~ reader'[x].held /\ (reader'[x].stage # "publishing" => reader'[x].unsent = {})
    BY <1>5, <2>1 DEF ReaderOK
  <2>4. /\ reader'[x].from <= committed'
        /\ \A e \in reader'[x].got : \E k \in (reader'[x].from + 1) .. Mark(x)' : log'[k] = e
    BY <1>2, <1>5, <2>1 DEF ReaderOK
  <2>5. Busy(x)' /\ ~ reader'[x].company =>
          /\ \A y \in Runs \ {x} : ~ Busy(y)'
          /\ \A e \in reader'[x].wanted \ (reader'[x].unsent \cup reader'[x].got) :
               \E k \in (Mark(x)' + 1) .. Len(log') : log'[k] = e
    BY <1>2, <1>5, <2>1 DEF ReaderOK, Busy
  <2> QED
    BY <2>2, <2>3, <2>4, <2>5 DEF ReaderOK
<1>7. HandedOnce'
  BY <1>2 DEF HandedOnce, StreamInv
<1> QED
  BY <1>2, <1>4, <1>6, <1>7
  DEF StreamInv, NothingSkipped, RereadNeedsFailure, VerifiedIsRead, DegradedIsExplained

\* Crash: every reader is gone; the record one of them held counts as handed
\* out without a commit.
LEMMA CrashStep == ASSUME StreamInv, Crash PROVE StreamInv'
<1> USE StreamAssumption
<1>1. /\ reader' = [r \in Runs |-> Idle]
      /\ owner' = NoOne /\ unsettled' = FALSE
      /\ UNCHANGED <<log, committed, outcome, handed, sent>>
      /\ unacked' = unacked + IF \E r \in Runs : reader[r].held THEN 1 ELSE 0
  BY DEF Crash
<1>2. /\ unacked \in Nat /\ unacked' \in Nat /\ unacked' >= unacked
      /\ (\E r \in Runs : reader[r].held) => unacked' = unacked + 1
      /\ handed \in Seq(Nat)
  BY <1>1 DEF StreamInv, TypeOK
<1>3. TypeOK'
  <2>1. stray' \subseteq Events
    <3>1. \A r \in Runs : reader[r].unsent \subseteq Events
      BY DEF StreamInv, TypeOK, Reader
    <3>2. stray \subseteq Events
      BY DEF StreamInv, TypeOK
    <3> QED
      BY <3>1, <3>2 DEF Crash
  <2>2. faults' \in Nat
    BY DEF Crash, Fault, StreamInv, TypeOK
  <2>3. Idle \in Reader
    BY FreshReader DEF Idle
  <2> QED
    BY <1>1, <1>2, <2>1, <2>2, <2>3 DEF StreamInv, TypeOK
<1>4. \A r \in Runs : ReaderOK(r)'
  <2>1. committed \in Nat
    BY DEF StreamInv, TypeOK
  <2> QED
    BY <1>1, <2>1 DEF ReaderOK, Idle, Fresh, Busy, Member
<1>5. HandedOnce'
  <2> SUFFICES ASSUME NEW k \in DOMAIN handed, ~ k <= committed PROVE handed[k] <= unacked'
    BY <1>1 DEF HandedOnce
  <2>1. handed[k] \in Nat /\ handed[k] <= 1 + unacked
    BY <1>2 DEF StreamInv, RereadNeedsFailure
  <2>2. handed[k] <= unacked \/ \E r \in Runs : reader[r].held
    BY DEF StreamInv, HandedOnce
  <2> QED
    BY <1>2, <2>1, <2>2
<1>6. RereadNeedsFailure'
  BY <1>1, <1>2 DEF StreamInv, RereadNeedsFailure
<1> QED
  BY <1>1, <1>3, <1>4, <1>5, <1>6
  DEF StreamInv, NothingSkipped, VerifiedIsRead, DegradedIsExplained

-----------------------------------------------------------------------------
\* StreamInv holds in every reachable state: with an empty topic and nobody
\* reading it holds, and every step keeps it.
THEOREM InvariantHolds == Spec => []StreamInv
<1>1. Init => StreamInv
  <2> SUFFICES ASSUME Init PROVE StreamInv
    OBVIOUS
  <2> USE DEF Init
  <2>1. Idle \in Reader
    BY FreshReader DEF Idle
  <2>2. TypeOK
    <3>1. [status |-> "none", wanted |-> {}, from |-> 0, company |-> FALSE, full |-> FALSE,
           fault |-> FALSE]
            \in Outcome
      BY DEF Outcome
    <3>2. outcome \in [Runs -> Outcome] /\ reader \in [Runs -> Reader]
      BY <2>1, <3>1
    <3>3. log \in Seq(Events \cup {Malformed}) /\ handed \in Seq(Nat) /\ owner \in Runs \cup {NoOne}
      OBVIOUS
    <3> QED
      BY <3>2, <3>3 DEF TypeOK
  <2>3. \A r \in Runs : ReaderOK(r)
    BY StreamAssumption DEF ReaderOK, Idle, Fresh, Busy, Member
  <2> QED
    BY <2>2, <2>3 DEF StreamInv, HandedOnce, NothingSkipped, RereadNeedsFailure,
                      VerifiedIsRead, DegradedIsExplained
<1>2. StreamInv /\ [Next]_vars => StreamInv'
  <2> SUFFICES ASSUME StreamInv, [Next]_vars PROVE StreamInv'
    OBVIOUS
  <2>1. ASSUME NEW r \in Runs, NEW batch \in SUBSET Events, Begin(r, batch) PROVE StreamInv'
    BY <2>1, BeginStep
  <2>2. ASSUME NEW r \in Runs, Step(r) PROVE StreamInv'
    BY <2>2, ArrivingSteps, EndsEmptyHanded, EndsRaised, JoinStep, TakeStep, CommitStep DEF Step
  <2>3. CASE UNCHANGED vars
    BY <2>3
    DEF vars, StreamInv, TypeOK, ReaderOK, Mark, Busy, Member, HandedOnce, NothingSkipped,
        RereadNeedsFailure, VerifiedIsRead, DegradedIsExplained
  <2> QED
    BY <2>1, <2>2, <2>3, SettleStep, ArrivingSteps, CrashStep DEF Next
<1> QED
  BY <1>1, <1>2, PTL DEF Spec

\* The stream's state stays well formed; in particular a reader that goes on is
\* below its limit.
THEOREM TypeCorrect == Spec => []TypeOK
<1>1. StreamInv => TypeOK
  BY DEF StreamInv
<1> QED
  BY <1>1, InvariantHolds, PTL

\* For any readers, faults and restarts: the group's offset passes no record
\* that was not handed to a reader.
THEOREM OffsetSkipsNothing == Spec => []NothingSkipped
<1>1. StreamInv => NothingSkipped
  BY DEF StreamInv
<1> QED
  BY <1>1, InvariantHolds, PTL

\* No record is handed out more often than once and once again for each commit
\* that did not return.
THEOREM RereadsAreAccounted == Spec => []RereadNeedsFailure
<1>1. StreamInv => RereadNeedsFailure
  BY DEF StreamInv
<1> QED
  BY <1>1, InvariantHolds, PTL

\* What a verified round trip published was read back by it: each event stands in
\* a record between the group's offset at its beginning and the one it left.
THEOREM VerifiedWasRead == Spec => []VerifiedIsRead
<1>1. StreamInv => VerifiedIsRead
  BY DEF StreamInv
<1> QED
  BY <1>1, InvariantHolds, PTL

\* A round trip without company, fault or a full reader is verified.
THEOREM AloneIsVerified == Spec => []DegradedIsExplained
<1>1. StreamInv => DegradedIsExplained
  BY DEF StreamInv
<1> QED
  BY <1>1, InvariantHolds, PTL

-----------------------------------------------------------------------------
(* The round trips together are one queue.  A record is out when a reader  *)
(* holds it; that it is then the group's next one, and no other is out, is *)
(* the part of the invariant the mapping rests on.                         *)

SomeHeld == \E r \in Runs : reader[r].held

\* Steps of a reader that ends: what others hold they go on holding.
LEMMA EndingHolds ==
    ASSUME StreamInv, NEW r \in Runs, NEW status, NEW full, NEW fault,
           Finish(r, status, full, fault)
    PROVE  SomeHeld' <=> (\E x \in Runs \ {r} : reader[x].held)
<1>1. reader' = [reader EXCEPT ![r] = Idle] /\ reader \in [Runs -> Reader]
  BY DEF Finish, Leave, StreamInv, TypeOK
<1>2. reader'[r].held = FALSE /\ \A x \in Runs \ {r} : reader'[x] = reader[x]
  BY <1>1 DEF Idle, Fresh
<1> QED
  BY <1>2 DEF SomeHeld

\* A record that arrives is put in the queue.
LEMMA ArrivalPuts ==
    ASSUME StreamInv, NEW record \in Events \cup {Malformed}, Arrives(record),
           SomeHeld' <=> SomeHeld, UNCHANGED <<committed, unacked>>
    PROVE  Queue!Put
BY DEF Arrives, Queue!Put, SomeHeld

\* Handing a record to a reader hands out the group's next one, and nobody
\* holds one already.
LEMMA TakeHandsOut ==
    ASSUME StreamInv, NEW r \in Runs, Take(r)
    PROVE  Queue!HandOut
<1>1. ReaderOK(r) /\ owner = r /\ ~ reader[r].held /\ reader \in [Runs -> Reader]
  BY DEF Take, StreamInv, TypeOK
<1>2. reader[r].position = committed
  BY <1>1 DEF ReaderOK
<1>3. ~ SomeHeld
  BY <1>1, HeldIsOwners DEF SomeHeld
<1>4. reader'[r].held
  BY <1>1 DEF Take, Reader
<1>5. committed < Len(log) /\ handed' = [handed EXCEPT ![committed + 1] = @ + 1]
  BY <1>2 DEF Take, StreamInv, TypeOK
<1>6. UNCHANGED <<log, committed, unacked>>
  BY DEF Take
<1> QED
  BY <1>3, <1>4, <1>5, <1>6 DEF SomeHeld, Queue!HandOut

\* A commit that returns acknowledges the record that is out.
LEMMA CommitAcknowledges ==
    ASSUME StreamInv, NEW r \in Runs, Commit(r)
    PROVE  Queue!Acknowledge
<1>1. /\ reader[r].held
      /\ committed' = committed + 1
      /\ \A x \in Runs \ {r} : ~ reader[x].held
      /\ reader \in [Runs -> Reader]
  BY HeldIsOwners DEF Commit, StreamInv, TypeOK
<1>2. ~ SomeHeld'
  <2>1. CASE reader' = [reader EXCEPT ![r].held = FALSE, ![r].count = CountOf(r)]
    <3>1. reader'[r].held = FALSE /\ \A x \in Runs \ {r} : reader'[x] = reader[x]
      BY <1>1, <2>1 DEF Reader
    <3> QED
      BY <1>1, <3>1 DEF SomeHeld
  <2>2. CASE Finish(r, Verdict(r), TRUE, FALSE)
    BY <1>1, <2>2, EndingHolds
  <2> QED
    BY <2>1, <2>2 DEF Commit
<1>3. SomeHeld /\ UNCHANGED <<log, handed, unacked>>
  BY <1>1 DEF SomeHeld, Commit
<1> QED
  BY <1>1, <1>2, <1>3 DEF SomeHeld, Queue!Acknowledge

\* A commit that raises is an acknowledgement that fails, applied or not.
LEMMA CommitFailsFails ==
    ASSUME StreamInv, NEW r \in Runs, CommitFails(r)
    PROVE  Queue!Fail
<1>1. /\ reader[r].held
      /\ committed' \in {committed, committed + 1}
      /\ \A x \in Runs \ {r} : ~ reader[x].held
  BY HeldIsOwners DEF CommitFails
<1>2. ~ SomeHeld'
  BY <1>1, EndingHolds DEF CommitFails
<1>3. SomeHeld /\ unacked' = unacked + 1 /\ UNCHANGED <<log, handed>>
  BY <1>1 DEF SomeHeld, CommitFails
<1> QED
  BY <1>1, <1>2, <1>3 DEF SomeHeld, Queue!Fail

\* So is the death of the process while a record is out.
LEMMA CrashFailsOrStutters ==
    ASSUME StreamInv, Crash
    PROVE  Queue!Fail \/ UNCHANGED Queue!qvars
<1>1. ~ SomeHeld' /\ UNCHANGED <<log, committed, handed>>
  BY DEF Crash, SomeHeld, Idle, Fresh
<1>2. unacked' = unacked + IF SomeHeld THEN 1 ELSE 0
  BY DEF Crash, SomeHeld
<1>3. unacked \in Nat
  BY DEF StreamInv, TypeOK
<1> QED
  BY <1>1, <1>2, <1>3 DEF SomeHeld, Queue!Fail, Queue!qvars

\* A reader that stops without a record, whatever stops it, and a consumer that
\* joins or is assigned the partition, change nothing of the queue.
LEMMA OthersStutter ==
    ASSUME StreamInv, NEW r \in Runs,
           PublishFails(r) \/ Join(r) \/ ConnectFails(r) \/ Quiet(r) \/ PollFails(r)
    PROVE  UNCHANGED Queue!qvars
<1>1. UNCHANGED <<log, committed, handed, unacked>>
  BY DEF PublishFails, Join, ConnectFails, Quiet, PollFails
<1>2. ~ reader[r].held
  BY HeldIsOwners DEF PublishFails, Join, ConnectFails, Quiet, PollFails, Published, Member
<1>3. SomeHeld' <=> SomeHeld
  <2>1. CASE Join(r)
    <3>1. reader \in [Runs -> Reader]
      BY DEF StreamInv, TypeOK
    <3>2. \A x \in Runs : reader'[x].held = reader[x].held
      BY <2>1, <3>1 DEF Join, Reader
    <3> QED
      BY <3>2 DEF SomeHeld
  <2>2. CASE \E status, full, fault : Finish(r, status, full, fault)
    BY <1>2, <2>2, EndingHolds DEF SomeHeld
  <2> QED
    BY <2>1, <2>2 DEF PublishFails, ConnectFails, Quiet, PollFails
<1> QED
  BY <1>1, <1>3 DEF SomeHeld, Queue!qvars

LEMMA BeginStutters ==
    ASSUME StreamInv, NEW r \in Runs, NEW batch \in SUBSET Events, Begin(r, batch)
    PROVE  UNCHANGED Queue!qvars
<1>1. reader \in [Runs -> Reader] /\ ~ Busy(r)
  BY DEF Begin, StreamInv, TypeOK
<1>2. ~ reader[r].held
  BY <1>1, HeldIsOwners DEF Busy, Member
<1>3. ASSUME NEW x \in Runs PROVE reader'[x].held = reader[x].held
  <2>1. CASE x = r
    <3>1. reader'[x].held = FALSE
      BY <2>1 DEF Begin, Fresh
    <3>2. reader[x].held \in BOOLEAN
      BY <1>1 DEF Reader
    <3> QED
      BY <1>2, <2>1, <3>1, <3>2
  <2>2. CASE x # r
    BY <1>1, <2>2 DEF Begin, Reader
  <2> QED
    BY <2>1, <2>2
<1>4. UNCHANGED <<log, committed, handed, unacked>>
  BY DEF Begin
<1> QED
  BY <1>3, <1>4 DEF Queue!qvars

LEMMA SettleStutters ==
    ASSUME StreamInv, Settle
    PROVE  UNCHANGED Queue!qvars
<1>1. PICK r \in Runs : reader' = [reader EXCEPT ![r].position = committed]
  BY DEF Settle
<1>2. reader \in [Runs -> Reader]
  BY DEF StreamInv, TypeOK
<1>3. \A x \in Runs : reader'[x].held = reader[x].held
  BY <1>1, <1>2 DEF Reader
<1>4. UNCHANGED <<log, committed, handed, unacked>>
  BY DEF Settle
<1> QED
  BY <1>3, <1>4 DEF Queue!qvars

\* Records arrive from a run's own producer, one that was given up, or another
\* program.
LEMMA ArrivalsPut ==
    ASSUME StreamInv, (\E r \in Runs : Publish(r)) \/ StrayArrives \/ ForeignRecord
    PROVE  Queue!Put
<1>1. reader \in [Runs -> Reader] /\ stray \subseteq Events
  BY DEF StreamInv, TypeOK
<1>2. CASE \E r \in Runs : Publish(r)
  <2>1. PICK r \in Runs, e \in Events :
          /\ Arrives(e)
          /\ reader' = [reader EXCEPT ![r].unsent = @ \ {e}]
          /\ UNCHANGED <<committed, unacked>>
    BY <1>1, <1>2 DEF Publish, Reader
  <2>2. \A x \in Runs : reader'[x].held = reader[x].held
    BY <1>1, <2>1 DEF Reader
  <2> QED
    BY <2>1, <2>2, ArrivalPuts DEF SomeHeld
<1>3. CASE StrayArrives
  BY <1>1, <1>3, ArrivalPuts DEF StrayArrives, SomeHeld
<1>4. CASE ForeignRecord
  BY <1>4, ArrivalPuts DEF ForeignRecord, SomeHeld
<1> QED
  BY <1>2, <1>3, <1>4

\* The round trips implement the queue: with any number of consumers, limits,
\* faults and restarts, the group reads the topic as one reader with one place
\* in it would.
THEOREM GroupReadsAsQueue == Spec => ReadsAsOneQueue
<1>1. Init => Queue!Init
  BY DEF Init, Idle, Fresh, Queue!Init
<1>2. StreamInv /\ [Next]_vars => [Queue!Next]_(Queue!qvars)
  <2> SUFFICES ASSUME StreamInv, [Next]_vars PROVE Queue!Next \/ UNCHANGED Queue!qvars
    OBVIOUS
  <2>1. ASSUME NEW r \in Runs, Step(r) PROVE Queue!Next \/ UNCHANGED Queue!qvars
    BY <2>1, ArrivalsPut, OthersStutter, TakeHandsOut, CommitAcknowledges, CommitFailsFails
    DEF Step, Queue!Next
  <2>2. CASE UNCHANGED vars
    BY <2>2 DEF vars, Queue!qvars
  <2> QED
    BY <2>1, <2>2, BeginStutters, SettleStutters, ArrivalsPut, CrashFailsOrStutters
    DEF Next, Queue!Next
<1> QED
  BY <1>1, <1>2, InvariantHolds, PTL DEF Spec, Queue!Spec, ReadsAsOneQueue
=============================================================================
