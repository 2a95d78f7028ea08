------------------------------ MODULE Delivery ------------------------------
(***************************************************************************)
(* Approval, rejection and hand-off of stored decisions.                   *)
(*                                                                         *)
(* FastAPI runs every handler as a coroutine of one process and the SQLite *)
(* calls are synchronous, so a handler is atomic between two awaits.       *)
(* approve and reject never wait and are one action each.  The delivery    *)
(* handlers wait once, in send_cap / send_to_webeoc, between the committed *)
(* claim row and the record or release of that row; other handlers, the    *)
(* endpoint, and a process death run in that gap.                          *)
(***************************************************************************)
EXTENDS Naturals, FiniteSets, Policy

CONSTANTS
    Incidents,    \* stored decisions
    Channels,     \* "first-responder-cap" and "tdem-webeoc" in the code
    Configured,   \* the channels that have an endpoint and credentials
    Numbered,     \* the channels that record a number of the endpoint's: WebEOC
    Calls,        \* delivery requests the server can be serving at once
    Plans,        \* the plans an assessment may have stored
    MaxPosts,     \* bound: HTTP posts per target
    MaxFaults     \* bound: process deaths, failed SQLite commits, answers of -1

ASSUME DeliveryAssumption ==
    /\ Configured \subseteq Channels
    /\ Numbered \subseteq Channels
    /\ Plans \subseteq Plan
    /\ MaxPosts \in Nat
    /\ MaxFaults \in Nat

VARIABLES
    decision,    \* decisions table: the plan and the policy status
    deliveries,  \* deliveries table: no row, a claim (-1), or a recorded status
    call,        \* volatile: what each delivery request is doing
    accepted,    \* endpoint: posts it has acted on, per target
    transit,     \* endpoint: posts whose sender gave up before they arrived
    audit,       \* audit entries of these handlers
    verdict,     \* history: the operator's latest verdict per incident
    posts,       \* history: posts begun per target
    failures,    \* history: posts whose handler released the claim
    faults       \* process deaths, failed commits and answers of -1 so far

vars == <<decision, deliveries, call, accepted, transit, audit,
          verdict, posts, failures, faults>>

Targets == Incidents \X Channels

Rows     == {"none", "claimed", "recorded"}
Replies  == {"none", "blocked", "already_delivered", "delivered", "error"}
Verdicts == {"none", "approved", "rejected"}

IdleCall(reply)  == [stage |-> "idle", reply |-> reply]
SendCall(t, landed) == [stage |-> "sending", target |-> t, landed |-> landed]
CallStates ==
    {IdleCall(reply) : reply \in Replies}
        \cup {SendCall(t, b) : t \in Targets, b \in BOOLEAN}

Entry(type, i) == [event_type |-> type, incident |-> i]
Entries == [event_type : {"approved", "rejected", "delivery"}, incident : Incidents]

TypeOK ==
    /\ decision \in [Incidents -> [plan : Plans, policy_status : Statuses]]
    /\ deliveries \in [Targets -> Rows]
    /\ call \in [Calls -> CallStates]
    /\ accepted \in [Targets -> Nat]
    /\ transit \in [Targets -> Nat]
    /\ audit \subseteq Entries
    /\ verdict \in [Incidents -> Verdicts]
    /\ posts \in [Targets -> Nat]
    /\ failures \in [Targets -> Nat]
    /\ faults \in Nat

Sending(c)    == call[c].stage = "sending"
SendingOn(c, t) == Sending(c) /\ call[c].target = t

-----------------------------------------------------------------------------
(* An assessment has stored every decision, with the status the gate gave  *)
(* its plan or, when a scan of the model's output stopped it, "blocked".   *)
StoredStatus(p) == {evaluate(p, FALSE), "blocked"}

Init ==
    /\ decision \in {d \in [Incidents -> [plan : Plans, policy_status : Statuses]] :
                        \A i \in Incidents : d[i].policy_status \in StoredStatus(d[i].plan)}
    /\ deliveries = [t \in Targets |-> "none"]
    /\ call = [c \in Calls |-> IdleCall("none")]
    /\ accepted = [t \in Targets |-> 0]
    /\ transit = [t \in Targets |-> 0]
    /\ audit = {}
    /\ verdict = [i \in Incidents |-> "none"]
    /\ posts = [t \in Targets |-> 0]
    /\ failures = [t \in Targets |-> 0]
    /\ faults = 0

\* DecisionService._audit swallows every exception: the entry may be missing.
WriteAudit(type, i) == audit' \in {audit, audit \cup {Entry(type, i)}}

SetStatus(i, status) ==
    decision' = [decision EXCEPT ![i].policy_status = status]

Reply(c, reply) == call' = [call EXCEPT ![c] = IdleCall(reply)]

-----------------------------------------------------------------------------
(* Operator verdicts.                                                      *)

\* Mutant: an approval is taken at its word.
ApproveOutright(i) ==
    /\ SetStatus(i, "allowed")
    /\ verdict' = [verdict EXCEPT ![i] = "approved"]
    /\ WriteAudit("approved", i)
    /\ UNCHANGED <<deliveries, call, accepted, transit, posts, failures, faults>>

approve(i) ==
    /\ SetStatus(i, evaluate(decision[i].plan, TRUE))
    /\ verdict' = [verdict EXCEPT ![i] = "approved"]
    /\ WriteAudit("approved", i)
    /\ UNCHANGED <<deliveries, call, accepted, transit, posts, failures, faults>>

\* Mutant: a rejection leaves the stored status alone.
RejectWithoutStatus(i) ==
    /\ verdict' = [verdict EXCEPT ![i] = "rejected"]
    /\ WriteAudit("rejected", i)
    /\ UNCHANGED <<decision, deliveries, call, accepted, transit, posts, failures, faults>>

reject(i) ==
    /\ SetStatus(i, "blocked")
    /\ verdict' = [verdict EXCEPT ![i] = "rejected"]
    /\ WriteAudit("rejected", i)
    /\ UNCHANGED <<deliveries, call, accepted, transit, posts, failures, faults>>

-----------------------------------------------------------------------------
(* POST .../first-responder and POST .../webeoc up to the await.  The body *)
(* carries "confirm"; the decision is read, checked and the row claimed    *)
(* without a wait.                                                         *)

Idle(c)       == call[c].stage = "idle"
MayDeliver(t) == decision[t[1]].policy_status = "allowed"

\* Mutants of claim_delivery: it also takes a row that is only a claim, or
\* replaces any row.
ClaimsUnfinished(t) == deliveries[t] # "recorded"
ClaimsAlways(t)     == TRUE

\* INSERT OR IGNORE on the primary key (incident_id, channel): rowcount = 1.
claim_delivery(t) == deliveries[t] = "none"

Refuse(c, t) ==
    /\ Idle(c)
    /\ \E confirm \in BOOLEAN : ~ confirm \/ ~ MayDeliver(t)
    /\ Reply(c, "blocked")
    /\ UNCHANGED <<decision, deliveries, accepted, transit, audit,
                   verdict, posts, failures, faults>>

AnswerAlreadyDelivered(c, t) ==
    /\ Idle(c)
    /\ MayDeliver(t)
    /\ ~ claim_delivery(t)
    /\ Reply(c, "already_delivered")
    /\ UNCHANGED <<decision, deliveries, accepted, transit, audit,
                   verdict, posts, failures, faults>>

BeginPost(c, t) ==
    /\ Idle(c)
    /\ MayDeliver(t)
    /\ t[2] \in Configured
    /\ posts[t] < MaxPosts
    /\ claim_delivery(t)
    /\ deliveries' = [deliveries EXCEPT ![t] = "claimed"]
    /\ call' = [call EXCEPT ![c] = SendCall(t, FALSE)]
    /\ posts' = [posts EXCEPT ![t] = @ + 1]
    /\ UNCHANGED <<decision, accepted, transit, audit, verdict, failures, faults>>

\* An unconfigured sender raises before its first wait: claim and release run
\* in one stretch, and only a release that fails leaves a trace.
AttemptUnconfigured(c, t) ==
    /\ Idle(c)
    /\ MayDeliver(t)
    /\ t[2] \notin Configured
    /\ claim_delivery(t)
    /\ \/ Reply(c, "blocked") /\ UNCHANGED <<deliveries, faults>>
       \/ /\ faults < MaxFaults
          /\ faults' = faults + 1
          /\ deliveries' = [deliveries EXCEPT ![t] = "claimed"]
          /\ Reply(c, "error")
    /\ UNCHANGED <<decision, accepted, transit, audit, verdict, posts, failures>>

-----------------------------------------------------------------------------
(* The endpoint.                                                           *)

Arrive(c) ==
    /\ Sending(c)
    /\ ~ call[c].landed
    /\ call' = [call EXCEPT ![c] = SendCall(@.target, TRUE)]
    /\ accepted' = [accepted EXCEPT ![call[c].target] = @ + 1]
    /\ UNCHANGED <<decision, deliveries, transit, audit, verdict, posts, failures, faults>>

\* A post outlives the handler that gave it up, and may still arrive.
ArriveLate(t) ==
    /\ transit[t] > 0
    /\ transit' = [transit EXCEPT ![t] = @ - 1]
    /\ accepted' = [accepted EXCEPT ![t] = @ + 1]
    /\ UNCHANGED <<decision, deliveries, call, audit, verdict, posts, failures, faults>>

\* What the handlers in S leave on the way when they stop waiting: for each
\* post that has not arrived, nothing or the post.
Unarrived(S) == {t \in Targets : \E c \in S : SendingOn(c, t) /\ ~ call[c].landed}

Abandon(S) ==
    \E late \in SUBSET Unarrived(S) :
        transit' = [t \in Targets |-> IF t \in late THEN transit[t] + 1 ELSE transit[t]]

-----------------------------------------------------------------------------
(* The same handlers after the await.                                      *)

\* A 2xx answer (with an AddDataResult for WebEOC): record_delivery.
Acknowledge(c) ==
    LET t == call[c].target IN
    /\ Sending(c)
    /\ call[c].landed
    /\ deliveries' = [deliveries EXCEPT ![t] = "recorded"]
    /\ WriteAudit("delivery", t[1])
    /\ Reply(c, "delivered")
    /\ UNCHANGED <<decision, accepted, transit, verdict, posts, failures, faults>>

\* record_delivery stores what the endpoint answered, which may be the -1 that
\* marks a claim: AddDataResult is any integer, a 2xx status never is.
AcknowledgeAsClaim(c) ==
    LET t == call[c].target IN
    /\ Sending(c)
    /\ call[c].landed
    /\ t[2] \in Numbered
    /\ faults < MaxFaults
    /\ faults' = faults + 1
    /\ deliveries' = [deliveries EXCEPT ![t] = "claimed"]
    /\ WriteAudit("delivery", t[1])
    /\ Reply(c, "delivered")
    /\ UNCHANGED <<decision, accepted, transit, verdict, posts, failures>>

\* Mutants of release_delivery_claim: it does nothing, or marks the row as
\* delivered.
KeepsClaim(row)     == row
MarksDelivered(row) == "recorded"

\* DELETE ... AND response_status = -1.
release_delivery_claim(row) == IF row = "claimed" THEN "none" ELSE row

\* Refused connection, error status, timeout, unreadable answer: each except
\* branch releases the claim, whether or not the endpoint acted on the post.
GiveUp(c) ==
    LET t == call[c].target IN
    /\ Sending(c)
    /\ Abandon({c})
    /\ deliveries' = [deliveries EXCEPT ![t] = release_delivery_claim(@)]
    /\ failures' = [failures EXCEPT ![t] = @ + 1]
    /\ \E reply \in {"blocked", "error"} : Reply(c, reply)
    /\ UNCHANGED <<decision, accepted, audit, verdict, posts, faults>>

\* The commit of the record or of the release fails: neither is retried.
CommitFails(c) ==
    /\ Sending(c)
    /\ faults < MaxFaults
    /\ faults' = faults + 1
    /\ Abandon({c})
    /\ Reply(c, "error")
    /\ UNCHANGED <<decision, deliveries, accepted, audit, verdict, posts, failures>>

\* The process dies: handlers vanish, rows and posts on the way stay.  Nothing
\* in the lifespan hook looks at the deliveries table on the next start.
Crash ==
    /\ faults < MaxFaults
    /\ faults' = faults + 1
    /\ Abandon({c \in Calls : Sending(c)})
    /\ call' = [c \in Calls |-> IdleCall("none")]
    /\ UNCHANGED <<decision, deliveries, accepted, audit, verdict, posts, failures>>

-----------------------------------------------------------------------------
Verdict == \E i \in Incidents : approve(i) \/ reject(i)

Request == \E c \in Calls, t \in Targets :
    Refuse(c, t) \/ AnswerAlreadyDelivered(c, t) \/ BeginPost(c, t) \/ AttemptUnconfigured(c, t)

Resolve(c) == Acknowledge(c) \/ AcknowledgeAsClaim(c) \/ GiveUp(c) \/ CommitFails(c)

Endpoint == (\E c \in Calls : Arrive(c)) \/ (\E t \in Targets : ArriveLate(t))

Next == Verdict \/ Request \/ Endpoint \/ (\E c \in Calls : Resolve(c)) \/ Crash

Spec == Init /\ [][Next]_vars

\* httpx ends every send (timeout=15 and timeout=20): a waiting handler resumes.
FairSpec == Spec /\ \A c \in Calls : WF_vars(Resolve(c))

-----------------------------------------------------------------------------
(* Properties.                                                             *)

\* A decision reads "allowed" only while the operator's latest verdict on it
\* is an approval and its plan is reversible and no quarantine hold.
AllowedIsApproved ==
    \A i \in Incidents : decision[i].policy_status = "allowed" =>
        verdict[i] = "approved" /\ Executable(decision[i].plan)

\* At most one handler is sending for an incident and channel, it holds the
\* claim, and a claim without a sending handler is the trace of a fault.
OneOwnerPerClaim ==
    \A t \in Targets :
        /\ \A c, d \in Calls : SendingOn(c, t) /\ SendingOn(d, t) => c = d
        /\ (\E c \in Calls : SendingOn(c, t)) => deliveries[t] = "claimed"
        /\ deliveries[t] = "claimed" =>
              faults > 0 \/ \E c \in Calls : SendingOn(c, t)

\* The endpoint acts twice on a target only if the operator was told that an
\* earlier attempt had failed: every extra post is a retry of a failed one.
DuplicatesComeFromRetries ==
    \A t \in Targets : accepted[t] <= failures[t] + 1

\* A recorded delivery, and a "delivery" audit entry, are about a post that
\* the endpoint has acted on.
RecordIsTrue ==
    /\ \A t \in Targets : deliveries[t] = "recorded" => accepted[t] > 0
    /\ \A e \in audit : e.event_type = "delivery" =>
          \E ch \in Channels : accepted[<<e.incident, ch>>] > 0

\* Once recorded, a delivery stays recorded and no further post is begun.
RecordedIsFinal ==
    [][\A t \in Targets : deliveries[t] = "recorded" =>
          deliveries'[t] = "recorded" /\ posts'[t] = posts[t]]_vars

\* A post is begun only while the operator's latest verdict is an approval
\* and no other post for the same target is being waited for.
PostNeedsStandingApproval ==
    [][\A t \in Targets : posts'[t] > posts[t] =>
          /\ verdict[t[1]] = "approved"
          /\ ~ \E c \in Calls : SendingOn(c, t)]_vars

\* Without faults, every claim is eventually recorded or released: no operator
\* is locked out by an attempt that went wrong.
ClaimsResolve ==
    \A t \in Targets :
        (deliveries[t] = "claimed" /\ faults = 0) ~> (deliveries[t] # "claimed" \/ faults > 0)

\* How posts are accounted for: each one begun has been acted on, is under way,
\* or is gone; each but the one of the present row was reported as failed; and
\* a handler is answered only by an endpoint that has acted.
Outstanding(t) == IF \E c \in Calls : SendingOn(c, t) /\ ~ call[c].landed THEN 1 ELSE 0

PostsAccounted ==
    \A t \in Targets :
        /\ accepted[t] + transit[t] + Outstanding(t) <= posts[t]
        /\ posts[t] <= failures[t] + (IF deliveries[t] = "none" THEN 0 ELSE 1)

LandedWasAccepted ==
    \A c \in Calls : Sending(c) /\ call[c].landed => accepted[call[c].target] > 0

\* The inductive invariant of the proofs.
DeliveryInv ==
    /\ TypeOK
    /\ AllowedIsApproved
    /\ OneOwnerPerClaim
    /\ PostsAccounted
    /\ LandedWasAccepted
    /\ RecordIsTrue

\* The rows and calls seen as the hand-off they implement.
Handoff(t) ==
    IF deliveries[t] = "recorded" THEN "done"
    ELSE IF deliveries[t] = "none" THEN "open"
    ELSE IF \E c \in Calls : SendingOn(c, t) THEN "attempting"
    ELSE "stranded"

Promise == INSTANCE HandoffPromise WITH
    consent <- [i \in Incidents |-> decision[i].policy_status = "allowed"],
    handoff <- [t \in Targets |-> Handoff(t)]

\* Approval, claims, posts and faults implement the hand-off promise.
KeepsPromise == Promise!Spec

\* The decisions table as the rows of DecisionLife, all of them stored.
Life == INSTANCE DecisionLife WITH
    Rows <- Incidents,
    status <- [i \in Incidents |-> decision[i].policy_status],
    executable <- {i \in Incidents : Executable(decision[i].plan)}

\* The delivery path treats decisions as the assessments and the preview do:
\* only a verdict changes one, and no approval opens a plan the gate forbids.
JudgesByContract == Life!Spec

\* What the docstring of release_delivery_claim takes for granted: an
\* unfinished reservation is one a running handler can still release.
UnfinishedClaimIsHeld ==
    \A t \in Targets : deliveries[t] = "claimed" => \E c \in Calls : SendingOn(c, t)
=============================================================================
