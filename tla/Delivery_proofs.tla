-------------------------- MODULE Delivery_proofs --------------------------
(***************************************************************************)
(* Proofs about Delivery, for any incidents, channels, requests and        *)
(* bounds.                                                                 *)
(***************************************************************************)
EXTENDS Delivery, TLAPS

\* A sending call is a SendCall of a target.
LEMMA SendingShape ==
    ASSUME NEW x \in CallStates, x.stage = "sending"
    PROVE  /\ x.target \in Targets
           /\ x.landed \in BOOLEAN
           /\ x = SendCall(x.target, x.landed)
  BY DEF CallStates, SendCall, IdleCall

\* The calls a handler can leave behind are call states.
LEMMA CallShapes ==
    /\ \A r \in Replies : IdleCall(r) \in CallStates
    /\ \A t \in Targets, b \in BOOLEAN : SendCall(t, b) \in CallStates
  BY DEF CallStates

\* Giving up leaves a natural number of posts on the way.
LEMMA AbandonType ==
    ASSUME transit \in [Targets -> Nat], NEW S, Abandon(S)
    PROVE  transit' \in [Targets -> Nat]
  BY DEF Abandon

\* The gate answers with one of its three statuses.
LEMMA EvaluateType ==
    ASSUME NEW p, NEW b \in BOOLEAN
    PROVE  evaluate(p, b) \in Statuses
  BY DEF evaluate, Statuses

\* An audit entry of the three kinds keeps the trail well typed.
LEMMA AuditType ==
    ASSUME audit \subseteq Entries, NEW i \in Incidents,
           NEW type \in {"approved", "rejected", "delivery"}, WriteAudit(type, i)
    PROVE  audit' \subseteq Entries
<1>1. Entry(type, i) \in Entries
  BY DEF Entry, Entries
<1> QED
  BY <1>1 DEF WriteAudit

\* A new status keeps the decisions table well typed.
LEMMA DecisionType ==
    ASSUME decision \in [Incidents -> [plan : Plans, policy_status : Statuses]],
           NEW i \in Incidents, NEW s \in Statuses, SetStatus(i, s)
    PROVE  decision' \in [Incidents -> [plan : Plans, policy_status : Statuses]]
  BY DEF SetStatus

-----------------------------------------------------------------------------
\* Every variable of the delivery path keeps its type: in particular the rows
\* stay one of no row, claim and record, whatever calls and faults come.
THEOREM TypeCorrect == Spec => []TypeOK
<1>1. Init => TypeOK
  BY DeliveryAssumption, CallShapes
  DEF Init, TypeOK, Rows, Replies, Verdicts, Entries
<1>2. TypeOK /\ [Next]_vars => TypeOK'
  <2> SUFFICES ASSUME TypeOK, [Next]_vars PROVE TypeOK'
    OBVIOUS
  <2> USE DEF TypeOK
  <2>1. ASSUME NEW i \in Incidents, approve(i) PROVE TypeOK'
    BY <2>1, EvaluateType, AuditType, DecisionType DEF approve, Verdicts
  <2>2. ASSUME NEW i \in Incidents, reject(i) PROVE TypeOK'
    BY <2>2, AuditType, DecisionType DEF reject, Verdicts, Statuses
  <2>3. ASSUME NEW c \in Calls, NEW t \in Targets, Refuse(c, t) PROVE TypeOK'
    BY <2>3, CallShapes DEF Refuse, Reply, Replies
  <2>4. ASSUME NEW c \in Calls, NEW t \in Targets, AnswerAlreadyDelivered(c, t) PROVE TypeOK'
    BY <2>4, CallShapes DEF AnswerAlreadyDelivered, Reply, Replies
  <2>5. ASSUME NEW c \in Calls, NEW t \in Targets, BeginPost(c, t) PROVE TypeOK'
    <3>1. SendCall(t, FALSE) \in CallStates
      BY CallShapes
    <3>2. posts' \in [Targets -> Nat]
      BY <2>5 DEF BeginPost
    <3>3. call' \in [Calls -> CallStates]
      BY <2>5, <3>1 DEF BeginPost
    <3>4. deliveries' \in [Targets -> Rows]
      BY <2>5 DEF BeginPost, Rows
    <3> QED
      BY <2>5, <3>2, <3>3, <3>4 DEF BeginPost
  <2>6. ASSUME NEW c \in Calls, NEW t \in Targets, AttemptUnconfigured(c, t) PROVE TypeOK'
    BY <2>6, CallShapes DEF AttemptUnconfigured, Reply, Replies, Rows
  <2>7. ASSUME NEW c \in Calls, Arrive(c) PROVE TypeOK'
    <3>1. call[c].target \in Targets
      BY <2>7, SendingShape DEF Arrive, Sending
    <3>2. SendCall(call[c].target, TRUE) \in CallStates
      BY <3>1, CallShapes
    <3>3. accepted' \in [Targets -> Nat]
      BY <2>7, <3>1 DEF Arrive
    <3>4. call' \in [Calls -> CallStates]
      BY <2>7, <3>2 DEF Arrive
    <3> QED
      BY <2>7, <3>3, <3>4 DEF Arrive
  <2>8. ASSUME NEW t \in Targets, ArriveLate(t) PROVE TypeOK'
    BY <2>8 DEF ArriveLate
  <2>9. ASSUME NEW c \in Calls, Resolve(c) PROVE TypeOK'
    <3>1. Sending(c) /\ call[c].target \in Targets
      BY <2>9, SendingShape DEF Resolve, Acknowledge, AcknowledgeAsClaim, GiveUp, CommitFails, Sending
    <3>2. CASE Acknowledge(c)
      <4>1. call[c].target[1] \in Incidents
        BY <3>1 DEF Targets
      <4> QED
        BY <3>1, <3>2, <4>1, CallShapes, AuditType DEF Acknowledge, Reply, Replies, Rows
    <3>3. CASE GiveUp(c)
      <4>1. release_delivery_claim(deliveries[call[c].target]) \in Rows
        BY <3>1 DEF release_delivery_claim, Rows
      <4> QED
        BY <3>1, <3>3, <4>1, CallShapes, AbandonType DEF GiveUp, Reply, Replies
    <3>4. CASE CommitFails(c)
      BY <3>4, CallShapes, AbandonType DEF CommitFails, Reply, Replies
    <3>5. CASE AcknowledgeAsClaim(c)
      <4>1. call[c].target[1] \in Incidents
        BY <3>1 DEF Targets
      <4> QED
        BY <3>1, <3>5, <4>1, CallShapes, AuditType DEF AcknowledgeAsClaim, Reply, Replies, Rows
    <3> QED
      BY <2>9, <3>2, <3>3, <3>4, <3>5 DEF Resolve
  <2>10. CASE Crash
    BY <2>10, CallShapes, AbandonType DEF Crash, Replies
  <2>11. CASE UNCHANGED vars
    BY <2>11 DEF vars
  <2> QED
    BY <2>1, <2>2, <2>3, <2>4, <2>5, <2>6, <2>7, <2>8, <2>9, <2>10, <2>11
    DEF Next, Verdict, Request, Endpoint
<1> QED
  BY <1>1, <1>2, PTL DEF Spec

-----------------------------------------------------------------------------
\* A handler that answers is idle afterwards, and no other call has moved.
LEMMA ReplyFrame ==
    ASSUME call \in [Calls -> CallStates], NEW c \in Calls, NEW r, Reply(c, r)
    PROVE  /\ ~ Sending(c)'
           /\ \A d \in Calls : d # c => call'[d] = call[d]
           /\ \A d \in Calls, t \in Targets : SendingOn(d, t)' <=> d # c /\ SendingOn(d, t)
  BY DEF Reply, IdleCall, Sending, SendingOn

\* Without an approval the gate never answers "allowed"; with one it does only
\* for an executable plan.
LEMMA EvaluateGate ==
    ASSUME NEW p
    PROVE  /\ evaluate(p, FALSE) # "allowed"
           /\ evaluate(p, TRUE) = "allowed" => Executable(p)
  BY DEF evaluate, Executable

\* Approval and rejection keep status and verdict together; no other step
\* touches either.
LEMMA ConsentStep ==
    ASSUME TypeOK, AllowedIsApproved, [Next]_vars
    PROVE  AllowedIsApproved'
<1> USE DEF TypeOK, AllowedIsApproved
<1>1. ASSUME NEW i \in Incidents, approve(i) PROVE AllowedIsApproved'
  <2>1. decision'[i].policy_status = evaluate(decision'[i].plan, TRUE) /\ verdict'[i] = "approved"
    BY <1>1 DEF approve, SetStatus
  <2>2. \A j \in Incidents : j # i => decision'[j] = decision[j] /\ verdict'[j] = verdict[j]
    BY <1>1 DEF approve, SetStatus
  <2> QED
    BY <2>1, <2>2, EvaluateGate
<1>2. ASSUME NEW i \in Incidents, reject(i) PROVE AllowedIsApproved'
  <2>1. decision'[i].policy_status = "blocked"
    BY <1>2 DEF reject, SetStatus
  <2>2. \A j \in Incidents : j # i => decision'[j] = decision[j] /\ verdict'[j] = verdict[j]
    BY <1>2 DEF reject, SetStatus
  <2> QED
    BY <2>1, <2>2
<1>3. CASE UNCHANGED <<decision, verdict>>
  BY <1>3
<1>4. [Next]_vars => \/ \E i \in Incidents : approve(i) \/ reject(i)
                     \/ UNCHANGED <<decision, verdict>>
  BY DEF Next, vars, Verdict, Request, Resolve, Endpoint, Refuse, AnswerAlreadyDelivered,
         BeginPost, AttemptUnconfigured, Arrive, ArriveLate, Acknowledge, AcknowledgeAsClaim, GiveUp,
         CommitFails, Crash
<1> QED
  BY <1>1, <1>2, <1>3, <1>4

\* Claims and senders stay matched one to one.
LEMMA OwnerStep ==
    ASSUME TypeOK, OneOwnerPerClaim, [Next]_vars
    PROVE  OneOwnerPerClaim'
<1> USE DEF TypeOK, OneOwnerPerClaim
<1>1. CASE UNCHANGED <<deliveries, call, faults>>
  BY <1>1 DEF SendingOn, Sending
<1>2. ASSUME NEW c \in Calls, NEW t \in Targets, Refuse(c, t) \/ AnswerAlreadyDelivered(c, t)
      PROVE  OneOwnerPerClaim'
  <2>1. UNCHANGED <<deliveries, faults>> /\ ~ \E u \in Targets : SendingOn(c, u)
    BY <1>2 DEF Refuse, AnswerAlreadyDelivered, Idle, SendingOn, Sending
  <2>2. \A d \in Calls, u \in Targets : SendingOn(d, u)' <=> d # c /\ SendingOn(d, u)
    BY <1>2, ReplyFrame DEF Refuse, AnswerAlreadyDelivered
  <2> QED
    BY <2>1, <2>2
<1>3. ASSUME NEW c \in Calls, NEW t \in Targets, BeginPost(c, t) PROVE OneOwnerPerClaim'
  <2>1. /\ deliveries[t] = "none" /\ deliveries'[t] = "claimed" /\ UNCHANGED faults
        /\ \A u \in Targets : u # t => deliveries'[u] = deliveries[u]
    BY <1>3 DEF BeginPost, claim_delivery
  <2>2. \A d \in Calls, u \in Targets :
           SendingOn(d, u)' <=> IF d = c THEN u = t ELSE SendingOn(d, u)
    BY <1>3 DEF BeginPost, SendingOn, Sending, SendCall
  <2>3. \A u \in Targets : ~ SendingOn(c, u)
    BY <1>3 DEF BeginPost, Idle, SendingOn, Sending
  <2> QED
    BY <2>1, <2>2, <2>3
<1>4. ASSUME NEW c \in Calls, NEW t \in Targets, AttemptUnconfigured(c, t) PROVE OneOwnerPerClaim'
  <2>1. \A d \in Calls, u \in Targets : SendingOn(d, u)' <=> d # c /\ SendingOn(d, u)
    BY <1>4, ReplyFrame DEF AttemptUnconfigured
  <2>2. deliveries[t] = "none" /\ \A u \in Targets : ~ SendingOn(c, u)
    BY <1>4 DEF AttemptUnconfigured, claim_delivery, Idle, SendingOn, Sending
  <2>3. \/ UNCHANGED <<deliveries, faults>>
        \/ faults' > 0 /\ deliveries' = [deliveries EXCEPT ![t] = "claimed"]
    BY <1>4 DEF AttemptUnconfigured
  <2>4. CASE UNCHANGED <<deliveries, faults>>
    BY <2>1, <2>2, <2>4
  <2>5. CASE faults' > 0 /\ deliveries' = [deliveries EXCEPT ![t] = "claimed"]
    BY <2>1, <2>2, <2>5
  <2> QED
    BY <2>3, <2>4, <2>5
<1>5. ASSUME NEW c \in Calls, Arrive(c) PROVE OneOwnerPerClaim'
  <2>1. \A d \in Calls, u \in Targets : SendingOn(d, u)' <=> SendingOn(d, u)
    BY <1>5 DEF Arrive, SendingOn, Sending, SendCall
  <2> QED
    BY <1>5, <2>1 DEF Arrive
<1>6. ASSUME NEW c \in Calls, Resolve(c) PROVE OneOwnerPerClaim'
  <2>1. /\ \A d \in Calls, u \in Targets : SendingOn(d, u)' <=> d # c /\ SendingOn(d, u)
        /\ SendingOn(c, call[c].target) /\ call[c].target \in Targets
    BY <1>6, ReplyFrame, SendingShape
    DEF Resolve, Acknowledge, AcknowledgeAsClaim, GiveUp, CommitFails, SendingOn, Sending
  <2>2. \A u \in Targets : u # call[c].target => ~ SendingOn(c, u)
    BY DEF SendingOn
  <2>3. deliveries[call[c].target] = "claimed"
    BY <2>1
  <2>4. \/ deliveries' = deliveries /\ faults' > 0
        \/ UNCHANGED faults /\ \E row \in {"none", "recorded"} :
                 deliveries' = [deliveries EXCEPT ![call[c].target] = row]
    BY <1>6, <2>3 DEF Resolve, Acknowledge, AcknowledgeAsClaim, GiveUp, CommitFails, release_delivery_claim
  <2>5. CASE deliveries' = deliveries /\ faults' > 0
    BY <2>1, <2>5
  <2>6. ASSUME NEW row \in {"none", "recorded"}, UNCHANGED faults,
               deliveries' = [deliveries EXCEPT ![call[c].target] = row]
        PROVE  OneOwnerPerClaim'
    BY <2>1, <2>2, <2>6
  <2> QED
    BY <2>4, <2>5, <2>6
<1>7. CASE Crash
  <2>1. faults' > 0 /\ \A c \in Calls, t \in Targets : ~ SendingOn(c, t)'
    BY <1>7 DEF Crash, SendingOn, Sending, IdleCall
  <2> QED
    BY <2>1
<1> QED
  BY <1>1, <1>2, <1>3, <1>4, <1>5, <1>6, <1>7
  DEF Next, vars, Verdict, Request, Endpoint, approve, reject, ArriveLate

\* Handlers that stop waiting leave at most the outstanding post of a target
\* behind, and nothing where they were not waiting.
LEMMA AbandonBound ==
    ASSUME transit \in [Targets -> Nat], NEW S \in SUBSET Calls, Abandon(S),
           NEW u \in Targets
    PROVE  /\ transit'[u] <= transit[u] + Outstanding(u)
           /\ transit'[u] # transit[u] => u \in Unarrived(S)
<1>1. \/ transit'[u] = transit[u]
      \/ transit'[u] = transit[u] + 1 /\ u \in Unarrived(S)
  BY DEF Abandon
<1>2. u \in Unarrived(S) => Outstanding(u) = 1
  BY DEF Unarrived, Outstanding
<1>3. Outstanding(u) \in {0, 1} /\ transit[u] \in Nat
  BY DEF Outstanding
<1> QED
  BY <1>1, <1>2, <1>3

\* A target has nothing or one post outstanding.
LEMMA OutstandingType ==
    ASSUME NEW u
    PROVE  /\ Outstanding(u) \in {0, 1}
           /\ Outstanding(u) = 0 <=> ~ \E c \in Calls : SendingOn(c, u) /\ ~ call[c].landed
  BY DEF Outstanding

\* Every post begun stays accounted for.
LEMMA AccountingStep ==
    ASSUME TypeOK, OneOwnerPerClaim, PostsAccounted, [Next]_vars, TypeOK'
    PROVE  PostsAccounted'
<1> USE DEF TypeOK, PostsAccounted
<1> DEFINE Same == \A u \in Targets : Outstanding(u)' = Outstanding(u)
<1> DEFINE Slack(u) == IF deliveries[u] = "none" THEN 0 ELSE 1
<1>0. \A u \in Targets : Outstanding(u) \in {0, 1} /\ Outstanding(u)' \in {0, 1}
  BY OutstandingType DEF Outstanding
<1>1. CASE UNCHANGED <<deliveries, call, accepted, transit, posts, failures>>
  BY <1>1, <1>0 DEF Outstanding, SendingOn, Sending
<1>2. ASSUME NEW c \in Calls, NEW t \in Targets, Refuse(c, t) \/ AnswerAlreadyDelivered(c, t)
      PROVE  PostsAccounted'
  <2>1. Same
    BY <1>2, ReplyFrame
    DEF Refuse, AnswerAlreadyDelivered, Idle, Sending, SendingOn, Outstanding
  <2> QED
    BY <1>2, <2>1, <1>0 DEF Refuse, AnswerAlreadyDelivered
<1>3. ASSUME NEW c \in Calls, NEW t \in Targets, BeginPost(c, t) PROVE PostsAccounted'
  <2>1. \A u \in Targets : u # t => Outstanding(u)' = Outstanding(u)
    <3>1. \A d \in Calls, u \in Targets : u # t =>
             (SendingOn(d, u)' <=> SendingOn(d, u)) /\ (SendingOn(d, u) => call'[d] = call[d])
      BY <1>3 DEF BeginPost, Idle, SendingOn, Sending, SendCall
    <3> QED
      BY <3>1 DEF Outstanding
  <2>2. Outstanding(t) = 0
    BY <1>3 DEF BeginPost, claim_delivery, OneOwnerPerClaim, Outstanding
  <2>3. deliveries[t] = "none" /\ deliveries'[t] = "claimed" /\ posts'[t] = posts[t] + 1
    BY <1>3 DEF BeginPost, claim_delivery
  <2>4. \A u \in Targets : u # t => deliveries'[u] = deliveries[u] /\ posts'[u] = posts[u]
    BY <1>3 DEF BeginPost
  <2>5. UNCHANGED <<accepted, transit, failures>>
    BY <1>3 DEF BeginPost
  <2> QED
    BY <2>1, <2>2, <2>3, <2>4, <2>5, <1>0
<1>4. ASSUME NEW c \in Calls, NEW t \in Targets, AttemptUnconfigured(c, t) PROVE PostsAccounted'
  <2>1. Same
    BY <1>4, ReplyFrame DEF AttemptUnconfigured, Idle, Sending, SendingOn, Outstanding
  <2>2. \A u \in Targets : deliveries'[u] = deliveries[u] \/ deliveries'[u] = "claimed"
    BY <1>4 DEF AttemptUnconfigured
  <2> QED
    BY <1>4, <2>1, <2>2, <1>0 DEF AttemptUnconfigured
<1>5. ASSUME NEW c \in Calls, Arrive(c) PROVE PostsAccounted'
  <2>1. PICK t \in Targets : t = call[c].target /\ SendingOn(c, t)
    BY <1>5, SendingShape DEF Arrive, Sending, SendingOn
  <2>2. Outstanding(t) = 1
    BY <1>5, <2>1 DEF Arrive, Outstanding
  <2>3. \A d \in Calls : d # c => call'[d] = call[d]
    BY <1>5 DEF Arrive
  <2>4. call'[c] = SendCall(t, TRUE)
    BY <1>5, <2>1 DEF Arrive
  <2>9. call'[c].stage = "sending" /\ call'[c].target = t /\ call'[c].landed
    BY <2>4 DEF SendCall
  <2>10. \A d \in Calls, u \in Targets : SendingOn(d, u)' <=> SendingOn(d, u)
    BY <2>1, <2>3, <2>9 DEF SendingOn, Sending
  <2>5. Outstanding(t)' = 0
    BY <2>1, <2>9, <2>10 DEF Outstanding, OneOwnerPerClaim
  <2>6. \A u \in Targets : u # t => Outstanding(u)' = Outstanding(u)
    <3>1. \A u \in Targets : u # t => ~ SendingOn(c, u)
      BY <2>1 DEF SendingOn
    <3> QED
      BY <2>3, <2>10, <3>1 DEF Outstanding
  <2>7. accepted'[t] = accepted[t] + 1 /\ \A u \in Targets : u # t => accepted'[u] = accepted[u]
    BY <1>5, <2>1 DEF Arrive
  <2>8. UNCHANGED <<deliveries, transit, posts, failures>>
    BY <1>5 DEF Arrive
  <2> QED
    BY <2>2, <2>5, <2>6, <2>7, <2>8, <1>0
<1>6. ASSUME NEW t \in Targets, ArriveLate(t) PROVE PostsAccounted'
  <2>1. Same
    BY <1>6 DEF ArriveLate, Outstanding, SendingOn, Sending
  <2> QED
    BY <1>6, <2>1, <1>0 DEF ArriveLate
<1>7. ASSUME NEW c \in Calls, Resolve(c) PROVE PostsAccounted'
  <2>1. PICK t \in Targets : t = call[c].target /\ SendingOn(c, t)
    BY <1>7, SendingShape
    DEF Resolve, Acknowledge, AcknowledgeAsClaim, GiveUp, CommitFails, Sending, SendingOn
  <2>2. /\ \A d \in Calls : d # c => call'[d] = call[d]
        /\ \A d \in Calls, u \in Targets : SendingOn(d, u)' <=> d # c /\ SendingOn(d, u)
    BY <1>7, ReplyFrame DEF Resolve, Acknowledge, AcknowledgeAsClaim, GiveUp, CommitFails
  <2>3. Outstanding(t)' = 0
    BY <2>1, <2>2 DEF Outstanding, OneOwnerPerClaim
  <2>4. \A u \in Targets : u # t => ~ SendingOn(c, u)
    BY <2>1 DEF SendingOn
  <2>5. \A u \in Targets : u # t => Outstanding(u)' = Outstanding(u)
    BY <2>2, <2>4 DEF Outstanding
  <2>6. UNCHANGED <<accepted, posts>> /\ deliveries[t] = "claimed"
    BY <1>7, <2>1 DEF Resolve, Acknowledge, AcknowledgeAsClaim, GiveUp, CommitFails, OneOwnerPerClaim
  <2>7. \A u \in Targets :
           transit'[u] + Outstanding(u)' <= transit[u] + Outstanding(u)
    <3>1. CASE UNCHANGED transit
      BY <3>1, <2>3, <2>5, <1>0
    <3>2. CASE Abandon({c})
      <4> TAKE u \in Targets
      <4>1. transit'[u] <= transit[u] + Outstanding(u) /\ transit[u] \in Nat /\ transit'[u] \in Nat
        BY <3>2, AbandonBound
      <4>2. CASE u = t
        BY <4>1, <4>2, <2>3, <1>0
      <4>3. CASE u # t
        <5>1. u \notin Unarrived({c})
          BY <4>3, <2>4 DEF Unarrived
        <5>2. transit'[u] = transit[u]
          BY <3>2, <5>1, AbandonBound
        <5> QED
          BY <4>3, <5>2, <2>5, <1>0
      <4> QED
        BY <4>2, <4>3
    <3> QED
      BY <1>7, <3>1, <3>2 DEF Resolve, Acknowledge, AcknowledgeAsClaim, GiveUp, CommitFails
  <2>8. \A u \in Targets : failures'[u] + Slack(u)' >= failures[u] + Slack(u)
    <3>1. CASE Acknowledge(c)
      BY <3>1, <2>1, <2>6 DEF Acknowledge
    <3>2. CASE GiveUp(c)
      BY <3>2, <2>1, <2>6 DEF GiveUp, release_delivery_claim
    <3>3. CASE CommitFails(c)
      BY <3>3 DEF CommitFails
    <3>4. CASE AcknowledgeAsClaim(c)
      BY <3>4, <2>1, <2>6 DEF AcknowledgeAsClaim
    <3> QED
      BY <1>7, <3>1, <3>2, <3>3, <3>4 DEF Resolve
  <2> QED
    BY <2>6, <2>7, <2>8, <1>0
<1>8. CASE Crash
  <2>1. \A u \in Targets : Outstanding(u)' = 0
    BY <1>8 DEF Crash, Outstanding, SendingOn, Sending, IdleCall
  <2>2. \A u \in Targets : transit'[u] <= transit[u] + Outstanding(u)
    BY <1>8, AbandonBound DEF Crash
  <2> QED
    BY <1>8, <2>1, <2>2, <1>0 DEF Crash
<1> QED
  BY <1>1, <1>2, <1>3, <1>4, <1>5, <1>6, <1>7, <1>8
  DEF Next, vars, Verdict, Request, Endpoint, approve, reject

-----------------------------------------------------------------------------
\* The endpoint forgets nothing, and no step removes or downgrades a record.
LEMMA Monotone ==
    ASSUME TypeOK, OneOwnerPerClaim, [Next]_vars, NEW t \in Targets
    PROVE  /\ accepted'[t] >= accepted[t]
           /\ deliveries[t] = "recorded" => deliveries'[t] = "recorded" /\ posts'[t] = posts[t]
<1> USE DEF TypeOK
<1>1. CASE UNCHANGED <<accepted, deliveries, posts>>
  BY <1>1
<1>2. ASSUME NEW c \in Calls, NEW u \in Targets, BeginPost(c, u) \/ AttemptUnconfigured(c, u)
      PROVE  /\ accepted'[t] >= accepted[t]
             /\ deliveries[t] = "recorded" => deliveries'[t] = "recorded" /\ posts'[t] = posts[t]
  <2>1. deliveries[u] = "none" /\ UNCHANGED accepted
    BY <1>2 DEF BeginPost, AttemptUnconfigured, claim_delivery
  <2>2. t # u => deliveries'[t] = deliveries[t] /\ posts'[t] = posts[t]
    BY <1>2 DEF BeginPost, AttemptUnconfigured
  <2> QED
    BY <2>1, <2>2
<1>3. ASSUME NEW c \in Calls, Arrive(c)
      PROVE  accepted'[t] >= accepted[t] /\ UNCHANGED <<deliveries, posts>>
  BY <1>3 DEF Arrive
<1>4. ASSUME NEW u \in Targets, ArriveLate(u)
      PROVE  accepted'[t] >= accepted[t] /\ UNCHANGED <<deliveries, posts>>
  BY <1>4 DEF ArriveLate
<1>5. ASSUME NEW c \in Calls, Resolve(c)
      PROVE  /\ accepted'[t] >= accepted[t]
             /\ deliveries[t] = "recorded" => deliveries'[t] = "recorded" /\ posts'[t] = posts[t]
  <2>1. UNCHANGED <<accepted, posts>>
    BY <1>5 DEF Resolve, Acknowledge, AcknowledgeAsClaim, GiveUp, CommitFails
  <2>2. call[c].target \in Targets /\ deliveries[call[c].target] = "claimed"
    BY <1>5, SendingShape
    DEF Resolve, Acknowledge, AcknowledgeAsClaim, GiveUp, CommitFails, Sending, SendingOn, OneOwnerPerClaim
  <2>3. t # call[c].target => deliveries'[t] = deliveries[t]
    BY <1>5 DEF Resolve, Acknowledge, AcknowledgeAsClaim, GiveUp, CommitFails
  <2> QED
    BY <2>1, <2>2, <2>3
<1> QED
  BY <1>1, <1>2, <1>3, <1>4, <1>5
  DEF Next, vars, Verdict, Request, Endpoint, approve, reject, Refuse,
      AnswerAlreadyDelivered, Crash

\* A handler is answered only by an endpoint that has acted on its post.
LEMMA LandedStep ==
    ASSUME TypeOK, OneOwnerPerClaim, LandedWasAccepted, [Next]_vars, TypeOK'
    PROVE  LandedWasAccepted'
<1> SUFFICES ASSUME NEW c \in Calls, Sending(c)', call'[c].landed
             PROVE  accepted'[call'[c].target] > 0
  BY DEF LandedWasAccepted
<1>1. CASE call'[c] = call[c]
  <2>1. call[c].target \in Targets /\ accepted[call[c].target] > 0
    BY <1>1, SendingShape DEF LandedWasAccepted, Sending, TypeOK
  <2>2. accepted'[call[c].target] >= accepted[call[c].target]
    BY <2>1, Monotone
  <2> QED
    BY <1>1, <2>1, <2>2 DEF TypeOK
<1>2. CASE Arrive(c)
  <2>1. PICK t \in Targets : t = call[c].target
    BY <1>2, SendingShape DEF Arrive, Sending, TypeOK
  <2>2. call'[c] = SendCall(t, TRUE) /\ accepted'[t] = accepted[t] + 1
    BY <1>2, <2>1 DEF Arrive, TypeOK
  <2>3. call'[c].target = t /\ accepted[t] \in Nat
    BY <2>2 DEF SendCall, TypeOK
  <2>4. accepted'[t] > 0
    BY <2>2, <2>3
  <2> QED
    BY <2>3, <2>4
<1>3. call'[c] = call[c] \/ Arrive(c)
  <2>1. \A d \in Calls : \A r : Reply(d, r) => call'[c] = call[c]
    BY DEF Reply, IdleCall, Sending, TypeOK
  <2>2. ASSUME NEW d \in Calls, NEW t \in Targets, BeginPost(d, t) PROVE call'[c] = call[c]
    BY <2>2 DEF BeginPost, SendCall, TypeOK
  <2>3. ASSUME NEW d \in Calls, Arrive(d) PROVE call'[c] = call[c] \/ Arrive(c)
    BY <2>3 DEF Arrive, TypeOK
  <2>4. ~ Crash
    BY DEF Crash, IdleCall, Sending
  <2> QED
    BY <2>1, <2>2, <2>3, <2>4
    DEF Next, vars, Verdict, Request, Endpoint, Resolve, approve, reject, Refuse,
        AnswerAlreadyDelivered, AttemptUnconfigured, ArriveLate, Acknowledge, AcknowledgeAsClaim,
        GiveUp, CommitFails
<1> QED
  BY <1>1, <1>2, <1>3

\* Records and delivery entries appear only on an answer of the endpoint.
LEMMA RecordStep ==
    ASSUME TypeOK, OneOwnerPerClaim, LandedWasAccepted, RecordIsTrue, [Next]_vars, TypeOK'
    PROVE  RecordIsTrue'
<1> USE DEF TypeOK, RecordIsTrue
<1>1. ASSUME NEW u \in Targets, accepted[u] > 0 PROVE accepted'[u] > 0
  BY <1>1, Monotone
<1>2. ASSUME NEW e \in audit, e.event_type = "delivery"
      PROVE  \E ch \in Channels : accepted'[<<e.incident, ch>>] > 0
  <2>1. PICK ch \in Channels : accepted[<<e.incident, ch>>] > 0
    BY <1>2
  <2>2. <<e.incident, ch>> \in Targets
    BY DEF Entries, Targets
  <2> QED
    BY <1>1, <2>1, <2>2
<1>3. ASSUME NEW c \in Calls, Acknowledge(c) \/ AcknowledgeAsClaim(c) PROVE RecordIsTrue'
  <2>1. PICK t \in Targets : t = call[c].target
    BY <1>3, SendingShape DEF Acknowledge, AcknowledgeAsClaim, Sending
  <2>2. /\ accepted[t] > 0
        /\ \A u \in Targets : u # t => deliveries'[u] = deliveries[u]
    BY <1>3, <2>1 DEF Acknowledge, AcknowledgeAsClaim, LandedWasAccepted
  <2>3. audit' \in {audit, audit \cup {Entry("delivery", t[1])}}
    BY <1>3, <2>1 DEF Acknowledge, AcknowledgeAsClaim, WriteAudit
  <2>4. t[2] \in Channels /\ t = <<t[1], t[2]>> /\ accepted'[t] > 0
    BY <1>1, <2>2 DEF Targets
  <2>5. \A u \in Targets : deliveries'[u] = "recorded" => accepted'[u] > 0
    BY <1>1, <2>2
  <2>6. ASSUME NEW e \in audit', e.event_type = "delivery"
        PROVE  \E ch \in Channels : accepted'[<<e.incident, ch>>] > 0
    <3>1. CASE e \in audit
      BY <1>2, <2>6, <3>1
    <3>2. CASE e = Entry("delivery", t[1])
      BY <3>2, <2>4 DEF Entry
    <3> QED
      BY <2>3, <3>1, <3>2
  <2> QED
    BY <2>5, <2>6
<1>4. ASSUME \A u \in Targets : deliveries'[u] = "recorded" => deliveries[u] = "recorded",
             \A e \in audit' : e.event_type = "delivery" => e \in audit
      PROVE  RecordIsTrue'
  BY <1>1, <1>2, <1>4
<1>5. \/ \E c \in Calls : Acknowledge(c) \/ AcknowledgeAsClaim(c)
      \/ /\ \A u \in Targets : deliveries'[u] = "recorded" => deliveries[u] = "recorded"
         /\ \A e \in audit' : e.event_type = "delivery" => e \in audit
  <2>1. ASSUME NEW i \in Incidents, approve(i) \/ reject(i)
        PROVE  UNCHANGED deliveries /\ \A e \in audit' : e.event_type = "delivery" => e \in audit
    <3>1. UNCHANGED deliveries /\ \E type \in {"approved", "rejected"} : WriteAudit(type, i)
      BY <2>1 DEF approve, reject
    <3>2. \A type \in {"approved", "rejected"} : Entry(type, i).event_type # "delivery"
      BY DEF Entry
    <3> QED
      BY <3>1, <3>2 DEF WriteAudit
  <2>2. ASSUME NEW c \in Calls, NEW t \in Targets, BeginPost(c, t) \/ AttemptUnconfigured(c, t)
        PROVE  /\ \A u \in Targets : deliveries'[u] = "recorded" => deliveries[u] = "recorded"
               /\ UNCHANGED audit
    BY <2>2 DEF BeginPost, AttemptUnconfigured
  <2>3. ASSUME NEW c \in Calls, GiveUp(c)
        PROVE  /\ \A u \in Targets : deliveries'[u] = "recorded" => deliveries[u] = "recorded"
               /\ UNCHANGED audit
    BY <2>3 DEF GiveUp, release_delivery_claim
  <2> QED
    BY <2>1, <2>2, <2>3
    DEF Next, vars, Verdict, Request, Endpoint, Resolve, Refuse, AnswerAlreadyDelivered,
        Arrive, ArriveLate, CommitFails, Crash
<1> QED
  BY <1>3, <1>4, <1>5

-----------------------------------------------------------------------------
\* The invariant behind the theorems below: types, consent, one owner per
\* claim, and the accounting of posts hold together in every reachable state.
THEOREM InvariantHolds == Spec => []DeliveryInv
<1>1. Init => DeliveryInv
  <2> SUFFICES ASSUME Init PROVE DeliveryInv
    OBVIOUS
  <2>1. TypeOK
    BY DeliveryAssumption, CallShapes
    DEF Init, TypeOK, Rows, Replies, Verdicts, Entries
  <2>2. AllowedIsApproved
    BY EvaluateGate DEF Init, StoredStatus, AllowedIsApproved
  <2>3. \A c \in Calls : ~ Sending(c)
    BY DEF Init, Sending, IdleCall
  <2>4. OneOwnerPerClaim /\ LandedWasAccepted /\ RecordIsTrue
    BY <2>3 DEF Init, OneOwnerPerClaim, LandedWasAccepted, RecordIsTrue, SendingOn
  <2>5. PostsAccounted
    BY <2>3 DEF Init, PostsAccounted, Outstanding, SendingOn
  <2> QED
    BY <2>1, <2>2, <2>4, <2>5 DEF DeliveryInv
<1>2. DeliveryInv /\ TypeOK' /\ [Next]_vars => DeliveryInv'
  BY ConsentStep, OwnerStep, AccountingStep, LandedStep, RecordStep DEF DeliveryInv
<1> QED
  BY <1>1, <1>2, TypeCorrect, PTL DEF Spec

\* A stored decision reads "allowed" only after an operator's standing approval
\* of an executable plan, however approvals, rejections and deliveries mix.
THEOREM AllowedOnlyAfterApproval == Spec => []AllowedIsApproved
  BY InvariantHolds, PTL DEF DeliveryInv

\* claim_delivery serialises the senders of a target, and only a fault can
\* leave a claim without a sender.
THEOREM OneSenderPerTarget == Spec => []OneOwnerPerClaim
  BY InvariantHolds, PTL DEF DeliveryInv

\* The endpoint acts on a target again only after a failure was reported.
THEOREM DuplicatesAreRetries == Spec => []DuplicatesComeFromRetries
<1>1. DeliveryInv => DuplicatesComeFromRetries
  <2> SUFFICES ASSUME DeliveryInv, NEW t \in Targets
               PROVE  accepted[t] <= failures[t] + 1
    BY DEF DuplicatesComeFromRetries
  <2>1. /\ accepted[t] \in Nat /\ transit[t] \in Nat /\ posts[t] \in Nat /\ failures[t] \in Nat
        /\ accepted[t] + transit[t] + Outstanding(t) <= posts[t]
        /\ posts[t] <= failures[t] + (IF deliveries[t] = "none" THEN 0 ELSE 1)
    BY DEF DeliveryInv, TypeOK, PostsAccounted
  <2>2. Outstanding(t) \in {0, 1}
    BY OutstandingType
  <2> QED
    BY <2>1, <2>2
<1> QED
  BY <1>1, InvariantHolds, PTL

\* A recorded delivery is one the endpoint acted on.
THEOREM RecordsAreTrue == Spec => []RecordIsTrue
  BY InvariantHolds, PTL DEF DeliveryInv

\* No step undoes a record or begins a post after it.
THEOREM RecordsAreFinal == Spec => RecordedIsFinal
<1>1. DeliveryInv /\ [Next]_vars =>
        [\A t \in Targets : deliveries[t] = "recorded" =>
            deliveries'[t] = "recorded" /\ posts'[t] = posts[t]]_vars
  BY Monotone DEF DeliveryInv
<1> QED
  BY <1>1, InvariantHolds, PTL DEF Spec, RecordedIsFinal

\* No post begins without a standing approval or beside another one.
THEOREM PostsNeedApproval == Spec => PostNeedsStandingApproval
<1>1. ASSUME DeliveryInv, [Next]_vars, NEW t \in Targets, posts'[t] > posts[t]
      PROVE  verdict[t[1]] = "approved" /\ ~ \E c \in Calls : SendingOn(c, t)
  <2>1. PICK c \in Calls, u \in Targets : BeginPost(c, u)
    <3>1. posts' # posts
      BY <1>1 DEF DeliveryInv, TypeOK
    <3> QED
      BY <1>1, <3>1
      DEF Next, vars, Verdict, Request, Endpoint, Resolve, approve, reject, Refuse,
          AnswerAlreadyDelivered, AttemptUnconfigured, Arrive, ArriveLate, Acknowledge, AcknowledgeAsClaim,
          GiveUp, CommitFails, Crash
  <2>2. u = t
    <3>1. posts' = [posts EXCEPT ![u] = posts[u] + 1]
      BY <2>1 DEF BeginPost
    <3>2. u # t => posts'[t] = posts[t]
      BY <3>1, <1>1 DEF DeliveryInv, TypeOK
    <3>3. posts[t] \in Nat
      BY <1>1 DEF DeliveryInv, TypeOK
    <3> QED
      BY <3>2, <3>3, <1>1
  <2>3. t[1] \in Incidents
    BY DEF Targets
  <2> QED
    BY <1>1, <2>1, <2>2, <2>3
    DEF BeginPost, MayDeliver, claim_delivery, DeliveryInv, AllowedIsApproved, OneOwnerPerClaim
<1>2. DeliveryInv /\ [Next]_vars =>
        [\A t \in Targets : posts'[t] > posts[t] =>
            /\ verdict[t[1]] = "approved"
            /\ ~ \E c \in Calls : SendingOn(c, t)]_vars
  BY <1>1
<1> QED
  BY <1>2, InvariantHolds, PTL DEF Spec, PostNeedsStandingApproval

-----------------------------------------------------------------------------
(* Delivery implements HandoffPromise.                                     *)

ConsentBar == [i \in Incidents |-> decision[i].policy_status = "allowed"]
HandoffBar == [t \in Targets |-> Handoff(t)]

\* The state of a hand-off depends on its row and its senders only.
LEMMA HandoffFrame ==
    ASSUME NEW u, deliveries'[u] = deliveries[u],
           \A d \in Calls : SendingOn(d, u)' <=> SendingOn(d, u)
    PROVE  Handoff(u)' = Handoff(u)
  BY DEF Handoff

\* A step that moves one hand-off and leaves consent alone is a Move of it.
LEMMA MoveBar ==
    ASSUME NEW t \in Targets, NEW from, NEW to,
           Handoff(t) = from, Handoff(t)' = to,
           \A u \in Targets : u # t => Handoff(u)' = Handoff(u),
           UNCHANGED decision
    PROVE  /\ HandoffBar[t] = from
           /\ HandoffBar' = [HandoffBar EXCEPT ![t] = to]
           /\ UNCHANGED ConsentBar
  BY DEF HandoffBar, ConsentBar

\* Every step of the delivery path is a step of the promise or leaves it be.
LEMMA PromiseStep ==
    ASSUME DeliveryInv, [Next]_vars
    PROVE  [Promise!Next]_(Promise!hvars)
<1> USE DEF DeliveryInv, TypeOK
<1> SUFFICES Promise!Next \/ UNCHANGED <<ConsentBar, HandoffBar>>
  BY DEF Promise!hvars, ConsentBar, HandoffBar
<1>1. ASSUME NEW i \in Incidents, approve(i) \/ reject(i) PROVE Promise!Next
  <2>1. HandoffBar' = HandoffBar
    BY <1>1 DEF approve, reject, HandoffBar, Handoff, SendingOn, Sending
  <2>2. \A j \in Incidents : j # i => decision'[j] = decision[j]
    BY <1>1 DEF approve, reject, SetStatus
  <2>3. ConsentBar' = [ConsentBar EXCEPT ![i] = (decision'[i].policy_status = "allowed")]
    BY <2>2 DEF ConsentBar
  <2>4. (decision'[i].policy_status = "allowed") \in BOOLEAN
    OBVIOUS
  <2>5. Promise!Decide(i)
    BY <2>1, <2>3, <2>4 DEF Promise!Decide, ConsentBar, HandoffBar
  <2> QED
    BY <2>5 DEF Promise!Next
<1>2. ASSUME UNCHANGED decision, \A u \in Targets : Handoff(u)' = Handoff(u)
      PROVE  UNCHANGED <<ConsentBar, HandoffBar>>
  BY <1>2 DEF ConsentBar, HandoffBar
<1>3. ASSUME NEW c \in Calls, NEW t \in Targets, Refuse(c, t) \/ AnswerAlreadyDelivered(c, t)
      PROVE  UNCHANGED <<ConsentBar, HandoffBar>>
  <2>1. /\ UNCHANGED <<decision, deliveries>>
        /\ \A d \in Calls, u \in Targets : SendingOn(d, u)' <=> SendingOn(d, u)
    BY <1>3, ReplyFrame DEF Refuse, AnswerAlreadyDelivered, Idle, Sending, SendingOn
  <2> QED
    BY <2>1, <1>2, HandoffFrame
<1>4. ASSUME NEW c \in Calls, NEW t \in Targets, BeginPost(c, t) PROVE Promise!Next
  <2>1. \A d \in Calls, u \in Targets :
           SendingOn(d, u)' <=> IF d = c THEN u = t ELSE SendingOn(d, u)
    BY <1>4 DEF BeginPost, SendingOn, Sending, SendCall
  <2>2. \A u \in Targets : ~ SendingOn(c, u)
    BY <1>4 DEF BeginPost, Idle, SendingOn, Sending
  <2>3. /\ deliveries[t] = "none" /\ deliveries'[t] = "claimed" /\ UNCHANGED decision
        /\ \A u \in Targets : u # t => deliveries'[u] = deliveries[u]
    BY <1>4 DEF BeginPost, claim_delivery
  <2>4. Handoff(t) = "open" /\ Handoff(t)' = "attempting"
    BY <2>1, <2>3 DEF Handoff
  <2>5. \A u \in Targets : u # t => Handoff(u)' = Handoff(u)
    BY <2>1, <2>2, <2>3, HandoffFrame
  <2>6. t[1] \in Incidents /\ ConsentBar[t[1]]
    BY <1>4 DEF BeginPost, MayDeliver, Targets, ConsentBar
  <2>7. Promise!Begin(t)
    BY <2>3, <2>4, <2>5, <2>6, MoveBar
    DEF Promise!Begin, Promise!Move, ConsentBar, HandoffBar
  <2> QED
    BY <2>7 DEF Promise!Next, Promise!Targets, Targets
<1>5. ASSUME NEW t \in Targets, UNCHANGED decision, deliveries'[t] = "claimed",
             \A d \in Calls : ~ SendingOn(d, t)',
             \A u \in Targets : u # t => Handoff(u)' = Handoff(u),
             Handoff(t) = "attempting" \/ (Handoff(t) = "open" /\ ConsentBar[t[1]])
      PROVE  Promise!Next
  <2>1. Handoff(t)' = "stranded"
    BY <1>5 DEF Handoff
  <2>2. Promise!Strand({t})
    BY <1>5, <2>1 DEF Promise!Strand, Promise!Targets, Targets, ConsentBar, HandoffBar
  <2> QED
    BY <2>2 DEF Promise!Next, Promise!Targets, Targets
<1>6. ASSUME NEW c \in Calls, NEW t \in Targets, AttemptUnconfigured(c, t)
      PROVE  Promise!Next \/ UNCHANGED <<ConsentBar, HandoffBar>>
  <2>1. \A d \in Calls, u \in Targets : SendingOn(d, u)' <=> SendingOn(d, u)
    BY <1>6, ReplyFrame DEF AttemptUnconfigured, Idle, Sending, SendingOn
  <2>2. CASE UNCHANGED deliveries
    BY <1>6, <2>1, <2>2, <1>2, HandoffFrame DEF AttemptUnconfigured
  <2>3. CASE deliveries' = [deliveries EXCEPT ![t] = "claimed"]
    <3>1. deliveries[t] = "none" /\ UNCHANGED decision /\ MayDeliver(t)
      BY <1>6 DEF AttemptUnconfigured, claim_delivery
    <3>2. \A d \in Calls : ~ SendingOn(d, t)'
      BY <2>1, <3>1 DEF OneOwnerPerClaim
    <3>3. \A u \in Targets : u # t => Handoff(u)' = Handoff(u)
      BY <2>1, <2>3, HandoffFrame
    <3>4. Handoff(t) = "open" /\ ConsentBar[t[1]]
      BY <3>1 DEF Handoff, ConsentBar, MayDeliver, Targets
    <3> QED
      BY <2>3, <3>1, <3>2, <3>3, <3>4, <1>5
  <2> QED
    BY <1>6, <2>2, <2>3 DEF AttemptUnconfigured
<1>7. ASSUME NEW c \in Calls, Arrive(c) PROVE UNCHANGED <<ConsentBar, HandoffBar>>
  <2>1. /\ UNCHANGED <<decision, deliveries>>
        /\ \A d \in Calls, u \in Targets : SendingOn(d, u)' <=> SendingOn(d, u)
    BY <1>7 DEF Arrive, SendingOn, Sending, SendCall
  <2> QED
    BY <2>1, <1>2, HandoffFrame
<1>8. ASSUME NEW c \in Calls, Resolve(c) PROVE Promise!Next
  <2>1. PICK t \in Targets : t = call[c].target /\ SendingOn(c, t)
    BY <1>8, SendingShape DEF Resolve, Acknowledge, AcknowledgeAsClaim, GiveUp, CommitFails, Sending, SendingOn
  <2>2. \A d \in Calls, u \in Targets : SendingOn(d, u)' <=> d # c /\ SendingOn(d, u)
    BY <1>8, ReplyFrame DEF Resolve, Acknowledge, AcknowledgeAsClaim, GiveUp, CommitFails
  <2>3. \A u \in Targets : u # t => ~ SendingOn(c, u)
    BY <2>1 DEF SendingOn
  <2>4. deliveries[t] = "claimed" /\ Handoff(t) = "attempting"
    BY <2>1 DEF OneOwnerPerClaim, Handoff
  <2>5. UNCHANGED decision /\ \A u \in Targets : u # t => deliveries'[u] = deliveries[u]
    BY <1>8, <2>1 DEF Resolve, Acknowledge, AcknowledgeAsClaim, GiveUp, CommitFails
  <2>6. \A u \in Targets : u # t => Handoff(u)' = Handoff(u)
    BY <2>2, <2>3, <2>5, HandoffFrame
  <2>7. CASE Acknowledge(c)
    <3>1. Handoff(t)' = "done"
      BY <2>1, <2>7 DEF Acknowledge, Handoff
    <3>2. Promise!Complete(t)
      BY <2>4, <2>5, <2>6, <3>1, MoveBar
      DEF Promise!Complete, Promise!Move, ConsentBar, HandoffBar
    <3> QED
      BY <3>2 DEF Promise!Next, Promise!Targets, Targets
  <2>8. CASE GiveUp(c)
    <3>1. Handoff(t)' = "open"
      BY <2>1, <2>4, <2>8 DEF GiveUp, release_delivery_claim, Handoff
    <3>2. Promise!Fail(t)
      BY <2>4, <2>5, <2>6, <3>1, MoveBar
      DEF Promise!Fail, Promise!Move, ConsentBar, HandoffBar
    <3> QED
      BY <3>2 DEF Promise!Next, Promise!Targets, Targets
  <2>9. CASE CommitFails(c)
    <3>1. deliveries'[t] = "claimed"
      BY <2>4, <2>9 DEF CommitFails
    <3>2. \A d \in Calls : ~ SendingOn(d, t)'
      BY <2>1, <2>2 DEF OneOwnerPerClaim
    <3> QED
      BY <2>4, <2>5, <2>6, <3>1, <3>2, <1>5
  <2>10. CASE AcknowledgeAsClaim(c)
    <3>1. deliveries'[t] = "claimed"
      BY <2>1, <2>10 DEF AcknowledgeAsClaim
    <3>2. \A d \in Calls : ~ SendingOn(d, t)'
      BY <2>1, <2>2 DEF OneOwnerPerClaim
    <3> QED
      BY <2>4, <2>5, <2>6, <3>1, <3>2, <1>5
  <2> QED
    BY <1>8, <2>7, <2>8, <2>9, <2>10 DEF Resolve
<1>9. CASE Crash
  <2> DEFINE S == {t \in Targets : Handoff(t) = "attempting"}
  <2>1. UNCHANGED <<decision, deliveries>> /\ \A d \in Calls, u \in Targets : ~ SendingOn(d, u)'
    BY <1>9 DEF Crash, SendingOn, Sending, IdleCall
  <2>2. \A u \in Targets : Handoff(u)' = IF u \in S THEN "stranded" ELSE Handoff(u)
    BY <2>1 DEF Handoff
  <2>3. Promise!Strand(S)
    BY <2>1, <2>2 DEF Promise!Strand, Promise!Targets, Targets, ConsentBar, HandoffBar
  <2>4. S \in SUBSET Targets
    OBVIOUS
  <2> QED
    BY <2>3, <2>4 DEF Promise!Next, Promise!Targets, Targets
<1>10. CASE UNCHANGED <<decision, deliveries, call>>
  BY <1>10, <1>2 DEF Handoff, SendingOn, Sending
<1> QED
  BY <1>1, <1>3, <1>4, <1>6, <1>7, <1>8, <1>9, <1>10
  DEF Next, vars, Verdict, Request, Endpoint, ArriveLate

\* Approvals, claims, posts and faults together implement the hand-off promise:
\* one attempt at a time, only under consent, and never again once done.
THEOREM ImplementsPromise == Spec => KeepsPromise
<1>1. Init => Promise!Init
  <2> SUFFICES ASSUME Init PROVE Promise!Init
    OBVIOUS
  <2>1. \A i \in Incidents : decision[i].policy_status # "allowed"
    <3> TAKE i \in Incidents
    <3>1. decision[i].plan \in Plan /\ decision[i].policy_status \in StoredStatus(decision[i].plan)
      BY DeliveryAssumption DEF Init
    <3> QED
      BY <3>1, EvaluateGate DEF StoredStatus
  <2>2. \A t \in Targets : Handoff(t) = "open"
    BY DEF Init, Handoff
  <2>3. [i \in Incidents |-> decision[i].policy_status = "allowed"] = [i \in Incidents |-> FALSE]
    BY <2>1, Zenon
  <2>4. [t \in Targets |-> Handoff(t)] = [t \in Targets |-> "open"]
    BY <2>2, Zenon
  <2> QED
    BY <2>3, <2>4, Zenon DEF Promise!Init, Promise!Targets, Targets
<1>2. DeliveryInv /\ [Next]_vars => [Promise!Next]_(Promise!hvars)
  BY PromiseStep
<1> QED
  BY <1>1, <1>2, InvariantHolds, PTL DEF Spec, KeepsPromise, Promise!Spec

-----------------------------------------------------------------------------
(* Delivery implements DecisionLife: its decisions are all stored.         *)

LifeBar == [i \in Incidents |-> decision[i].policy_status]
OpenBar == {i \in Incidents : Executable(decision[i].plan)}

\* A new status for one decision is a new status for one row, and opens none.
LEMMA SetStatusBar ==
    ASSUME TypeOK, NEW i \in Incidents, NEW status, SetStatus(i, status)
    PROVE  /\ LifeBar' = [LifeBar EXCEPT ![i] = status]
           /\ OpenBar' = OpenBar
<1>1. /\ decision'[i].policy_status = status /\ decision'[i].plan = decision[i].plan
      /\ \A j \in Incidents \ {i} : decision'[j] = decision[j]
  BY DEF SetStatus, TypeOK
<1> QED
  BY <1>1 DEF LifeBar, OpenBar

\* A row that is stored is none that is absent.
LEMMA AllStored ==
    ASSUME TypeOK, NEW i \in Incidents
    PROVE  LifeBar[i] # "absent"
  BY DEF TypeOK, LifeBar, Statuses

\* What the delivery path does to decisions is what DecisionLife lets handlers
\* do: only verdicts change one, and an approval opens exactly the executable.
THEOREM JudgesKeepContract == Spec => JudgesByContract
<1>1. Init => Life!Init
  <2> SUFFICES ASSUME Init PROVE Life!Init
    OBVIOUS
  <2>1. \A i \in Incidents : decision[i].policy_status \in {"approval_required", "blocked"}
    <3> TAKE i \in Incidents
    <3>1. decision[i].policy_status \in {evaluate(decision[i].plan, FALSE), "blocked"}
      BY DEF Init, StoredStatus
    <3>2. evaluate(decision[i].plan, FALSE) \in {"approval_required", "blocked"}
      BY DEF evaluate
    <3> QED
      BY <3>1, <3>2
  <2>2. /\ LifeBar \in [Incidents -> {"absent", "approval_required", "blocked"}]
        /\ OpenBar \subseteq {i \in Incidents : LifeBar[i] # "absent"}
    BY <2>1 DEF LifeBar, OpenBar
  <2> QED
    BY <2>2 DEF Life!Init, LifeBar, OpenBar
<1>2. TypeOK /\ [Next]_vars => [Life!Next]_(Life!lvars)
  <2> SUFFICES ASSUME TypeOK, [Next]_vars
               PROVE  Life!Next \/ UNCHANGED decision
    BY DEF Life!lvars
  <2>1. ASSUME NEW i \in Incidents, reject(i) PROVE Life!Next
    <3>1. /\ LifeBar[i] # "absent"
          /\ LifeBar' = [LifeBar EXCEPT ![i] = "blocked"]
          /\ OpenBar' = OpenBar
      BY <2>1, AllStored, SetStatusBar DEF reject
    <3>2. Life!Reject(i)
      BY <3>1 DEF Life!Reject, Life!Stored, Life!Become, LifeBar, OpenBar
    <3> QED
      BY <3>2 DEF Life!Next
  <2>2. ASSUME NEW i \in Incidents, approve(i) PROVE Life!Next
    <3> DEFINE s == IF i \in OpenBar THEN "allowed" ELSE "blocked"
    <3>1. evaluate(decision[i].plan, TRUE) = s
      BY DEF evaluate, Executable, OpenBar
    <3>2. SetStatus(i, s)
      BY <2>2, <3>1 DEF approve
    <3>3. s = "allowed" \/ s = "blocked"
      OBVIOUS
    <3>4. /\ LifeBar[i] # "absent"
          /\ LifeBar' = [LifeBar EXCEPT ![i] = s]
          /\ OpenBar' = OpenBar
      <4>1. CASE s = "allowed"
        BY <3>2, <4>1, AllStored, SetStatusBar
      <4>2. CASE s = "blocked"
        BY <3>2, <4>2, AllStored, SetStatusBar
      <4> QED
        BY <3>3, <4>1, <4>2
    <3>5. Life!Approve(i)
      BY <3>4 DEF Life!Approve, Life!Stored, Life!Become, LifeBar, OpenBar
    <3> QED
      BY <3>5 DEF Life!Next
  <2>3. CASE Request \/ Endpoint \/ (\E c \in Calls : Resolve(c)) \/ Crash \/ UNCHANGED vars
    BY <2>3 DEF Request, Refuse, AnswerAlreadyDelivered, BeginPost, AttemptUnconfigured,
                Endpoint, Arrive, ArriveLate, Resolve, Acknowledge, AcknowledgeAsClaim,
                GiveUp, CommitFails, Crash, vars
  <2> QED
    BY <2>1, <2>2, <2>3 DEF Next, Verdict
<1> QED
  BY <1>1, <1>2, TypeCorrect, PTL DEF Spec, JudgesByContract, Life!Spec
=============================================================================
