--------------------------- MODULE OfflineDrafts ---------------------------
(***************************************************************************)
(* Approvals and rejections sent from the dashboard through the service    *)
(* worker (static/sw.js and the two buttons of static/index.html) to the   *)
(* approve and reject endpoints, over a network that loses requests and    *)
(* answers.  The worker sees a failed fetch in both cases, keeps a draft   *)
(* and answers the page itself.  A plan is executable or not; the policy   *)
(* gate is the one of module Policy.                                       *)
(***************************************************************************)
EXTENDS Policy

CONSTANTS
    Incidents,  \* stored decisions
    Plans,      \* their plans
    Browsers,   \* dashboards, each with its worker and its draft store
    None        \* no draft, no answer

VARIABLES
    plan,    \* the plan of each decision
    status,  \* server: policy_status of each decision
    sent,    \* per browser: the verdict under way
    drafts,  \* per browser: IndexedDB, one draft for each incident
    answer   \* per browser: what the page was last told

vars == <<plan, status, sent, drafts, answer>>

Verdicts == {"approve", "reject"}
Stages   == {"idle", "sent", "served"}

TypeOK ==
    /\ plan \in [Incidents -> Plans]
    /\ status \in [Incidents -> Statuses]
    /\ sent \in [Browsers -> [stage : Stages, incident : Incidents, verdict : Verdicts]]
    /\ drafts \in [Browsers -> [Incidents -> Verdicts \cup {None}]]
    /\ answer \in [Browsers -> {None, "served", "drafted_offline"}]

Init ==
    /\ plan \in [Incidents -> Plans]
    /\ status = [i \in Incidents |-> evaluate(plan[i], FALSE)]
    /\ sent \in [Browsers -> [stage : {"idle"}, incident : Incidents, verdict : {"approve"}]]
    /\ drafts = [b \in Browsers |-> [i \in Incidents |-> None]]
    /\ answer = [b \in Browsers |-> None]

\* approveCurrent and rejectCurrent: the button sends the POST, one at a time.
Send(b, i, verdict) ==
    /\ sent[b].stage = "idle" \/ answer[b] # None
    /\ sent' = [sent EXCEPT ![b] = [stage |-> "sent", incident |-> i, verdict |-> verdict]]
    /\ answer' = [answer EXCEPT ![b] = None]
    /\ UNCHANGED <<plan, status, drafts>>

\* The endpoint applies the verdict; its answer is on the way.
Serve(b) ==
    LET i == sent[b].incident
    IN  /\ sent[b].stage = "sent"
        /\ status' = [status EXCEPT ![i] = IF sent[b].verdict = "approve"
                                           THEN evaluate(plan[i], TRUE) ELSE "blocked"]
        /\ sent' = [sent EXCEPT ![b].stage = "served"]
        /\ UNCHANGED <<plan, drafts, answer>>

Answered(b) ==
    /\ sent[b].stage = "served"
    /\ answer[b] = None
    /\ answer' = [answer EXCEPT ![b] = "served"]
    /\ UNCHANGED <<plan, status, sent, drafts>>

\* The fetch fails, before or after the server has served it.  The draft
\* replaces an earlier one of the incident; an error of the draft store is
\* swallowed, and the answer is the same.
FetchFails(b) ==
    /\ sent[b].stage \in {"sent", "served"}
    /\ answer[b] = None
    /\ answer' = [answer EXCEPT ![b] = "drafted_offline"]
    /\ \/ drafts' = [drafts EXCEPT ![b][sent[b].incident] = sent[b].verdict]
       \/ UNCHANGED drafts
    /\ sent' = [sent EXCEPT ![b].stage = IF sent[b].stage = "sent" THEN "idle" ELSE "served"]
    /\ UNCHANGED <<plan, status>>

Next ==
    \E b \in Browsers :
        \/ \E i \in Incidents, verdict \in Verdicts : Send(b, i, verdict)
        \/ Serve(b)
        \/ Answered(b)
        \/ FetchFails(b)

Spec == Init /\ [][Next]_vars

-----------------------------------------------------------------------------
(* The worker's promise.                                                   *)

\* Does not hold.  A verdict that was answered with a draft has not changed the
\* server (the comment at sw.js:88): what is under way from this browser was
\* not applied.
DraftedIsNotApplied ==
    \A b \in Browsers : answer[b] = "drafted_offline" => sent[b].stage # "served"
=============================================================================
