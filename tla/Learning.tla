------------------------------ MODULE Learning ------------------------------
(***************************************************************************)
(* Operator feedback and the playbook memory: record_feedback in           *)
(* app/service.py with the feedback endpoint, the feedback and memories    *)
(* tables, retirement, and the assessments that retrieve rules.            *)
(*                                                                         *)
(* record_feedback waits once for the model that turns the correction into *)
(* a rule, and the endpoint waits again for Supabase.  An assessment ranks *)
(* the rules before it asks its model and stores what it ranked with the   *)
(* decision.  Other handlers and a process death run in these waits.       *)
(*                                                                         *)
(* Texts, tags and scores are left out: which of the newest active rules   *)
(* score best for an assessment is chosen freely.  The audit entries these *)
(* handlers add are in module AuditChain.  The evaluation harness uses the *)
(* same operations, one after the other, in a store of its own.            *)
(***************************************************************************)
EXTENDS Naturals, Sequences, FiniteSets

CONSTANTS
    Incidents,    \* incidents whose decisions operators comment on
    Requests,     \* feedback requests the server can be serving at once
    Assessments,  \* assessments that can be waiting for the model at once
    RankLimit,    \* active rules rank_memories looks at: the 100 newest
    TopRules,     \* rules given to the model: the best three
    MaxFeedback   \* bound: rows of the feedback table

ASSUME LearningAssumption ==
    /\ RankLimit \in Nat
    /\ TopRules \in Nat
    /\ MaxFeedback \in Nat

VARIABLES
    feedback,    \* feedback table: the incident of each row, by id
    memories,    \* memories table, by id; never deleted
    remote,      \* Supabase: the feedback rows it has stored
    supabase,    \* setting: has_supabase
    request,     \* volatile: what each feedback request is doing
    assessment,  \* volatile: retrieved rules, then the stored decision
    told         \* history: rows whose client knows that Supabase may lack them

vars == <<feedback, memories, remote, supabase, request, assessment, told>>

\* origin, history: the feedback row the rule was made from.
Rule == [source : Incidents, version : Nat \ {0}, active : BOOLEAN, origin : Nat]

Asking(stage, context) == [stage |-> stage, context |-> context]
Serving(stage, row) == [stage |-> stage, row |-> row]

TypeOK ==
    /\ feedback \in Seq(Incidents)
    /\ memories \in Seq(Rule)
    /\ remote \subseteq Nat
    /\ supabase \in BOOLEAN
    /\ request \in [Requests -> [stage : {"idle", "reflecting", "mirroring"}, row : Nat]]
    /\ assessment \in [Assessments -> [stage : {"idle", "asking", "decided"},
                                       context : SUBSET Nat]]
    /\ told \subseteq Nat

Busy(r) == request[r].stage # "idle"

Init ==
    /\ feedback = << >>
    /\ memories = << >>
    /\ remote = {}
    /\ supabase \in BOOLEAN
    /\ request = [r \in Requests |-> Serving("idle", 0)]
    /\ assessment = [a \in Assessments |-> Asking("idle", {})]
    /\ told = {}

Become(r, stage, row) == request' = [request EXCEPT ![r] = Serving(stage, row)]

-----------------------------------------------------------------------------
(* POST .../feedback.                                                      *)

\* add_feedback and the request to the model.  Without an API key the answer is
\* "degraded" at once, which is Degrade without the wait.
Feedback(r, i) ==
    /\ ~ Busy(r)
    /\ Len(feedback) < MaxFeedback
    /\ feedback' = Append(feedback, i)
    /\ Become(r, "reflecting", Len(feedback) + 1)
    /\ UNCHANGED <<memories, remote, supabase, assessment, told>>

\* The end of record_feedback: on to the remote write, or the answer.
Recorded(r) ==
    IF supabase THEN Become(r, "mirroring", request[r].row) ELSE Become(r, "idle", 0)

RulesOf(i) == {m \in DOMAIN memories : memories[m].source = i}

\* Mutant of NextVersion: MAX over the active rules only.
NextVersionOfActive(i) ==
    LET used == {memories[m].version : m \in {k \in RulesOf(i) : memories[k].active}} \cup {0}
    IN  1 + CHOOSE v \in used : \A w \in used : w <= v

\* COALESCE(MAX(version), 0) + 1 over the rules of the incident, retired ones
\* included.
NextVersion(i) ==
    LET used == {memories[m].version : m \in RulesOf(i)} \cup {0}
    IN  1 + CHOOSE v \in used : \A w \in used : w <= v

\* The incident is that of the decision the request was made for.
NewRule(row) ==
    [source |-> feedback[row], version |-> NextVersion(feedback[row]),
     active |-> TRUE, origin |-> row]

\* Mutant of add_memory: the rule is made from the latest feedback row.
AddForLatest(row) == memories' = Append(memories, NewRule(Len(feedback)))

add_memory(row) == memories' = Append(memories, NewRule(row))

\* The model answered with a rule.  list_memories returns the 50 newest rows;
\* no wait separates it from the insert, so the new row is among them.
Reflect(r) ==
    /\ request[r].stage = "reflecting"
    /\ add_memory(request[r].row)
    /\ Recorded(r)
    /\ UNCHANGED <<feedback, remote, supabase, assessment, told>>

\* ReflectionUnavailable: no rule, the request goes on.
Degrade(r) ==
    /\ request[r].stage = "reflecting"
    /\ Recorded(r)
    /\ UNCHANGED <<feedback, memories, remote, supabase, assessment, told>>

\* An answer _extract_json refuses raises IntegrationUnavailable, which
\* reflect_on_feedback does not convert: the request ends as a server error,
\* before the remote write.
ReflectionRaises(r) ==
    /\ request[r].stage = "reflecting"
    /\ Become(r, "idle", 0)
    /\ told' = told \cup {request[r].row}
    /\ UNCHANGED <<feedback, memories, remote, supabase, assessment>>

\* save_feedback; the table has no key of the feedback row, one POST adds one row.
Mirror(r) ==
    /\ request[r].stage = "mirroring"
    /\ remote' = remote \cup {request[r].row}
    /\ Become(r, "idle", 0)
    /\ UNCHANGED <<feedback, memories, supabase, assessment, told>>

\* Mutant of MirrorFails: swallowed as _remote_write swallows it elsewhere.
MirrorFailsQuietly(r) ==
    /\ request[r].stage = "mirroring"
    /\ remote' \in {remote, remote \cup {request[r].row}}
    /\ Become(r, "idle", 0)
    /\ UNCHANGED <<feedback, memories, supabase, assessment, told>>

\* SupabaseUnavailable: the row may have been stored all the same.  The answer
\* says "pending_local_retry"; no code looks for such rows later.
MirrorFails(r) ==
    /\ request[r].stage = "mirroring"
    /\ remote' \in {remote, remote \cup {request[r].row}}
    /\ told' = told \cup {request[r].row}
    /\ Become(r, "idle", 0)
    /\ UNCHANGED <<feedback, memories, supabase, assessment>>

-----------------------------------------------------------------------------
(* POST /api/memory/{id}/retire.                                           *)

retire_memory(m) ==
    /\ m \in DOMAIN memories
    /\ memories[m].active
    /\ memories' = [memories EXCEPT ![m].active = FALSE]
    /\ UNCHANGED <<feedback, remote, supabase, request, assessment, told>>

-----------------------------------------------------------------------------
(* Assessments.                                                            *)

Active == {m \in DOMAIN memories : memories[m].active}

\* Mutant of active_memories: the newest rules, retired ones included.
AllMemories(limit) ==
    {m \in DOMAIN memories : Cardinality({k \in DOMAIN memories : k > m}) < limit}

\* ORDER BY id DESC LIMIT limit over the active rules.
active_memories(limit) ==
    {m \in Active : Cardinality({k \in Active : k > m}) < limit}

\* What rank_memories may return: some rules score above their confidence, the
\* best of them are taken.
rank_memories ==
    {best \in SUBSET active_memories(RankLimit) : Cardinality(best) <= TopRules}

\* rank_memories and retrieval_context, up to the first wait.
Retrieve(a) ==
    /\ assessment[a].stage # "asking"
    /\ \E context \in rank_memories :
           assessment' = [assessment EXCEPT ![a] = Asking("asking", context)]
    /\ UNCHANGED <<feedback, memories, remote, supabase, request, told>>

\* The decision is stored with the rules the model was given, whatever has
\* become of them since.
Decide(a) ==
    /\ assessment[a].stage = "asking"
    /\ assessment' = [assessment EXCEPT ![a] = Asking("decided", assessment[a].context)]
    /\ UNCHANGED <<feedback, memories, remote, supabase, request, told>>

\* The model or a scan failed: no decision is stored with these rules.
Abandon(a) ==
    /\ assessment[a].stage = "asking"
    /\ assessment' = [assessment EXCEPT ![a] = Asking("idle", {})]
    /\ UNCHANGED <<feedback, memories, remote, supabase, request, told>>

\* The process dies: waits are gone, tables and Supabase stay.  A remote write
\* under way may still arrive; the clients of open requests see no answer.
Crash ==
    LET open == {r \in Requests : Busy(r)}
        sent == {request[r].row : r \in {q \in open : request[q].stage = "mirroring"}}
    IN  /\ told' = told \cup {request[r].row : r \in open}
        /\ \E landed \in SUBSET sent : remote' = remote \cup landed
        /\ request' = [r \in Requests |-> Serving("idle", 0)]
        /\ assessment' = [a \in Assessments |->
                             IF assessment[a].stage = "asking" THEN Asking("idle", {})
                             ELSE assessment[a]]
        /\ UNCHANGED <<feedback, memories, supabase>>

Serve(r) ==
    \/ \E i \in Incidents : Feedback(r, i)
    \/ Reflect(r)
    \/ Degrade(r)
    \/ ReflectionRaises(r)
    \/ Mirror(r)
    \/ MirrorFails(r)

Assess(a) == Retrieve(a) \/ Decide(a) \/ Abandon(a)

Next ==
    \/ \E r \in Requests : Serve(r)
    \/ \E m \in DOMAIN memories : retire_memory(m)
    \/ \E a \in Assessments : Assess(a)
    \/ Crash

Spec == Init /\ [][Next]_vars

-----------------------------------------------------------------------------
(* Safety.                                                                 *)

\* The rules of an incident are numbered 1, 2, 3 and so on in the order they
\* were added, retired rules included, however feedback requests overlap: no
\* two rules shown to an operator are the same version (sqlite.py:192).
VersionsCount ==
    \A m \in DOMAIN memories :
        /\ \A k \in DOMAIN memories :
               k < m /\ memories[k].source = memories[m].source
                   => memories[k].version < memories[m].version
        /\ memories[m].version > 1
               => \E k \in DOMAIN memories :
                      /\ k < m
                      /\ memories[k].source = memories[m].source
                      /\ memories[k].version = memories[m].version - 1

\* Every rule was made from one feedback row about the same incident, and no
\* row yields two rules, whatever order the model answers in and whatever
\* request dies meanwhile (service.py:665-695).
RuleHasItsFeedback ==
    /\ \A m \in DOMAIN memories :
           /\ memories[m].origin \in DOMAIN feedback
           /\ memories[m].source = feedback[memories[m].origin]
    /\ \A m, k \in DOMAIN memories : memories[m].origin = memories[k].origin => m = k

\* Retirement is for good: a retired rule is never active again, and it enters
\* no context it was not in already, so only an assessment that was waiting for
\* the model when it was retired can still store it (service.py:265).
RetiredStaysOut ==
    [][\A m \in DOMAIN memories :
          ~ memories[m].active =>
              /\ ~ memories'[m].active
              /\ \A a \in Assessments :
                     m \in assessment'[a].context => m \in assessment[a].context]_vars

\* With Supabase configured no feedback row is missing there silently: its
\* request is under way, or answered "pending_local_retry", or it ended in an
\* error or without an answer (main.py:438-447).
MissingIsReported ==
    supabase =>
        \A row \in DOMAIN feedback :
            \/ row \in remote \cup told
            \/ \E r \in Requests : Busy(r) /\ request[r].row = row
=============================================================================
