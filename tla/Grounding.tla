----------------------------- MODULE Grounding -----------------------------
(***************************************************************************)
(* From the evidence of one assessment to the advice of the WebEOC         *)
(* preview: _select_evidence, _ground_model_references and assess_incident *)
(* (app/model/nemotron.py), the vLLM fallback (app/model/vllm.py), the     *)
(* scan and policy gate of assess_events, the operator's verdicts, and the *)
(* review guidance of webeoc_preview (app/main.py).                        *)
(*                                                                         *)
(* An event is its position in the list as _select_evidence sorts it       *)
(* (crossing references last, the newest first), with its source and       *)
(* provenance URL; event ids are unique.  Of an answer only what it names  *)
(* is kept: event ids and URLs in its citations array, and in the text of  *)
(* its summary, rationale and target.  An id or URL of no event stands for *)
(* an invented one.                                                        *)
(***************************************************************************)
EXTENDS Policy, Integers, Sequences, FiniteSets

CONSTANTS
    Evidence,     \* the sorted lists of events an assessment can be about
    Ids,          \* event ids an answer can name, invented ones included
    Urls,         \* URLs an answer can name, invented ones included
    NoUrl,        \* the provenance_url of an event without one
    Limit,        \* events put into the prompt: 8
    Minimum,      \* citations asked for when there are enough events: 3
    Advised,      \* citations the preview wants before it advises: 3
    Risks,        \* risk_level words a model can write
    Actions,      \* action_type words a model can write
    Confidences   \* confidences a model can write, in tenths

ASSUME GroundingAssumption ==
    /\ \A e \in Evidence :
           /\ e \in Seq([source : STRING, url : Urls \cup {NoUrl}])
           /\ DOMAIN e \subseteq Ids
           /\ e # << >>
    /\ NoUrl \notin Urls
    /\ Limit \in Nat \ {0}
    /\ Minimum \in Nat
    /\ Advised \in Nat
    /\ Confidences \subseteq Int

VARIABLES
    evidence,  \* the events, sorted
    has_vllm,  \* setting
    stage,     \* where the assessment is
    answer,    \* history: the answer of Nemotron that was accepted
    decision   \* the decision under way, then as stored

vars == <<evidence, has_vllm, stage, answer, decision>>

Writing == [ids : SUBSET Ids, urls : SUBSET Urls]
Nothing == [ids |-> {}, urls |-> {}]
Answer  == [array : Writing, text : Writing]
NoAnswer == [array |-> Nothing, text |-> Nothing]

Stages == {"asking", "retrying", "fallback", "judging", "stored", "failed"}
Validations == {"none", "model_citations_valid", "model_text_references_grounded"}

Decision == [risk_level : RiskLevels, action_type : ActionTypes, confidence : Int,
             citations : Writing, validation : Validations, policy_status : Statuses]

\* _security_block_decision, and the value before there is a decision.
Quarantined ==
    [risk_level |-> "unknown", action_type |-> "quarantine", confidence |-> 0,
     citations |-> Nothing, validation |-> "none", policy_status |-> "blocked"]

TypeOK ==
    /\ evidence \in Evidence
    /\ has_vllm \in BOOLEAN
    /\ stage \in Stages
    /\ answer \in Answer
    /\ decision \in Decision

Init ==
    /\ evidence \in Evidence
    /\ has_vllm \in BOOLEAN
    /\ stage = "asking"
    /\ answer = NoAnswer
    /\ decision = Quarantined

-----------------------------------------------------------------------------
(* _select_evidence.                                                       *)

Smaller(m, n) == IF m < n THEN m ELSE n

FirstOfSource(n) == \A k \in 1..(n - 1) : evidence[k].source # evidence[n].source

\* The first event of each source goes before all others.
Before(m, n) ==
    IF FirstOfSource(m) = FirstOfSource(n) THEN m < n ELSE FirstOfSource(m)

Ahead(n) == {m \in DOMAIN evidence : Before(m, n)}

Selected == {n \in DOMAIN evidence : Cardinality(Ahead(n)) < Limit}

\* Mutant of Required: the first events of the list, not of the selection.
RequiredNewest == 1..Smaller(Minimum, Len(evidence))

\* required_citations: the ids the request's schema and prompts ask for.
Required == {n \in Selected : Cardinality(Ahead(n)) < Minimum}

\* How many citations the answer must have.
Requested == Smaller(IF Minimum < 1 THEN 1 ELSE Minimum, Cardinality(Selected))

-----------------------------------------------------------------------------
(* _ground_model_references.                                               *)

\* The table of known references is filled in the order of the selection, so a
\* URL shared by several events stands for the last of them.
LastWithItsUrl(n) ==
    \A m \in Selected : evidence[m].url = evidence[n].url => ~ Before(n, m)

InArray(a) ==
    {n \in Selected : \/ n \in a.array.ids
                      \/ evidence[n].url \in a.array.urls /\ LastWithItsUrl(n)}

\* In the text a URL is looked for once per event, so it stands for each event
\* that has it.
InText(a) ==
    {n \in Selected : n \in a.text.ids \/ evidence[n].url \in a.text.urls}

\* The text is searched only when the array has too few, and only until there
\* are enough.
FromText(a) ==
    LET more == InText(a) \ InArray(a)
    IN  {n \in more : Cardinality({m \in more : Before(m, n)})
                         < Requested - Cardinality(InArray(a))}

\* Mutant of Cited: the gaps are filled from the evidence, as the repairing
\* _ground_citations does.
CitedOrRepaired(a) ==
    IF Cardinality(InArray(a)) >= Requested THEN InArray(a)
    ELSE InArray(a) \cup FromText(a) \cup Required

Cited(a) ==
    IF Cardinality(InArray(a)) >= Requested THEN InArray(a)
    ELSE InArray(a) \cup FromText(a)

Validation(a) ==
    IF Cardinality(InArray(a)) >= Requested THEN "model_citations_valid"
    ELSE IF Cardinality(Cited(a)) >= Requested THEN "model_text_references_grounded"
    ELSE "none"

-----------------------------------------------------------------------------
(* assess_incident and the fallback.                                       *)

Normal(word, words, default) == IF word \in words THEN word ELSE default

\* NaN, which the fallback does not refuse, becomes 10 as well.
Clamped(c) == IF c < 0 THEN 0 ELSE Smaller(c, 10)

\* The decision both adapters build from the words of a model.
Decided(risk, action, c, citations, validation) ==
    LET action_type == Normal(action, ActionTypes, "request_approval")
    IN  [risk_level |-> Normal(risk, RiskLevels, "unknown"),
         action_type |-> action_type,
         confidence |-> Clamped(c),
         citations |-> citations,
         validation |-> validation,
         policy_status |-> IF action_type = "quarantine" THEN "blocked"
                           ELSE "approval_required"]

Asking == stage \in {"asking", "retrying"}

\* A model wrote these words with these citations.
Writes(citations, validation) ==
    \E risk \in Risks, action \in Actions, c \in Confidences :
        decision' = Decided(risk, action, c, citations, validation)

\* IntegrationUnavailable reaches assess_events.
Unavailable == stage' = IF has_vllm THEN "fallback" ELSE "failed"

\* The same request once more, then no further.
NextAttempt == IF stage = "asking" THEN stage' = "retrying" ELSE Unavailable

\* An answer that keeps the contract and names enough evidence.
Accept(a) ==
    /\ Asking
    /\ Validation(a) # "none"
    /\ answer' = a
    /\ Writes([ids |-> Cited(a), urls |-> {}], Validation(a))
    /\ stage' = "judging"
    /\ UNCHANGED <<evidence, has_vllm>>

\* An answer that keeps the contract and names too little.
Refuse(a) ==
    /\ Asking
    /\ Validation(a) = "none"
    /\ NextAttempt
    /\ UNCHANGED <<evidence, has_vllm, answer, decision>>

\* No answer, a status that may pass, or an answer that breaks the contract.
NoUse ==
    /\ Asking
    /\ NextAttempt
    /\ UNCHANGED <<evidence, has_vllm, answer, decision>>

\* Any other error status: no second attempt.
Rejected ==
    /\ Asking
    /\ Unavailable
    /\ UNCHANGED <<evidence, has_vllm, answer, decision>>

\* A message that is no object raises AttributeError, which nothing here
\* converts: neither a second attempt nor the fallback.
Raises ==
    /\ Asking
    /\ stage' = "failed"
    /\ UNCHANGED <<evidence, has_vllm, answer, decision>>

\* A scan before the model blocks or cannot be completed.
BlockedBefore ==
    /\ stage = "asking"
    /\ decision' = Quarantined
    /\ stage' = "stored"
    /\ UNCHANGED <<evidence, has_vllm, answer>>

\* assess_incident_vllm takes the citations as they are written; a list that
\* repeats one is left out.
AskVllm(w) ==
    /\ stage = "fallback"
    /\ Writes(w, "none")
    /\ stage' = "judging"
    /\ UNCHANGED <<evidence, has_vllm, answer>>

VllmFails ==
    /\ stage = "fallback"
    /\ stage' = "failed"
    /\ UNCHANGED <<evidence, has_vllm, answer, decision>>

-----------------------------------------------------------------------------
(* The rest of assess_events, and the operator.                            *)

SetStatus(status) == decision' = [decision EXCEPT !.policy_status = status]

\* Both adapters make the action reversible.
Verdict(operator_approved) ==
    evaluate([risk_level |-> decision.risk_level, action_type |-> decision.action_type,
              reversible |-> TRUE], operator_approved)

\* A scan of the output blocks, or cannot be completed.
BlockedAfter ==
    /\ stage = "judging"
    /\ SetStatus("blocked")
    /\ stage' = "stored"
    /\ UNCHANGED <<evidence, has_vllm, answer>>

Gate ==
    /\ stage = "judging"
    /\ SetStatus(Verdict(FALSE))
    /\ stage' = "stored"
    /\ UNCHANGED <<evidence, has_vllm, answer>>

\* Mutant of approve: an approval is taken at its word.
ApproveOutright ==
    /\ stage = "stored"
    /\ SetStatus("allowed")
    /\ UNCHANGED <<evidence, has_vllm, stage, answer>>

approve ==
    /\ stage = "stored"
    /\ SetStatus(Verdict(TRUE))
    /\ UNCHANGED <<evidence, has_vllm, stage, answer>>

reject ==
    /\ stage = "stored"
    /\ SetStatus("blocked")
    /\ UNCHANGED <<evidence, has_vllm, stage, answer>>

Next ==
    \/ \E a \in Answer : Accept(a) \/ Refuse(a)
    \/ \E w \in Writing : AskVllm(w)
    \/ NoUse
    \/ Rejected
    \/ Raises
    \/ BlockedBefore
    \/ VllmFails
    \/ BlockedAfter
    \/ Gate
    \/ approve
    \/ reject

Spec == Init /\ [][Next]_vars

-----------------------------------------------------------------------------
(* The review guidance of webeoc_preview.                                  *)

Count(w) == Cardinality(w.ids) + Cardinality(w.urls)

\* Mutant of citations_complete: the number of citations alone.
EnoughCitations == Count(decision.citations) >= Advised

citations_complete == decision.validation # "none" /\ Count(decision.citations) >= Advised

should_approve ==
    /\ stage = "stored"
    /\ decision.policy_status = "approval_required"
    /\ citations_complete
    /\ \/ decision.risk_level \in {"high", "catastrophic"} /\ decision.confidence >= 7
       \/ decision.risk_level = "moderate" /\ decision.confidence >= 8

-----------------------------------------------------------------------------
(* Safety.                                                                 *)

\* The model named event n: its id, or its URL.
Named(n) ==
    \/ n \in answer.array.ids \cup answer.text.ids
    \/ evidence[n].url \in answer.array.urls \cup answer.text.urls

\* Every citation of a decision marked as validated is an event that was in the
\* prompt and that the accepted answer itself names, whichever attempt it was
\* and wherever it names it, and there are as many as were asked for; nothing
\* is filled in or kept from an earlier answer (nemotron.py:98-133).
AcceptedIsGrounded ==
    decision.validation # "none" =>
        /\ decision.citations.urls = {}
        /\ \A n \in decision.citations.ids : n \in Selected /\ Named(n)
        /\ Cardinality(decision.citations.ids) >= Requested

\* An operator is advised to approve only what still waits for approval and
\* cites enough events, each one shown to the model and named by it: not what
\* the fallback wrote, what a scan or the policy blocked, or what has its
\* verdict (main.py:786-807).
AdviceIsGrounded ==
    should_approve =>
        /\ decision.policy_status = "approval_required"
        /\ Cardinality({n \in Selected : n \in decision.citations.ids /\ Named(n)}) >= Advised

\* A model that cites exactly what the request's schema asks for is accepted
\* with these citations, whatever its text names: the ids are asked for and
\* checked against one and the same selection (nemotron.py:242, 106-121).
ComplianceIsAccepted ==
    Asking =>
        \A text \in Writing :
            LET a == [array |-> [ids |-> Required, urls |-> {}], text |-> text]
            IN  Validation(a) = "model_citations_valid" /\ Cited(a) = Required

\* The decision as a row of DecisionLife, absent until it is stored.
Life == INSTANCE DecisionLife WITH
    Rows <- {1},
    status <- [i \in {1} |-> IF stage = "stored" THEN decision.policy_status ELSE "absent"],
    executable <- {i \in {1} : stage = "stored" /\ decision.action_type # "quarantine"}

\* Whatever words a model writes and however they are normalised, the decision
\* is stored and judged as DecisionLife says: no wording replaces the operator.
GroundsByContract == Life!Spec

\* The references the model wrote that belong to an event of the prompt, each
\* once; an id and the address of the same event count as two here.
WrittenReferences ==
    Cardinality(Selected \cap (answer.array.ids \cup answer.text.ids))
        + Cardinality({u \in answer.array.urls \cup answer.text.urls :
                           \E n \in Selected : evidence[n].url = u})

\* Does not hold.  docs/ARCHITECTURE_EXPLAINED.md: "If the required number of
\* unique grounded model references is absent, the assessment fails closed", a
\* reference being an "event_id or provenance address that the model actually
\* wrote".
AcceptedWroteEnough == decision.validation # "none" => WrittenReferences >= Requested
=============================================================================
