-------------------------- MODULE Grounding_proofs --------------------------
(***************************************************************************)
(* Theorems of module Grounding.  That an accepted answer is grounded is   *)
(* inductive with the types: the citations and the answer they come from   *)
(* are set by one step, and no later step changes either of them.          *)
(***************************************************************************)
EXTENDS Grounding, TLAPS, FiniteSetTheorems, WellFoundedInduction

GroundingInv == TypeOK /\ AcceptedIsGrounded

-----------------------------------------------------------------------------
(* What an answer cites.                                                   *)

LEMMA CitedIsNamed ==
    ASSUME NEW a, NEW n \in Cited(a)
    PROVE  /\ n \in Selected
           /\ \/ n \in a.array.ids \cup a.text.ids
              \/ evidence[n].url \in a.array.urls \cup a.text.urls
  <1>1. n \in InArray(a) \/ n \in InText(a)
    BY DEF Cited, FromText
  <1>2. CASE n \in InArray(a)
    BY <1>2 DEF InArray
  <1>3. CASE n \in InText(a)
    BY <1>3 DEF InText
  <1> QED  BY <1>1, <1>2, <1>3

LEMMA ValidIsEnough ==
    ASSUME NEW a, Validation(a) # "none"
    PROVE  Cardinality(Cited(a)) >= Requested
  BY DEF Validation, Cited

LEMMA SelectedIds ==
    ASSUME evidence \in Evidence
    PROVE  Selected \subseteq Ids /\ IsFiniteSet(Selected)
  <1>1. evidence \in Seq([source : STRING, url : Urls \cup {NoUrl}]) /\ DOMAIN evidence \subseteq Ids
    BY GroundingAssumption
  <1>2. Selected \subseteq DOMAIN evidence
    BY DEF Selected
  <1>3. DOMAIN evidence = 1..Len(evidence) /\ Len(evidence) \in Nat
    BY <1>1
  <1>4. IsFiniteSet(1..Len(evidence))
    BY <1>3, FS_Interval
  <1>5. IsFiniteSet(Selected)
    BY <1>2, <1>3, <1>4, FS_Subset
  <1> QED  BY <1>1, <1>2, <1>5

LEMMA CitedType ==
    ASSUME evidence \in Evidence, NEW a
    PROVE  [ids |-> Cited(a), urls |-> {}] \in Writing
  <1>1. Cited(a) \subseteq Ids
    BY CitedIsNamed, SelectedIds
  <1> QED  BY <1>1 DEF Writing

-----------------------------------------------------------------------------
(* The decision the adapters build.                                        *)

LEMMA ClampedType ==
    ASSUME NEW c \in Int
    PROVE  Clamped(c) \in Int
  BY DEF Clamped, Smaller

LEMMA DecidedType ==
    ASSUME NEW risk, NEW action, NEW c \in Confidences,
           NEW w \in Writing, NEW v \in Validations
    PROVE  Decided(risk, action, c, w, v) \in Decision
  <1> DEFINE risk_level == Normal(risk, RiskLevels, "unknown")
  <1> DEFINE action_type == Normal(action, ActionTypes, "request_approval")
  <1> DEFINE status == IF action_type = "quarantine" THEN "blocked" ELSE "approval_required"
  <1>1. risk_level \in RiskLevels
    BY DEF Normal, RiskLevels
  <1>2. action_type \in ActionTypes
    BY DEF Normal, ActionTypes
  <1>3. Clamped(c) \in Int
    BY ClampedType, GroundingAssumption
  <1>4. status \in Statuses
    BY DEF Statuses
  <1> HIDE DEF risk_level, action_type, status
  <1>5. [risk_level |-> risk_level, action_type |-> action_type, confidence |-> Clamped(c),
         citations |-> w, validation |-> v, policy_status |-> status] \in Decision
    BY <1>1, <1>2, <1>3, <1>4 DEF Decision
  <1> QED  BY <1>5 DEF Decided, risk_level, action_type, status

LEMMA WritesType ==
    ASSUME NEW w \in Writing, NEW v \in Validations, Writes(w, v)
    PROVE  /\ decision' \in Decision
           /\ decision'.citations = w
           /\ decision'.validation = v
  <1>1. PICK risk \in Risks, action \in Actions, c \in Confidences :
            decision' = Decided(risk, action, c, w, v)
    BY DEF Writes
  <1>2. decision' \in Decision
    BY <1>1, DecidedType
  <1>3. decision'.citations = w /\ decision'.validation = v
    BY <1>1 DEF Decided
  <1> QED  BY <1>2, <1>3

LEMMA QuarantinedType == Quarantined \in Decision
  <1>1. Nothing \in Writing
    BY DEF Nothing, Writing
  <1> QED  BY <1>1 DEF Quarantined, Decision, RiskLevels, ActionTypes, Validations, Statuses

LEMMA SetStatusKeeps ==
    ASSUME decision \in Decision, NEW s \in Statuses, SetStatus(s)
    PROVE  /\ decision' \in Decision
           /\ decision'.citations = decision.citations
           /\ decision'.validation = decision.validation
  BY DEF SetStatus, Decision

LEMMA VerdictType ==
    ASSUME NEW o \in BOOLEAN
    PROVE  Verdict(o) \in Statuses
  BY DEF Verdict, evaluate, Statuses

-----------------------------------------------------------------------------
(* Steps that leave the evidence and the answer alone.                     *)

LEMMA SameEvidence ==
    ASSUME UNCHANGED evidence
    PROVE  Selected' = Selected /\ Requested' = Requested
  BY DEF Selected, Requested, Ahead, Before, FirstOfSource

LEMMA KeepsGrounded ==
    ASSUME GroundingInv, UNCHANGED <<evidence, answer>>,
           decision'.validation = "none" \/ /\ decision'.validation = decision.validation
                                            /\ decision'.citations = decision.citations
    PROVE  AcceptedIsGrounded'
  <1>1. Selected' = Selected /\ Requested' = Requested
    BY SameEvidence
  <1>2. \A n : Named(n)' <=> Named(n)
    BY DEF Named
  <1> QED  BY <1>1, <1>2 DEF GroundingInv, AcceptedIsGrounded

LEMMA AcceptGrounds ==
    ASSUME GroundingInv, NEW a \in Answer, Accept(a)
    PROVE  GroundingInv'
  <1>1. evidence \in Evidence /\ UNCHANGED <<evidence, has_vllm>> /\ answer' = a
    BY DEF GroundingInv, TypeOK, Accept
  <1>2. Validation(a) \in Validations /\ Validation(a) # "none"
    BY DEF Accept, Validation, Validations
  <1>3. [ids |-> Cited(a), urls |-> {}] \in Writing
    BY <1>1, CitedType
  <1>4. /\ decision' \in Decision
        /\ decision'.citations = [ids |-> Cited(a), urls |-> {}]
    BY <1>2, <1>3, WritesType DEF Accept
  <1>5. TypeOK'
    BY <1>1, <1>4 DEF GroundingInv, TypeOK, Accept, Stages
  <1>6. Selected' = Selected /\ Requested' = Requested
    BY <1>1, SameEvidence
  <1>7. \A n \in Cited(a) : n \in Selected' /\ Named(n)'
    BY <1>1, <1>6, CitedIsNamed DEF Named
  <1>8. Cardinality(Cited(a)) >= Requested'
    BY <1>2, <1>6, ValidIsEnough
  <1>9. AcceptedIsGrounded'
    BY <1>4, <1>7, <1>8 DEF AcceptedIsGrounded
  <1> QED  BY <1>5, <1>9 DEF GroundingInv

-----------------------------------------------------------------------------
(* The theorems.                                                           *)

\* An assessment starts with well-formed state and no validated decision.
THEOREM InitGrounding == Init => GroundingInv
  <1> SUFFICES ASSUME Init PROVE GroundingInv
    OBVIOUS
  <1>1. NoAnswer \in Answer
    BY DEF NoAnswer, Answer, Nothing, Writing
  <1>2. TypeOK
    BY <1>1, QuarantinedType DEF Init, TypeOK, Stages
  <1>3. AcceptedIsGrounded
    BY DEF Init, AcceptedIsGrounded, Quarantined
  <1> QED  BY <1>2, <1>3 DEF GroundingInv

\* Every step keeps the types and the grounding: adapters, scans, the policy
\* gate, approve and reject.
THEOREM NextGrounding == GroundingInv /\ [Next]_vars => GroundingInv'
  <1> SUFFICES ASSUME GroundingInv, [Next]_vars PROVE GroundingInv'
    OBVIOUS
  <1> USE DEF GroundingInv
  <1>1. ASSUME NEW a \in Answer, Accept(a) PROVE GroundingInv'
    BY <1>1, AcceptGrounds
  <1>2. ASSUME stage' \in Stages, UNCHANGED <<evidence, has_vllm, answer, decision>>
        PROVE  GroundingInv'
    <2>1. TypeOK'
      BY <1>2 DEF TypeOK
    <2>2. AcceptedIsGrounded'
      BY <1>2, KeepsGrounded
    <2> QED  BY <2>1, <2>2
  <1>3. ASSUME stage' \in Stages, UNCHANGED <<evidence, has_vllm, answer>>,
               NEW s \in Statuses, SetStatus(s)
        PROVE  GroundingInv'
    <2>1. /\ decision' \in Decision
          /\ decision'.citations = decision.citations
          /\ decision'.validation = decision.validation
      BY <1>3, SetStatusKeeps DEF TypeOK
    <2>2. TypeOK'
      BY <1>3, <2>1 DEF TypeOK
    <2>3. AcceptedIsGrounded'
      BY <1>3, <2>1, KeepsGrounded
    <2> QED  BY <2>2, <2>3
  <1>4. ASSUME NEW a \in Answer, Refuse(a) PROVE GroundingInv'
    BY <1>2, <1>4 DEF Refuse, NextAttempt, Unavailable, Stages
  <1>5. CASE NoUse
    BY <1>2, <1>5 DEF NoUse, NextAttempt, Unavailable, Stages
  <1>6. CASE Rejected
    BY <1>2, <1>6 DEF Rejected, Unavailable, Stages
  <1>7. CASE Raises
    BY <1>2, <1>7 DEF Raises, Stages
  <1>8. CASE BlockedBefore
    <2>1. TypeOK'
      BY <1>8, QuarantinedType DEF BlockedBefore, TypeOK, Stages
    <2>2. decision'.validation = "none"
      BY <1>8 DEF BlockedBefore, Quarantined
    <2>3. AcceptedIsGrounded'
      BY <1>8, <2>2, KeepsGrounded DEF BlockedBefore
    <2> QED  BY <2>1, <2>3
  <1>9. ASSUME NEW w \in Writing, AskVllm(w) PROVE GroundingInv'
    <2>1. decision' \in Decision /\ decision'.validation = "none"
      BY <1>9, WritesType DEF AskVllm, Validations
    <2>2. TypeOK'
      BY <1>9, <2>1 DEF AskVllm, TypeOK, Stages
    <2>3. AcceptedIsGrounded'
      BY <1>9, <2>1, KeepsGrounded DEF AskVllm
    <2> QED  BY <2>2, <2>3
  <1>10. CASE VllmFails
    BY <1>2, <1>10 DEF VllmFails, Stages
  <1>11. CASE BlockedAfter
    BY <1>3, <1>11 DEF BlockedAfter, Stages, Statuses
  <1>12. CASE Gate
    BY <1>3, <1>12, VerdictType DEF Gate, Stages
  <1>13. CASE approve
    BY <1>3, <1>13, VerdictType DEF approve, TypeOK
  <1>14. CASE reject
    BY <1>3, <1>14 DEF reject, TypeOK, Statuses
  <1>15. CASE UNCHANGED vars
    BY <1>2, <1>15 DEF vars, TypeOK
  <1> QED
    BY <1>1, <1>4, <1>5, <1>6, <1>7, <1>8, <1>9, <1>10, <1>11, <1>12, <1>13, <1>14, <1>15
       DEF Next

\* The citations of every validated decision were in the prompt, are named by
\* the accepted answer and are enough, for every list of events, limit and
\* minimum (nemotron.py:98-133).
THEOREM GroundingInvariant == Spec => []AcceptedIsGrounded
  <1>1. Spec => []GroundingInv
    BY InitGrounding, NextGrounding, PTL DEF Spec
  <1>2. GroundingInv => AcceptedIsGrounded
    BY DEF GroundingInv
  <1> QED  BY <1>1, <1>2, PTL

\* What the preview advises to approve waits for approval and cites enough
\* events that the model was shown and that it names (main.py:786-807).
THEOREM GroundingAdvice == Spec => []AdviceIsGrounded
  <1>1. GroundingInv => AdviceIsGrounded
    <2> SUFFICES ASSUME GroundingInv, should_approve
                 PROVE  /\ decision.policy_status = "approval_required"
                        /\ Cardinality({n \in Selected : n \in decision.citations.ids /\ Named(n)})
                               >= Advised
      BY DEF AdviceIsGrounded
    <2> DEFINE ids == decision.citations.ids
    <2>1. /\ decision.policy_status = "approval_required"
          /\ decision.validation # "none"
          /\ Cardinality(ids) + Cardinality(decision.citations.urls) >= Advised
      BY DEF should_approve, citations_complete, Count
    <2>2. /\ decision.citations.urls = {}
          /\ \A n \in ids : n \in Selected /\ Named(n)
      BY <2>1 DEF GroundingInv, AcceptedIsGrounded
    <2>3. IsFiniteSet(ids) /\ Cardinality(ids) \in Nat
      BY <2>2, SelectedIds, FS_Subset, FS_CardinalityType DEF GroundingInv, TypeOK
    <2>4. Cardinality({}) = 0
      BY FS_EmptySet
    <2>5. Cardinality(ids) >= Advised
      BY <2>1, <2>2, <2>3, <2>4, GroundingAssumption
    <2>6. {n \in Selected : n \in ids /\ Named(n)} = ids
      BY <2>2
    <2> QED  BY <2>1, <2>5, <2>6
  <1>2. Spec => []GroundingInv
    BY InitGrounding, NextGrounding, PTL DEF Spec
  <1> QED  BY <1>1, <1>2, PTL

-----------------------------------------------------------------------------
(* The first events of the selection.                                      *)

LEMMA LeastNatural ==
    ASSUME NEW T, T \subseteq Nat, T # {}
    PROVE  \E x \in T : \A y \in T : x <= y
  <1> DEFINE R == OpToRel(<, Nat)
  <1>1. IsWellFoundedOn(R, Nat)
    BY NatLessThanWellFounded
  <1>2. ASSUME NEW x \in Nat, NEW y \in Nat, y < x PROVE <<y, x>> \in R
    BY <1>2 DEF OpToRel
  <1> HIDE DEF R
  <1>3. PICK x \in T : \A y \in T : ~ (<<y, x>> \in R)
    BY <1>1, WFMin
  <1>4. ASSUME NEW y \in T PROVE x <= y
    <2>1. x \in Nat /\ y \in Nat
      OBVIOUS
    <2>2. ~ (y < x)
      BY <1>2, <1>3, <2>1
    <2> QED  BY <2>1, <2>2
  <1> QED  BY <1>4

\* What comes before an event comes before all that the event comes before.
LEMMA AheadNests ==
    ASSUME evidence \in Evidence, NEW n \in DOMAIN evidence, NEW m \in Ahead(n)
    PROVE  /\ Ahead(m) \subseteq Ahead(n) \ {m}
           /\ IsFiniteSet(Ahead(n))
           /\ Cardinality(Ahead(n)) \in Nat
           /\ Cardinality(Ahead(m)) \in Nat
           /\ Cardinality(Ahead(m)) < Cardinality(Ahead(n))
  <1>1. DOMAIN evidence = 1..Len(evidence) /\ Len(evidence) \in Nat
    BY GroundingAssumption
  <1>2. Ahead(m) \subseteq Ahead(n) \ {m}
    <2>1. \A k : FirstOfSource(k) \in BOOLEAN
      BY DEF FirstOfSource
    <2>2. m \in 1..Len(evidence) /\ n \in 1..Len(evidence) /\ Before(m, n)
      BY <1>1 DEF Ahead
    <2>3. ASSUME NEW k \in 1..Len(evidence), Before(k, m) PROVE Before(k, n) /\ k # m
      BY <1>1, <2>1, <2>2, <2>3 DEF Before
    <2> QED  BY <1>1, <2>3 DEF Ahead
  <1>3. IsFiniteSet(1..Len(evidence))
    BY <1>1, FS_Interval
  <1>4. IsFiniteSet(Ahead(n))
    BY <1>1, <1>3, FS_Subset DEF Ahead
  <1>5. IsFiniteSet(Ahead(n) \ {m}) /\ Cardinality(Ahead(n) \ {m}) = Cardinality(Ahead(n)) - 1
    BY <1>4, FS_RemoveElement
  <1>6. IsFiniteSet(Ahead(m)) /\ Cardinality(Ahead(m)) <= Cardinality(Ahead(n) \ {m})
    BY <1>2, <1>5, FS_Subset
  <1>7. Cardinality(Ahead(n)) \in Nat /\ Cardinality(Ahead(m)) \in Nat
    BY <1>4, <1>6, FS_CardinalityType
  <1>8. Cardinality(Ahead(m)) < Cardinality(Ahead(n))
    BY <1>5, <1>6, <1>7
  <1> QED  BY <1>2, <1>4, <1>7, <1>8

LEMMA AheadCounts ==
    ASSUME evidence \in Evidence, NEW n \in DOMAIN evidence
    PROVE  IsFiniteSet(Ahead(n)) /\ Cardinality(Ahead(n)) \in Nat
  <1>1. DOMAIN evidence = 1..Len(evidence) /\ Len(evidence) \in Nat
    BY GroundingAssumption
  <1>2. IsFiniteSet(1..Len(evidence))
    BY <1>1, FS_Interval
  <1>3. IsFiniteSet(Ahead(n))
    BY <1>1, <1>2, FS_Subset DEF Ahead
  <1> QED  BY <1>3, FS_CardinalityType

\* The ids asked for are as many as Minimum, or the whole selection: of the
\* events selected and not asked for the foremost has only required ones ahead.
LEMMA RequiredIsEnough ==
    ASSUME evidence \in Evidence, Minimum # 0
    PROVE  Cardinality(Required) >= Requested
  <1>1. IsFiniteSet(Selected) /\ Required \subseteq Selected /\ Selected \subseteq DOMAIN evidence
    BY SelectedIds DEF Required, Selected
  <1>2. IsFiniteSet(Required) /\ Cardinality(Required) \in Nat /\ Cardinality(Selected) \in Nat
    BY <1>1, FS_Subset, FS_CardinalityType
  <1>3. Minimum \in Nat \ {0} /\ Limit \in Nat
    BY GroundingAssumption
  <1>4. Requested <= Minimum /\ Requested <= Cardinality(Selected) /\ Requested \in Nat
    BY <1>2, <1>3 DEF Requested, Smaller
  <1>5. CASE Selected = Required
    BY <1>4, <1>5, <1>2
  <1>6. CASE Selected # Required
    <2> DEFINE rest == Selected \ Required
               T == {Cardinality(Ahead(n)) : n \in rest}
    <2>1. T \subseteq Nat /\ T # {}
      BY <1>1, <1>6, AheadCounts
    <2>2. PICK x \in T : \A y \in T : x <= y
      BY <2>1, LeastNatural
    <2>3. PICK n \in rest : x = Cardinality(Ahead(n))
      BY <2>2
    <2>4. /\ n \in DOMAIN evidence /\ Cardinality(Ahead(n)) \in Nat
          /\ Cardinality(Ahead(n)) < Limit
          /\ ~ (Cardinality(Ahead(n)) < Minimum)
      BY <1>1, <2>3, AheadCounts DEF Selected, Required
    <2>5. ASSUME NEW m \in Ahead(n) PROVE m \in Required
      <3>1. m \in DOMAIN evidence
        BY <2>5 DEF Ahead
      <3>2. /\ Cardinality(Ahead(m)) \in Nat
            /\ Cardinality(Ahead(m)) < Cardinality(Ahead(n))
        BY <2>4, <2>5, AheadNests
      <3>3. m \in Selected
        BY <1>3, <2>4, <3>1, <3>2 DEF Selected
      <3>4. SUFFICES ASSUME m \in rest PROVE FALSE
        BY <3>3
      <3>5. Cardinality(Ahead(n)) <= Cardinality(Ahead(m))
        BY <2>2, <2>3, <3>4
      <3> QED  BY <2>4, <3>2, <3>5
    <2>6. Cardinality(Ahead(n)) <= Cardinality(Required)
      BY <1>2, <2>5, FS_Subset
    <2> QED  BY <1>2, <1>3, <1>4, <2>4, <2>6
  <1> QED  BY <1>5, <1>6

\* An answer whose array is the ids the request asks for is accepted, and cites
\* these, for every list of events, whatever the limit and however many are
\* asked for, if any are (nemotron.py:242, 106-121).
THEOREM GroundingCompliance ==
    ASSUME Minimum # 0
    PROVE  Spec => []ComplianceIsAccepted
  <1>1. GroundingInv => ComplianceIsAccepted
    <2> SUFFICES ASSUME GroundingInv, NEW text \in Writing,
                        NEW a, a = [array |-> [ids |-> Required, urls |-> {}], text |-> text]
                 PROVE  Validation(a) = "model_citations_valid" /\ Cited(a) = Required
      BY DEF ComplianceIsAccepted
    <2>1. a.array.ids = Required /\ a.array.urls = {}
      OBVIOUS
    <2>2. InArray(a) = Required
      BY <2>1 DEF InArray, Required
    <2>3. Cardinality(InArray(a)) >= Requested
      BY <2>2, RequiredIsEnough DEF GroundingInv, TypeOK
    <2> QED  BY <2>2, <2>3 DEF Validation, Cited
  <1>2. Spec => []GroundingInv
    BY InitGrounding, NextGrounding, PTL DEF Spec
  <1> QED  BY <1>1, <1>2, PTL

-----------------------------------------------------------------------------
(* The decision of an assessment follows DecisionLife.                     *)

LifeBar == [i \in {1} |-> IF stage = "stored" THEN decision.policy_status ELSE "absent"]
OpenBar == {i \in {1} : stage = "stored" /\ decision.action_type # "quarantine"}

\* The gate: nothing is allowed without the operator, and an approval opens
\* everything but a quarantine.
LEMMA GateWords ==
    /\ Verdict(FALSE) \in {"approval_required", "blocked"}
    /\ Verdict(TRUE) = IF decision.action_type = "quarantine" THEN "blocked" ELSE "allowed"
  BY DEF Verdict, evaluate

\* Storing the decision, whatever it says short of "allowed".
LEMMA StoredIsLife ==
    ASSUME stage # "stored", stage' = "stored",
           decision'.policy_status \in {"approval_required", "blocked"}
    PROVE  Life!Next
<1> DEFINE s == decision'.policy_status
<1>1. LifeBar[1] = "absent" /\ OpenBar = {}
  BY DEF LifeBar, OpenBar
<1>2. LifeBar' = [LifeBar EXCEPT ![1] = s]
  BY DEF LifeBar
<1>3. OpenBar' \in {{}, {1}}
  BY DEF OpenBar
<1>4. Life!Store(1)
  BY <1>1, <1>2, <1>3 DEF Life!Store, Life!Stored, Life!Become, LifeBar, OpenBar
<1> QED
  BY <1>4 DEF Life!Next

\* No words of a model, however they are normalised, take the operator's place:
\* each step of an assessment and its verdicts is one DecisionLife allows.
THEOREM GroundingKeepsContract == Spec => GroundsByContract
<1>1. Init => Life!Init
  BY DEF Init, Life!Init
<1>2. TypeOK /\ [Next]_vars => [Life!Next]_(Life!lvars)
  <2> SUFFICES ASSUME TypeOK, [Next]_vars
               PROVE  Life!Next \/ UNCHANGED <<LifeBar, OpenBar>>
    BY DEF Life!lvars, LifeBar, OpenBar
  <2>1. CASE stage # "stored" /\ stage' # "stored"
    BY <2>1 DEF LifeBar, OpenBar
  <2>2. CASE UNCHANGED vars
    BY <2>2 DEF vars, LifeBar, OpenBar
  <2>3. CASE BlockedBefore
    BY <2>3, StoredIsLife DEF BlockedBefore, Quarantined
  <2>4. CASE BlockedAfter
    BY <2>4, StoredIsLife DEF BlockedAfter, SetStatus, TypeOK, Decision
  <2>5. CASE Gate
    <3>1. decision'.policy_status = Verdict(FALSE) /\ stage # "stored" /\ stage' = "stored"
      BY <2>5 DEF Gate, SetStatus, TypeOK, Decision
    <3> QED
      BY <3>1, GateWords, StoredIsLife
  <2>6. ASSUME stage = "stored", UNCHANGED stage, NEW s, SetStatus(s)
        PROVE  /\ LifeBar[1] # "absent"
               /\ LifeBar' = [LifeBar EXCEPT ![1] = s]
               /\ OpenBar' = OpenBar
    <3>1. /\ decision'.policy_status = s /\ decision'.action_type = decision.action_type
          /\ decision.policy_status # "absent"
      BY <2>6 DEF SetStatus, TypeOK, Decision, Statuses
    <3> QED
      BY <2>6, <3>1 DEF LifeBar, OpenBar
  <2>7. CASE approve
    <3>1. CASE decision.action_type = "quarantine"
      <4>1. SetStatus("blocked") /\ 1 \notin OpenBar
        BY <2>7, <3>1, GateWords DEF approve, OpenBar
      <4>2. Life!Approve(1)
        BY <2>6, <2>7, <4>1 DEF approve, Life!Approve, Life!Stored, Life!Become, LifeBar, OpenBar
      <4> QED
        BY <4>2 DEF Life!Next
    <3>2. CASE decision.action_type # "quarantine"
      <4>1. SetStatus("allowed") /\ 1 \in OpenBar
        BY <2>7, <3>2, GateWords DEF approve, OpenBar
      <4>2. Life!Approve(1)
        BY <2>6, <2>7, <4>1 DEF approve, Life!Approve, Life!Stored, Life!Become, LifeBar, OpenBar
      <4> QED
        BY <4>2 DEF Life!Next
    <3> QED
      BY <3>1, <3>2
  <2>8. CASE reject
    <3>1. Life!Reject(1)
      BY <2>6, <2>8 DEF reject, Life!Reject, Life!Stored, Life!Become, LifeBar, OpenBar
    <3> QED
      BY <3>1 DEF Life!Next
  <2>9. stage # "stored" /\ stage' = "stored" => BlockedBefore \/ BlockedAfter \/ Gate
    BY DEF Next, vars, Accept, Refuse, NoUse, Rejected, Raises, AskVllm, VllmFails, approve, reject,
           Asking, NextAttempt, Unavailable
  <2>10. stage = "stored" => approve \/ reject \/ UNCHANGED vars
    BY DEF Next, Accept, Refuse, NoUse, Rejected, Raises, AskVllm, VllmFails, BlockedBefore,
           BlockedAfter, Gate, Asking
  <2> QED
    BY <2>1, <2>2, <2>3, <2>4, <2>5, <2>7, <2>8, <2>9, <2>10
<1>3. GroundingInv => TypeOK
  BY DEF GroundingInv
<1>4. Spec => []GroundingInv
  BY InitGrounding, NextGrounding, PTL DEF Spec
<1> QED
  BY <1>1, <1>2, <1>3, <1>4, PTL DEF Spec, GroundsByContract, Life!Spec

=============================================================================
