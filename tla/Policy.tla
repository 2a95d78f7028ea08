------------------------------- MODULE Policy -------------------------------
(***************************************************************************)
(* The deterministic policy gate (app/safety/policy.py) and the fields of  *)
(* a decision it looks at (app/models.py).  A decision's summary,          *)
(* citations and raw model response do not reach the gate and are left     *)
(* out; citations are the subject of the grounding checks.                 *)
(***************************************************************************)

RiskLevels  == {"low", "moderate", "high", "catastrophic", "unknown"}
ActionTypes == {"close_crossing_and_reroute", "request_approval", "quarantine"}
Statuses    == {"approval_required", "blocked", "allowed"}

\* What the gate reads of a decision.
Plan == [risk_level : RiskLevels, action_type : ActionTypes, reversible : BOOLEAN]

\* Mutant of evaluate: only high-impact plans wait for the operator.
EvaluateTrustingLowRisk(plan, operator_approved) ==
    IF ~ plan.reversible THEN "blocked"
    ELSE IF plan.risk_level \in {"high", "catastrophic"} /\ ~ operator_approved
         THEN "approval_required"
    ELSE IF plan.action_type = "quarantine" THEN "blocked"
    ELSE "allowed"

\* The order of the tests is the code's: a high-impact quarantine first asks
\* for an approval that then turns it into "blocked".
evaluate(plan, operator_approved) ==
    IF ~ plan.reversible THEN "blocked"
    ELSE IF plan.risk_level \in {"high", "catastrophic"} /\ ~ operator_approved
         THEN "approval_required"
    ELSE IF plan.action_type = "quarantine" THEN "blocked"
    ELSE IF ~ operator_approved THEN "approval_required"
    ELSE "allowed"

\* The plans an approval can turn into an executable action.
Executable(plan) == plan.reversible /\ plan.action_type # "quarantine"
=============================================================================
