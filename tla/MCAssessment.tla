---------------------------- MODULE MCAssessment ----------------------------
(***************************************************************************)
(* Small instances of Assessment: the heartbeat and one API request over   *)
(* one event, under settings that between them take every branch.          *)
(***************************************************************************)
EXTENDS Assessment

MCPlans ==
    {[risk_level |-> "moderate", action_type |-> "close_crossing_and_reroute", reversible |-> TRUE],
     [risk_level |-> "high",     action_type |-> "quarantine",                 reversible |-> TRUE]}

Settings(k, s, v, h) == [kafka |-> k, supabase |-> s, vllm |-> v, hiddenlayer |-> h]

MCConfigs ==
    {Settings(TRUE, FALSE, FALSE, "on"), Settings(FALSE, TRUE, TRUE, "off"),
     Settings(FALSE, FALSE, FALSE, "broken")}
=============================================================================
