----------------------------- MODULE MCDelivery -----------------------------
(***************************************************************************)
(* Small instances of Delivery.  One incident can be handed to both        *)
(* channels, of which one is configured, while two requests compete; the   *)
(* plans are one the operator may execute and two that no approval can     *)
(* make executable.                                                        *)
(***************************************************************************)
EXTENDS Delivery

MCPlans ==
    {[risk_level |-> "moderate", action_type |-> "close_crossing_and_reroute", reversible |-> TRUE],
     [risk_level |-> "high",     action_type |-> "quarantine",                 reversible |-> TRUE],
     [risk_level |-> "low",      action_type |-> "request_approval",           reversible |-> FALSE]}
=============================================================================
