-------------------------- MODULE MCOfflineDrafts --------------------------
(* Module OfflineDrafts with one dashboard and two decisions.              *)
EXTENDS OfflineDrafts

CONSTANTS i1, i2, b1, none

MCIncidents == {i1, i2}
MCBrowsers  == {b1}
MCPlans ==
    { [risk_level |-> "high", action_type |-> "close_crossing_and_reroute", reversible |-> TRUE],
      [risk_level |-> "unknown", action_type |-> "quarantine", reversible |-> TRUE] }
=============================================================================
