\* One event, the heartbeat and one API run, up to two decisions, one
\* verdict, one process death.
CONSTANTS
    Events = {e1}
    Runs = {hb, api}
    Heartbeat = hb
    MaxDecisions = 2
    Plans <- MCPlans
    Configs <- MCConfigs
    MaxVerdicts = 1
    MaxCrashes = 1
SPECIFICATION FairSpec
INVARIANTS
    InferenceIsScreened
    OnlyClearedWaits
    InputHoldIsFinal
    EvidenceIsStored
    NewIsCountedOnce
    NothingForgotten
    CreationComesFirst
    StoresWhatDeliveryReads
PROPERTIES
    NewReachesDecision
    RunsMoveForward
    StoresByContract
