\* One incident, a configured and an unconfigured channel, two requests, three
\* posts per target and one fault.
CONSTANTS
    Incidents = {i1}
    Channels = {cap, webeoc}
    Configured = {webeoc}
    Numbered = {webeoc}
    Calls = {r1, r2}
    Plans <- MCPlans
    MaxPosts = 3
    MaxFaults = 1
SPECIFICATION FairSpec
INVARIANTS
    OneOwnerPerClaim
    DuplicatesComeFromRetries
    RecordIsTrue
PROPERTIES
    PostNeedsStandingApproval
    ClaimsResolve
    KeepsPromise
    JudgesByContract
