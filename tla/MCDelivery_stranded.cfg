CONSTANTS
    Incidents = {i1}
    Channels = {cap}
    Configured = {cap}
    Numbered = {}
    Calls = {r1, r2}
    Plans <- MCPlans
    MaxPosts = 2
    MaxFaults = 1
SPECIFICATION Spec
INVARIANT
    UnfinishedClaimIsHeld
