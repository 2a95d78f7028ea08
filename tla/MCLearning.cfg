\* Two incidents, two feedback requests at once, one assessment that looks at
\* the newest two active rules and takes one, three feedback rows.
CONSTANTS
    i1 = i1
    i2 = i2
    r1 = r1
    r2 = r2
    a1 = a1
    Incidents <- MCIncidents
    Requests <- MCRequests
    Assessments <- MCAssessments
    RankLimit = 2
    TopRules = 1
    MaxFeedback = 3
SYMMETRY Symmetry
SPECIFICATION Spec
INVARIANTS
    VersionsCount
    RuleHasItsFeedback
    MissingIsReported
PROPERTIES
    RetiredStaysOut
