\* One dashboard and two decisions, with an executable high-impact plan and a
\* quarantine.
CONSTANTS
    i1 = i1
    i2 = i2
    b1 = b1
    none = none
    Incidents <- MCIncidents
    Plans <- MCPlans
    Browsers <- MCBrowsers
    None = none
SPECIFICATION Spec
CHECK_DEADLOCK FALSE
INVARIANT DraftedIsNotApplied
