\* Two events, two round trips at once, a reader that stops after two
\* records, three records in the topic, one fault.  The bound on records is where
\* the program may stop.
CONSTANTS
    Events = {e1, e2}
    Runs = {r1, r2}
    NoOne = NoOne
    Malformed = Malformed
    MaxRead = 2
    MaxRecords = 3
    MaxFaults = 1
SPECIFICATION FairSpec
INVARIANTS
    NothingSkipped
    VerifiedIsRead
    DegradedIsExplained
PROPERTIES
    RoundTripEnds
    ReadsAsOneQueue
CHECK_DEADLOCK FALSE
