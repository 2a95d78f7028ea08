\* Two readers, no fault.  The bound on records is where the program may stop.
CONSTANTS
    Events = {e1, e2}
    Runs = {r1, r2}
    NoOne = NoOne
    Malformed = Malformed
    MaxRead = 3
    MaxRecords = 2
    MaxFaults = 0
SPECIFICATION Spec
INVARIANT
    DegradedMeansBroker
CHECK_DEADLOCK FALSE
