\* With a broker, three cycles, no fault.
CONSTANTS
    KafkaSettings = {TRUE}
    MaxCycles = 3
    MaxFaults = 0
SPECIFICATION FairSpec
INVARIANT
    NoFailureMasquerades
