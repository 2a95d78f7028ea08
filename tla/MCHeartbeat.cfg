\* With and without a broker, five completed cycles, two faults.
CONSTANTS
    KafkaSettings = {TRUE, FALSE}
    MaxCycles = 5
    MaxFaults = 2
SPECIFICATION FairSpec
INVARIANTS
    RowIsConsistent
    VerifiedIsDecided
    LiveMeansRunning
PROPERTIES
    KeepsBeating
    ShutdownEnds
    RecordIsHonest
