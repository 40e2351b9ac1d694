SPECIFICATION IngestSpec
CONSTANTS
    Retention = 3
    FeeRetention = 2
    MaxRetries = 2
    MaxFaults = 1
    MaxCrashes = 1
    MaxLedger = 5
    Readers = {reader}
    Faults = {"commit"}
INVARIANTS
    SurvivesOneFault
