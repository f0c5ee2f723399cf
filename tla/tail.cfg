SPECIFICATION Spec
CONSTANTS
    Adapters = {"claude", "codex", "companion"}
    Kinds = {"run", "done", "conflict"}
    Versions = {"unknown", "drifted"}
    MaxBytes = 3
    MaxPartial = 2
    MaxRecords = 1
    MaxBatches = 2
    TailBytes = 2
    MaxLength = 4
    MaxFaults = 1
    MaxRewrites = 1
INVARIANTS NoRecordSkipped
PROPERTIES CatchesUp
