SPECIFICATION LiveSpec
CONSTANTS
    MaxRecords = 5
    MaxPending = 2
    BatchSize = 2
    MaxFlushes = 2
    Outages = TRUE
INVARIANTS BacklogBounded OnlyUnsureRowsRepeat NoRowForgotten StopDrains
PROPERTIES ImplementsLossyQueue EveryRowSettles
CHECK_DEADLOCK FALSE
