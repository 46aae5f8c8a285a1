SPECIFICATION FairSpec
CONSTANTS
    Viewers = {v1}
    Raw = {}
    Driver = Driver
    LocalAttached = TRUE
    Prompt = {v1}
    Capacity = 2
    ReadMax = 2
    TailMax = 1
    MaxBytes = 3
    MaxPending = 1
INVARIANTS StreamBooks
PROPERTIES InOrder ViewersDelivered
