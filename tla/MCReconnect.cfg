SPECIFICATION FairSpec
CONSTANTS
    Client = {a, b}
    Nobody = Nobody
    MaxRetries = 5
    InitialDelay = 1
    MaxDelay = 30
    Multiplier = 2
    MinStable = 10
CHECK_DEADLOCK FALSE
INVARIANTS
    GivesUpInTime
PROPERTIES
    NoReconnectStorm
    TakeoverSettles
