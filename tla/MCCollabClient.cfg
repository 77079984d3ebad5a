SPECIFICATION FairSpec
CONSTANTS
    MaxAttempts = 2
    MaxSockets = 4
CHECK_DEADLOCK FALSE
INVARIANTS
    NoOrphanSocket
    RetryLoopAlive
    GuardIsPending
    SlotsSound
PROPERTIES
    ConnectSettles
