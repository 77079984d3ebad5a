SPECIFICATION FairSpec
CONSTANTS
    User = {u1, u2, u3}
    content = content
    handshake = handshake
    Kind <- MCKind
    Size = {0, 1, 2}
    Budget <- MCBudget
    PerUser <- MCPerUser
    MaxPerUser = 2
    MaxUsers = 2
    MaxMessages = 4
INVARIANTS
    TypeOK
    OrderTracksQueues
    BudgetHolds
    CountCaps
PROPERTIES
    LockReleased
    ImplementsStore
