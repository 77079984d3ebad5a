SPECIFICATION FairSpec
CONSTANTS
    User = {u1, u2}
    Doc = {d1, d2}
    NoUser = NoUser
    MaxConn = 2
    MaxConnections = 2
    Capacity = 1
    MaxDocuments = 1
    MaxSubscribers = 1
    QueueBudget = 2
    MaxPerUser = 1
    MaxUsers = 1
    MaxMessages = 1
    Reidentify = TRUE
CHECK_DEADLOCK FALSE
INVARIANTS
    SubscriptionCaps
PROPERTIES
    HandlersReturn
    SupersededCloses
