SPECIFICATION Spec
CONSTANTS
    User = {u1, u2}
    Doc = {d1}
    NoUser = NoUser
    MaxConn = 3
    MaxConnections = 2
    Capacity = 1
    MaxDocuments = 1
    MaxSubscribers = 2
    QueueBudget = 2
    MaxPerUser = 1
    MaxUsers = 1
    MaxMessages = 2
    Reidentify = FALSE
CHECK_DEADLOCK FALSE
INVARIANTS
    TypeOK
    ExactlyOnePlace
PROPERTIES
    NewerSessionSurvives
    QueueAsPromised
