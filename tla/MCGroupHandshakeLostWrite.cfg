SPECIFICATION Spec
CONSTANTS
    olga = olga
    anna = anna
    bert = bert
    O = O
    A = A
    B = B
    Client = {olga, anna, bert}
    User = {O, A, B}
    UserId <- MCUserId
    Owner = olga
    Allowed = {A, B}
    NoGroup = NoGroup
    MaxEpochs = 3
    MaxPackages = 3
    MaxMessages = 0
    MaxFaults = 2
    DeadlinesPass = FALSE
    WritesLand = FALSE
INVARIANT NoDivergence
CHECK_DEADLOCK FALSE
