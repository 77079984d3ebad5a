SPECIFICATION Spec
CONSTANTS
    olga = olga
    anna = anna
    bert = bert
    O = O
    A = A
    B = B
    Client = {olga, anna, bert}
    User = {O, A, B}
    UserId <- MCUserId
    Owner = olga
    Allowed = {A, B}
    NoGroup = NoGroup
    MaxEpochs = 3
    MaxPackages = 3
    MaxMessages = 0
    MaxFaults = 0
    DeadlinesPass = FALSE
    WritesLand = TRUE
INVARIANT OnlyTheLostAreStuck
CHECK_DEADLOCK FALSE
