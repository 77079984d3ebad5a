SPECIFICATION Spec
CONSTANTS
    olga = olga
    anna = anna
    twin = twin
    O = O
    A = A
    Client = {olga, anna, twin}
    User = {O, A}
    UserId <- MCUserId
    Creators = {olga}
    Persistent = {anna}
    NoGroup = NoGroup
    MaxEpochs = 4
    MaxPackages = 3
    MaxMessages = 1
INVARIANTS
    TypeOK
    OnlyTheOwnerRemoves
    KeyHoldersAreMembers
    RotationsAreContinuous
CHECK_DEADLOCK FALSE
