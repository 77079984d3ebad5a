SPECIFICATION Spec
CONSTANTS
    owner = owner
    deputy = deputy
    member = member
    s1 = s1
    s2 = s2
    s3 = s3
    k1 = k1
    k2 = k2
    User = {owner, deputy, member}
    Session = {s1, s2, s3}
    UserOf <- MCUserOf
    d1 = d1
    d2 = d2
    Doc = {d1, d2}
    Key = {k1, k2}
    Knows <- MCKnows
    Epoch = {1, 2}
    NoAnchor = NoAnchor
    Absent = Absent
    HandshakeOnly = HandshakeOnly
    MaxDocuments = 1
    MaxSubscribers = 2
    MaxInitialEpoch = 1
INVARIANTS
    TypeOK
    AnchorIsNewest
    AuthorizedIsHolder
    ContentReachesHolders
SYMMETRY MCSymmetry
