SPECIFICATION Spec
CONSTANTS
    anna = anna
    bert = bert
    a = a
    b = b
    t = t
    f = f
    g = g
    Client = {anna, bert}
    Native = {bert}
    Path = {a, b, t}
    Scope = {a, b}
    SyncDeletions = TRUE
    SyncRenames = TRUE
    MaxNewPaths = 2
    MaxManifestBytes = 3
    Capacity = 1
    Ids <- MCIds
    Folder = {root, f, g}
    Root = root
    Parent <- MCParent
    MaxCalls = 2
    MaxActs = 3
    MaxFaults = 1
CHECK_DEADLOCK FALSE
INVARIANTS
    RegistryFollowsManifest
    NoEcho
    WatcherFollowsDisk
    OwnWordIsTrue
PROPERTIES
    Settles
