SPECIFICATION FairSpec
CONSTANTS
    k1 = k1
    k2 = k2
    k3 = k3
    None = None
    Keys = {k1, k2, k3}
    Routable = {k1, k2}
    Ttl = 2
    MaxEntries = 1
    QueueCap = 1
    RetryAttempts = 3
    MaxSends = 5
INVARIANTS
    TypeOK
    Accounting
    AttemptsAreBounded
    TableIsOrderedBySend
PROPERTIES
    SuppressionIsRecent
    RepetitionIsSuppressed
    QueueDrains
