SPECIFICATION ReachableSpec
CONSTANTS
    unlock = unlock
    unlock2 = unlock2
    remote = remote
    id1 = id1
    id2 = id2
    None = None
    Events = {unlock, unlock2, remote}
    Logged = {unlock, unlock2, remote}
    Malformed = {unlock2}
    Dated = {unlock}
    Broken = {remote}
    EventId <- EventIds
    Lookback = 2
    Slack = 1
    LivenessTimeout = 1
    Backoff <- TwoDelays
    SeenCap = 1
    Forgotten = 1
    InboxCap = 1
INVARIANTS
    TypeOK
    AtMostOnce
    SeenMeansHandled
    ReadyWhileListening
PROPERTIES
    LostLinksAreRetriedSoon
    BrokenLinksAreNoticed
    StreamComesBack
