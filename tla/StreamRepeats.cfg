SPECIFICATION ReplaySpec
CONSTANTS
    unlock = unlock
    unlock2 = unlock2
    remote = remote
    id1 = id1
    id2 = id2
    None = None
    Events = {unlock, remote}
    Logged = {unlock, remote}
    Malformed = {}
    Dated = {unlock, remote}
    Broken = {}
    EventId <- EventIds
    Lookback = 2
    Slack = 1
    LivenessTimeout = 1
    Backoff <- OneDelay
    SeenCap = 1
    Forgotten = 1
    InboxCap = 1
INVARIANTS
    ReplayIsDeduplicated
