SPECIFICATION MCSpec
CONSTANTS
    None = None
    Timers = {1, 2}
    Durations = {2}
    Slack = 1
    Preserve = 2
    PollEvery = 2
    NearPollEvery = 1
    NearWindow = 1
    FollowUp = 1
    TimerMoves = 3
    NoCall = NoCall
    PingEvery = 1
    RefreshEvery = 1
    NoopRetry = 1
    OutsideCooldown = 1
    MinTokenAge = 1
    CookieAge = 1
    RecommendAge = 1
    WatchdogAge = 2
    ForceAge = 2
    FailureThreshold = 3
    MaxFrames = 2
    Chains = 2
    SessionMoves = 1
INVARIANTS
    TimersTypeOK
    NoRequestLost
    KeepaliveTypeOK
PROPERTIES
    OverUnlessLeftOut
    StartedOnce
    MirrorFollows
    DeadIsReported
    LiveIsNotCondemned
CHECK_DEADLOCK FALSE
