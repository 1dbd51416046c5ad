SPECIFICATION FairSpec
CONSTANTS
    nw = nw
    dd = dd
    NoTask = NoTask
    Collectors <- MCCollectors
    Schedules <- TwoSchedules
    Networker <- MCNetworker
    Spacing <- MCSpacing
    Invalid <- InvalidSlow
    Bounded <- MCCollectors
    Requests = {}
PROPERTY
    OthersKeepRunning
