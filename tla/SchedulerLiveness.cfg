SPECIFICATION FairSpec
CONSTANTS
    nw = nw
    dd = dd
    NoTask = NoTask
    Collectors <- MCCollectors
    Schedules <- HangSchedules
    Networker <- MCNetworker
    Spacing <- HangSpacing
    Invalid = {}
    Bounded <- MCNetworker
    Requests = {r1}
PROPERTIES
    QueuedRoundsRun
    RoundsRecur
    StopEnds
    RequestsEnd
