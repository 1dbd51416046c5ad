SPECIFICATION Spec
CONSTANTS
    nw = nw
    dd = dd
    NoTask = NoTask
    Collectors <- MCCollectors
    Schedules <- MCSchedules
    Networker <- MCNetworker
    Spacing <- MCSpacing
    Invalid <- InvalidSlow
    Bounded <- MCNetworker
    Requests = {}
INVARIANT
    JobsNeverQueue
