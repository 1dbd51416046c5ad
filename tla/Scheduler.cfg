SPECIFICATION Spec
CONSTANTS
    nw = nw
    dd = dd
    NoTask = NoTask
    Collectors <- MCCollectors
    Schedules <- MCSchedules
    Networker <- MCNetworker
    Spacing <- MCSpacing
    Invalid <- InvalidSlow
    Bounded <- MCNetworker
    Requests = {r1}
INVARIANTS
    TypeOK
    OneRoundAtATime
    QueueIsServed
    CloseAfterUse
PROPERTY
    ScheduledCollectionsAreSerial
