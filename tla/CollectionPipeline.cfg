SPECIFICATION PSpec
CONSTANTS
    nw = nw
    NoTask = NoTask
    Collectors <- MCCollectors
    Schedules <- MCSchedules
    Networker <- MCCollectors
    Spacing <- MCSpacing
    Invalid = {}
    Bounded <- MCCollectors
    Requests = {r1}
    MaxStamp = 4
INVARIANTS
    PTypeOK
    
PROPERTIES
    CurrentFollowsTheRounds
    LastResultFollowsTheRounds
