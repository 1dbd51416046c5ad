SPECIFICATION Spec
CONSTANTS
    Minute = 3
    Day = 6
    MaxInterval = 9
    MaxLate = 1
    MaxRound = 5
    Horizon = 60
INVARIANTS
    TypeOK
    NextRunIsFirstSlot
PROPERTIES
    SleepIsShort
    
