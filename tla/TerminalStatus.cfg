SPECIFICATION Spec
CONSTANTS
    t1 = t1
    t2 = t2
    n1 = n1
    n2 = n2
    n3 = n3
    n4 = n4
    NoTime = NoTime
    NoNames = NoNames
    NoDocument = NoDocument
    Times <- MCTimes
    Names <- MCNames
    Snapshots <- MCSnapshots
    Backups <- MCBackups
    Limit = 1
PROPERTY
    TerminalStatusIsKept
