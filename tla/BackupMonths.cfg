SPECIFICATION Spec
CONSTANTS
    Jobs <- MCJobs
    JobInfo <- MCJobInfo
    Outcomes <- MCOutcomes
    Backups <- MCBackups
    BackupInfo <- MCBackupInfo
    ClientLists <- MCClientLists
    PolicyLists <- MCPolicyLists
    Endpoints <- MCEndpoints
    ScheduleSets <- MCScheduleSets
    MaxRequests = 2
    MaxEvents = 1
    Horizon = 4
    JobsWindow = 3
    BackupsWindow = 4
    FieldFilter = TRUE
    Spacing = 1
    Retries = 1
    Backoff = 1
    Timeout = 1
    MonthLength = 3
INVARIANTS
    BackupStoredOnce
