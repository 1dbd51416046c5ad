--------------------------- MODULE NetworkerServer ---------------------------
(***************************************************************************)
(* The NetWorker server as its REST client sees it: jobs that start, end   *)
(* and leave an exit code, save sets that are written and completed, and   *)
(* the answers to the four queries of the client.  It is not part of the   *)
(* repository; what is said of it is what networker_rest_client.py and     *)
(* networker_rest_parser.py rely on.                                       *)
(***************************************************************************)
EXTENDS PythonData, SequencesExt, TLC

CONSTANTS
    Jobs,           \* the jobs that may run
    Backups,        \* the save sets that may be written
    JobInfo,        \* what each job is: the fields that do not change
    BackupInfo,     \* what each save set is
    Outcomes,       \* the ways a job may end: completionStatus, state and exitCode
    ClientLists,    \* the answers to a query for the clients
    PolicyLists,    \* the answers to a query for the protection policies
    MaxEvents,      \* bound: jobs and save sets of a behaviour
    Horizon         \* bound: the last time at which the server changes

\* No time, number or exit code: the null of the JSON answers.
None == -1

ASSUME HorizonAssumption == Horizon \in Nat
ASSUME ServerAssumption == IsFiniteSet(Jobs) /\ IsFiniteSet(Backups)
ASSUME ListsAssumption ==
    /\ \A list \in ClientLists \cup PolicyLists : list \in Seq(ToSet(list))
    /\ \A list \in PolicyLists : \A i \in DOMAIN list :
          list[i].workflows \in Seq(ToSet(list[i].workflows))

\* A save set has an id that no other one has, or the names of its client and itself;
\* its size is a number of bytes, if there is one.
ASSUME BackupsAssumption ==
    \A b \in Backups :
        /\ {"id", "client", "name", "size"} \subseteq DOMAIN BackupInfo[b]
        /\ BackupInfo[b].size \in {None} \cup Nat
        /\ BackupInfo[b].id # "" \/ (BackupInfo[b].client # "" /\ BackupInfo[b].name # "")
        /\ BackupInfo[b].id # "" => \A c \in Backups \ {b} : BackupInfo[c].id # BackupInfo[b].id

VARIABLES
    clock,      \* the time, in the unit of the query windows
    jobs,       \* of each job its startTime, endTime and outcome
    backups     \* of each save set its saveTime and completionTime

servervars == <<jobs, backups>>

Times == 0..Horizon
Running == [completion |-> "running", state |-> "active", exit |-> None]

ServerTypeOK ==
    /\ clock \in Nat
    /\ jobs \in [Jobs -> [start : {None} \cup Times, end : {None} \cup Times,
                          outcome : {Running} \cup Outcomes]]
    /\ backups \in [Backups -> [save : {None} \cup Times, completion : {None} \cup Times]]

ServerInit ==
    /\ clock = 0
    /\ jobs = [j \in Jobs |-> [start |-> None, end |-> None, outcome |-> Running]]
    /\ backups = [b \in Backups |-> [save |-> None, completion |-> None]]

Known(j) == jobs[j].start # None \/ jobs[j].end # None
Started == {j \in Jobs : Known(j)} \cup {b \in Backups : backups[b].save # None}
MayChange == clock <= Horizon
MayStart == MayChange /\ Cardinality(Started) < MaxEvents

JobStarts(j) ==
    /\ MayStart
    /\ ~Known(j)
    /\ ~JobInfo[j].neverStarts
    /\ jobs' = [jobs EXCEPT ![j].start = clock]
    /\ UNCHANGED <<clock, backups>>

\* A job ends, or is canceled in the queue without a startTime.
JobEnds(j) ==
    /\ MayChange
    /\ jobs[j].end = None
    /\ IF JobInfo[j].neverStarts THEN MayStart ELSE Known(j)
    /\ \E o \in Outcomes : jobs' = [jobs EXCEPT ![j].end = clock, ![j].outcome = o]
    /\ UNCHANGED <<clock, backups>>

BackupStarts(b) ==
    /\ MayStart
    /\ backups[b].save = None
    /\ backups' = [backups EXCEPT ![b].save = clock]
    /\ UNCHANGED <<clock, jobs>>

BackupCompletes(b) ==
    /\ MayChange
    /\ backups[b].save # None
    /\ backups[b].completion = None
    /\ backups' = [backups EXCEPT ![b].completion = clock]
    /\ UNCHANGED <<clock, jobs>>

ServerStep ==
    \/ \E j \in Jobs : JobStarts(j) \/ JobEnds(j)
    \/ \E b \in Backups : BackupStarts(b) \/ BackupCompletes(b)

-----------------------------------------------------------------------------
(* The answers.  A field filter is applied before the range filter, which    *)
(* then finds none of the records it is to choose from.                      *)

InRange(t, request) == t # None /\ request.from <= t /\ t <= request.to

JobItem(j) ==
    Over([id |-> j, start |-> jobs[j].start, end |-> jobs[j].end,
          completion |-> jobs[j].outcome.completion, state |-> jobs[j].outcome.state,
          exit |-> jobs[j].outcome.exit], JobInfo[j])

BackupItem(b) == Over(backups[b], BackupInfo[b])

FilteredJobs(request) ==
    IF request.fl THEN {} ELSE {j \in Jobs : InRange(jobs[j].end, request)}

FilteredBackups(request) ==
    IF request.fl THEN {} ELSE {b \in Backups : InRange(backups[b].save, request)}

\* A save set that is still being written may be listed or not.
Unfinished(B) == {b \in B : backups[b].completion = None}

AnswersTo(request) ==
    CASE request.name = "jobs" ->
           {[i \in DOMAIN s |-> JobItem(s[i])] : s \in {SetToSeq(FilteredJobs(request))}}
      [] request.name = "backups" ->
           {LET s == SetToSeq(FilteredBackups(request) \ hidden)
            IN  [i \in DOMAIN s |-> BackupItem(s[i])] :
                hidden \in SUBSET Unfinished(FilteredBackups(request))}
      [] request.name = "clients" -> ClientLists
      [] request.name = "policies" -> PolicyLists
=============================================================================
