--------------------------- MODULE NetworkerRounds ---------------------------
(***************************************************************************)
(* The rounds of one NetWorker collector, from the queries to the stored   *)
(* documents: NetworkerRestCollector fetches the endpoints of a class,     *)
(* parses the answers, publishes the gauges and returns a result, and the  *)
(* writer stores its documents, all of them or, on an error, some.  The    *)
(* server changes between any two steps, and the process may be restarted. *)
(***************************************************************************)
EXTENDS NetworkerClient, NetworkerDocuments

CONSTANT MaxRequests    \* bound: the requests in the plans of a behaviour's rounds

ASSUME MaxRequestsAssumption == MaxRequests \in Nat

\* A job has an id, and one that ended is not said to be running.
ASSUME JobsAssumption ==
    /\ "" \notin Jobs
    /\ \A o \in Outcomes : JobStatus(o.completion, o.state, o.exit) # "running"

VARIABLES
    result,     \* the CollectionResult to be written
    gauges,     \* of each labelled gauge its last value, since the start of the process
    store,      \* Elasticsearch: the source of each document, by index and id
    \* History.
    covered,    \* of jobs and backups the gapless stretch of stored rounds
    lastEnd,    \* when the previous request of the round was over
    requests    \* the requests in the plans so far

history == <<covered, lastEnd, requests>>
vars == <<clock, servervars, clientvars, result, gauges, store, history>>

NoResult == [class |-> "none"]
TimedEndpoints == {"jobs", "backups"}
Window == [jobs |-> JobsWindow, backups |-> BackupsWindow]

\* Unknown: the count of an endpoint that did not answer.
Unknown == Nothing

-----------------------------------------------------------------------------
(* The collector.                                                            *)

\* Mutant of MarkFailedCounts: the counts of failed endpoints stay.
MarkFailedCountsNever(summary, errors) == summary

\* _mark_failed_endpoint_counts_unknown.
MarkFailedCounts(summary, errors) ==
    [summary EXCEPT
        !.job_count = IF "jobs" \in errors THEN Unknown ELSE @,
        !.backup_count = IF "backups" \in errors THEN Unknown ELSE @,
        !.total_backup_bytes = IF "backups" \in errors THEN Unknown ELSE @]

ActiveClass(class) == IF Cardinality(schedules) > 1 THEN class ELSE "all"

Labelled(name, counts) == [l \in {<<name, p>> : p \in DOMAIN counts} |-> counts[l[2]]]

\* Mutant of JobGauges: a policy without jobs goes back to 0.
JobGaugesOrZero(summary) ==
    Over(Over(Labelled("success", summary.success),
              Over(Labelled("failed", summary.failed), Labelled("running", summary.running))),
         [l \in {l \in DOMAIN gauges : l[1] \in {"success", "failed"}} |-> 0])

JobGauges(summary) ==
    Over(Labelled("success", summary.success),
         Over(Labelled("failed", summary.failed), Labelled("running", summary.running)))

\* NETWORKER_CLIENT_COUNT has a domain only when a client was listed.
InventoryGauges(payload) ==
    Over(Labelled("workflows", payload.summary.workflows),
         [l \in IF payload.clients = <<>> THEN {} ELSE {<<"clients", "">>} |->
             Len(payload.clients)])

\* _publish_metrics: the labels of this round are set, and no other is touched.
\* NETWORKER_API_UP, which is only ever set to 1, is left out.
PublishMetrics(payload, class) ==
    Over(IF class \in {"all", "fast", "jobs"} THEN JobGauges(payload.summary) ELSE <<>>,
         Over(IF class \in {"all", "slow", "inventory"} THEN InventoryGauges(payload) ELSE <<>>,
              gauges))

\* fetch_payloads returns, and the collector parses, publishes and returns a result.
Collect ==
    /\ Fetched /\ result = NoResult
    /\ LET parsed == ParsePayload(round.responses)
           summary == Over(MarkFailedCounts(parsed.summary, round.errors),
                           [query_end |-> round.windowEnd])
       IN  /\ gauges' = PublishMetrics([parsed EXCEPT !.summary = summary],
                                       ActiveClass(round.class))
           /\ result' = [class |-> round.class, collected |-> clock, ok |-> TRUE,
                         status |-> IF round.errors # {} THEN "partial" ELSE "success",
                         summary |-> summary, payload |-> parsed]
    /\ UNCHANGED <<clock, servervars, clientvars, store, history>>

\* An item that the parser cannot read: BaseCollector makes the error a result.
CollectRaises ==
    /\ Fetched /\ result = NoResult
    /\ round.responses # <<>>
    /\ result' = [class |-> round.class, collected |-> clock, ok |-> FALSE,
                  status |-> "error", summary |-> <<>>, payload |-> <<>>]
    /\ UNCHANGED <<clock, servervars, clientvars, gauges, store, history>>

-----------------------------------------------------------------------------
(* The writer.                                                               *)

Answered(name) == result.ok /\ name \in DOMAIN round.responses

\* The stretch with the window of this round added to it: a new one after a gap.
Extended(stretch, name) ==
    LET from == round.windowEnd - Window[name]
    IN  IF stretch.last # None /\ from <= stretch.last
        THEN [stretch EXCEPT !.last = round.windowEnd,
                             !.gap = IF round.windowEnd - stretch.last > @
                                     THEN round.windowEnd - stretch.last ELSE @]
        ELSE [first |-> from, last |-> round.windowEnd, gap |-> 0]

\* The bulk request succeeds.
Write ==
    /\ result # NoResult
    /\ store' = Stored(store, Actions(result))
    /\ covered' = [name \in TimedEndpoints |->
                      IF Answered(name) THEN Extended(covered[name], name) ELSE covered[name]]
    /\ result' = NoResult /\ round' = NoRound
    /\ UNCHANGED <<clock, servervars, schedules, gauges, lastEnd, requests>>

\* It fails: the chunks before the failure are stored, or all but a document
\* that is rejected; the error is logged, and the result is not written again.
WriteFails ==
    /\ result # NoResult
    /\ LET actions == Actions(result)
           stored == {1..n : n \in 0..Len(actions)}
                       \cup {DOMAIN actions \ {i} : i \in DOMAIN actions}
       IN  \E places \in stored : store' = Stored(store, Picked(actions, places))
    /\ result' = NoResult /\ round' = NoRound
    /\ UNCHANGED <<clock, servervars, schedules, gauges, history>>

-----------------------------------------------------------------------------

NoStretch == [first |-> None, last |-> None, gap |-> 0]

Init ==
    /\ ServerInit
    /\ schedules \in ScheduleSets
    /\ round = NoRound /\ result = NoResult
    /\ gauges = <<>> /\ store = <<>>
    /\ covered = [name \in TimedEndpoints |-> NoStretch]
    /\ lastEnd = None /\ requests = 0

Begin(class) ==
    /\ BeginRound(class) /\ clock <= Horizon
    /\ requests' = requests + Len(round'.plan) /\ requests' <= MaxRequests
    /\ lastEnd' = None
    /\ UNCHANGED <<clock, servervars, schedules, result, gauges, store, covered>>

FetchUnchanged ==
    UNCHANGED <<clock, servervars, schedules, result, gauges, store, covered, requests>>
SendRequest == Send /\ FetchUnchanged /\ UNCHANGED lastEnd
AnswerArrives == Receive /\ FetchUnchanged /\ lastEnd' = clock
RequestFails == Fail /\ FetchUnchanged /\ lastEnd' = clock
Retry == RetryLater /\ FetchUnchanged /\ UNCHANGED lastEnd

ServerChanges ==
    ServerStep /\ UNCHANGED <<clientvars, result, gauges, store, history>>

TimePasses == Tick /\ UNCHANGED <<result, gauges, store, history>>

\* The process is stopped, or dies, and starts anew with the next round.
Restart ==
    /\ round' = NoRound /\ result' = NoResult /\ gauges' = <<>>
    /\ lastEnd' = None
    /\ UNCHANGED <<clock, servervars, schedules, store, covered, requests>>

Process ==
    \/ \E class \in schedules : Begin(class)
    \/ SendRequest \/ AnswerArrives \/ RequestFails \/ Retry
    \/ Collect \/ CollectRaises \/ Write \/ WriteFails

Next == Process \/ ServerChanges \/ TimePasses \/ Restart

Spec == Init /\ [][Next]_vars

-----------------------------------------------------------------------------
(* Properties.                                                               *)

TypeOK ==
    /\ ServerTypeOK
    /\ schedules \in ScheduleSets
    /\ round = NoRound
       \/ /\ round.class \in schedules
          /\ round.phase \in {"asleep", "sent"}
          /\ round.attempt \in 1..MaxAttempts
          /\ DOMAIN round.responses \cup round.errors = {round.plan[i].name : i \in 1..round.next - 1}
    /\ result = NoResult \/ (Fetched /\ result.class = round.class /\ result.ok \in BOOLEAN)
    /\ DOMAIN covered = TimedEndpoints
    /\ requests \in 0..MaxRequests

RunKeys(j) == {k \in DOMAIN store : k[1][1] = "job-run" /\ k[2] = <<"job", j>>}
BackupKeys(b) ==
    {k \in DOMAIN store : k[1][1] = "backup"
                          /\ store[k].client = BackupInfo[b].client
                          /\ store[k].save_set = BackupInfo[b].name}

\* No job that ended is lost: once a round whose query went past its end is
\* stored, and no window since the first was left out, the run is stored with
\* its outcome, whatever failed, was retried or restarted in between.
EndedJobsAreRecorded ==
    \A j \in Jobs :
        LET stretch == covered["jobs"]
            job == jobs[j]
        IN  (job.end # None /\ stretch.first <= job.end /\ job.end < stretch.last)
            => \E k \in RunKeys(j) :
                  /\ store[k].end = job.end
                  /\ store[k].status = JobStatus(job.outcome.completion, job.outcome.state,
                                                 job.outcome.exit)

\* No completed save set is lost either, as long as it was written in less
\* than the query window minus the longest time between two stored rounds: it
\* is asked for by the time it began, and known when it is complete.
CompletedBackupsAreRecorded ==
    \A b \in Backups :
        LET stretch == covered["backups"]
            backup == backups[b]
        IN  (/\ backup.completion # None
             /\ stretch.first <= backup.save /\ backup.completion < stretch.last
             /\ backup.completion - backup.save + stretch.gap <= BackupsWindow)
            => \E k \in BackupKeys(b) : store[k].completion = backup.completion

\* Overlapping windows and collections on both sides of a month's end leave
\* one document of a run, in the month in which the job started.
JobRunStoredOnce == \A j \in Jobs : Cardinality(RunKeys(j)) <= 1

\* The entry of a document of a run in the ledger of runs.
RunEntries ==
    {[job |-> k[2][2], key |-> k, document |-> store[k]] :
        k \in {k \in DOMAIN store : k[1][1] = "job-run"}}

EndedRuns ==
    [j \in {j \in Jobs : jobs[j].end # None} |->
        [end |-> jobs[j].end,
         status |-> JobStatus(jobs[j].outcome.completion, jobs[j].outcome.state,
                              jobs[j].outcome.exit)]]

Ledger == INSTANCE RunLedger WITH
    Window <- JobsWindow, NoTime <- None, ended <- EndedRuns, ledger <- RunEntries,
    stretch <- [first |-> covered["jobs"].first, last |-> covered["jobs"].last]

\* The stored runs are a ledger: one true entry of a job that ended, never
\* rewritten by a later round, a retry or a restart, in whichever month it is
\* collected; and a stretch of stored rounds has an entry of each of its jobs.
RunsAreALedger == Ledger!Spec

\* A save set is stored twice only if it has an id, was first stored while it
\* was written, and was completed in a later month.
BackupsMoveAtMonthEndOnly ==
    \A b \in Backups :
        Cardinality(BackupKeys(b)) > 1 =>
            /\ BackupInfo[b].id # ""
            /\ Month(backups[b].save) < Month(backups[b].completion)
            /\ Cardinality(BackupKeys(b)) = 2
            /\ \E k \in BackupKeys(b) : store[k].completion = None

\* Overlapping windows leave one document of a backup (README.md:119-120).
BackupStoredOnce == \A b \in Backups : Cardinality(BackupKeys(b)) <= 1

\* The job count of the stored status is that of the server: the jobs that
\* ended in its query window, those of the last second perhaps excepted, or not
\* known.  A failed query, a retry or an error never shows as "no jobs".
CurrentCountIsTheServers ==
    CurrentKey \in DOMAIN store =>
        LET current == store[CurrentKey]
            to == current.summary.query_end
            endedIn(from, until) == 
                Cardinality({j \in Jobs : jobs[j].end # None /\ jobs[j].end \in from..until})
        IN  (current.ok /\ current.summary.job_count # Unknown) =>
               current.summary.job_count \in
                  endedIn(to - JobsWindow, to - 1)..endedIn(to - JobsWindow, to)

\* A round that had no answer for the jobs changes no gauge of them.
UnansweredJobsLeaveGauges ==
    [][(Collect /\ "jobs" \notin DOMAIN round.responses)
        => \A l \in DOMAIN gauges : l[1] \in {"success", "failed", "running"}
                                      => gauges'[l] = gauges[l]]_vars

\* Two requests of a round are rest_request_spacing_seconds apart, from the end
\* of the first with all its retries, also when it failed.
RequestsAreSpaced ==
    [][(SendRequest /\ round.attempt = 1 /\ lastEnd # None)
        => clock >= lastEnd + Spacing]_vars

\* The time a round may take, with every request tried as often as it may be.
LongestRequest == MaxAttempts * Timeout + Backoff * (2 ^ (MaxAttempts - 1) - 1)
LongestRound(n) == n * LongestRequest + (IF n > 1 THEN n - 1 ELSE 0) * Spacing

\* However the server answers, the requests of a round are over in that time.
RoundIsBounded ==
    round # NoRound => clock - round.windowEnd <= LongestRound(Len(round.plan))

\* The rows of the report add up to the summary: every job, workflow and save
\* set is in one row, those of policies that are not configured included.
ReportAddsUp ==
    (result # NoResult /\ result.ok) =>
        LET report == result.payload.report
            summary == result.summary
            keys == DOMAIN report
        IN  /\ Total([key \in keys |-> report[key].success]) = Total(summary.success)
            /\ Total([key \in keys |-> report[key].failed]) = Total(summary.failed)
            /\ Total([key \in keys |-> report[key].running]) = Total(summary.running)
            /\ Total([key \in keys |-> report[key].workflows]) = Total(summary.workflows)
            /\ summary.total_backup_bytes # Unknown =>
                  Total([key \in keys |-> report[key].bytes]) = summary.total_backup_bytes
=============================================================================
