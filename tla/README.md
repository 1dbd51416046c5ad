# Verification of the Integrated Backup Monitoring collector

The repository is a collector service for backup systems (NetWorker, Data
Domain, ZFS, Quantum DXi and i6000). A single asyncio process collects from
each server on a schedule, writes the results to Elasticsearch and answers a
small HTTP API. This directory holds TLA+ models of it, the TLC configurations
that check them, and theorems about them with proofs checked by TLAPS.
Source paths below are relative to the repository.

    tlc -config Scheduler.cfg CollectorSchedulerMC     # check one run
    tlapm CollectorSchedulerProofs.tla                 # check the proofs

## The system

| Component | State | Operations | Talks to |
|---|---|---|---|
| Collector scheduler, `apps/scheduler.py` | one task for each (collector, class), one `asyncio.Lock` for each collector, `_collector_finished_at`, `last_results` | `start`, `stop`, `run_once`, `_run_collector_forever`, `_collect_write_record` | collectors, writer; called by the lifespan of `apps/main.py` and by `apps/api/routes.py` |
| Slot computation, `seconds_until_next_run` and `ScheduleConfig` | none | next slot from a schedule and the current time | the loop of each task |
| Collectors, `apps/collectors/` | a client for each | `collect(class)`, `close()` | clients, parsers |
| REST clients, `apps/clients/*rest_client.py` | one `httpx.AsyncClient`, a semaphore; i6000 a session lock and a login; NetWorker the loop of one round | `fetch_named`, `fetch_payloads`, `_get_json`, `close` | the servers |
| SNMP and SSH clients | none kept between rounds | walks of OIDs, one SSH session, in a thread | the servers |
| Elasticsearch writer, `apps/writers/elasticsearch.py` | the client | `write_many`, `close` | Elasticsearch |
| Derived documents, parsers, classifiers | none | conversion of payloads | writer, collectors |
| Action lookup, `apps/lookups/networker_action/` | the ledger of a builder; documents and version of a store | paged read of a point in time, `add_raw`, `add_jobs`, `build`, `commit` | Elasticsearch; no entry point calls it yet |
| Configuration, `apps/core/config.py` | none | parse, `skip_reason`, `effective_schedules` | everything |
| Metrics, logging, deployment files | counters | - | - |

What is hard in it:

* The tasks of one collector queue on an `asyncio.Lock`. Its release and the
  wake-up of the waiter are two steps of the event loop, and between them a
  guard that reads `locked()` sees a free lock with a queue.
* `run_once` enters the same collectors without lock or cooldown, and writes
  its results when the slowest of them is done.
* `stop()` cancels every task at whatever await it is suspended at.
* A collection can raise, hang, or be left behind by a failed `gather`.
* An exception raised before the first await of the loop.
* Bulk requests fail part way or are carried out after their timeout.
* The grid of slots starts anew at every UTC midnight.
* NetWorker is asked for the last minutes only, one request after the other with pauses and retries; a
  window that no stored round covered is never asked for again.
* The same job or save set is collected several times while its times change, and the month of one of
  these times picks its index.
* An endpoint that fails leaves an empty list behind, which looks like "none".
* The i6000 has one login session for each user, and another login ends it.
* Collections of one server share an HTTP client and a semaphore, and `run_once` can leave one behind
  that outlives `close()`.
* SSH and SNMP run in threads, which nothing cancels; an SSH command is waited for before it is read.
* A setting may be missing, a placeholder or in a file, and most have a default.
* Lookup documents come from builders that know nothing of each other, show
  only a part of their ledger, and are merged when they conflict.

What makes each part correct: the scheduled collections of a server are serial
and spaced; no round is lost in the queue; every class recurs; `stop()` ends and
closes nothing in use; older results do not silently replace newer ones; every
slot is run once; every finished job and save set inside the windows is stored, once, and a count is the
server's or unknown; requests are spaced and their number is bounded; every session, HTTP client, SSH connection
and slot of a semaphore that is taken is given back; a result accounts for every name it asked for; a
collector is skipped exactly when its client misses something; the names published for an action agree with everything ever read of it and
stay what they are. `PROJECT.json` lists each hazard with its line and the
properties that cover it, and the ones no property covers yet.

## The modules

### CollectorScheduler

The whole of the control of `apps/scheduler.py`. One action is one
uninterrupted stretch of the event loop, from one await that suspends to the
next, which is the granularity at which asyncio interleaves. `pc[t]` names the
await a task is suspended at:

| `pc[t]` | in the code |
|---|---|
| `none` | not created yet |
| `new` | created by `start()`, not yet run |
| `sleeping` | `asyncio.sleep(seconds_until_next_run(...))`, line 105 |
| `due` | its timer has fired, it is not yet scheduled again |
| `waiting` | queued in `Lock.acquire()`, line 145 |
| `cooldown` | the sleep of `_wait_for_networker_cooldown`, line 165 |
| `collecting` | `collector.collect()`, line 148 |
| `writing` | `writer.write_many()`, line 149 |
| `cancelled` | ended by the `CancelledError` of `stop()` |

`locked`, `waiters` and `woken` are the state of the `asyncio.Lock` of each
collector (CPython 3.12): `acquire()` takes a free lock only when nobody is
queued (`CanTake`), `release()` frees it and completes the future of the first
waiter (`Release`), and this waiter sets `_locked` when it resumes, without
looking at it again (`Granted`). A cancelled waiter leaves the queue and wakes
the next one when the lock is free (`CancelWaiter`). `Granted` needs no guard on
`locked`: that nobody else took the lock meanwhile is a consequence that
`OneRoundAtATime` checks.

`cool[c]` is the cooldown left of a collector, counted down by `Tick`. The
code keeps the time of the last finish and subtracts; the two agree because
`_collector_finished_at` is only read to compute what is left.

A run-once request is `once[r]` and, for each collector, the classes `todo[r][c]`
that its `collect_one` still has to collect. When a collection raises, `gather`
fails the request at once (`OnceCollectRaises`) and leaves the others running, which
`once[r] = "failed"` with a nonempty `todo[r]` stands for.

`BaseCollector.collect` and `write_many` catch `Exception`, so that `RoundFails` and
`OnceCollectRaises` are the faults that the handler of the loop and `gather` are
there for; tests of the repository raise them from stub collectors. Requests end before `Stop`,
as uvicorn runs the shutdown of the lifespan after the last response.

`hog` is a task whose loop does not suspend any more; while there is one, no
other action is enabled (`FailFirst`, `Spin`).

### SerialCollection

The abstract specification: every server is collected for one job at a time
and rests between two of them. `ScheduledCollectionsAreSerial` says that the
scheduled rounds of `CollectorScheduler`, seen from `collect()` to the `finally`
of the round, implement it. The refinement mapping takes the collecting task of a
collector for `active` and the cooldown of a Networker collector for `rest`.

### CollectionPipeline

Extends `CollectorScheduler` by the results that rounds and requests carry.
Each action of the scheduler that moves a result is conjoined with what happens
to it: `collect()` stamps it with the next `collected_at` (`clock`), a round keeps it in
`hand[t]`, a request gathers its own in `got[r]`, `write_many` turns them into
documents (`Bulk`), and `_record_result` keeps the last one (`last`). Of the documents only
CURRENT is modelled, the one with a fixed id, because the others are never
overwritten by a result with another stamp. A bulk request may be carried out
in part, and the part that is missing may arrive later (`late`), as after a
timeout of the client.

### ScheduleClock

`seconds_until_next_run` (`NextRun`) with the loop that sleeps, runs a round and
asks again, over whole seconds. The lengths of a minute and of a day are
constants: 60 and 1440 in the program, 3 and 6 in the runs.

### ActionLookup

The document of one action key. `jobs` and `evidence` are the ledger of one
`ActionLookupBuilder` (`add_jobs`, `add_raw`; the order of `evidence` is the order of the
dictionary, because the audit of a document lists the first `Limit` records), and
`stored` is what `InMemoryLookupStore` has for the key. `Build` is `_document`:
the conditions on snapshots and candidates are in the model, and what else may block
or delay a verdict (coverage, workflow, saves, times, suffix review) is the choice of `doubt`. Of
several snapshots `Selected` leaves open which one was observed last. A fingerprint of the candidates is modelled by the candidates.
`Accepts` has one operator for each error that `commit` raises, and `Replacement` is its merge of a
blocked document.

One builder is followed; `OtherCommit` is any other builder, with any input, that has read the
current version. `fresh` stands for the comparison of versions: it is lost when somebody else
commits, and the followed builder then gets `VersionConflict`.

### NetworkerServer, NetworkerClient, NetworkerParser, NetworkerDocuments, NetworkerRounds

The way of a NetWorker round from its queries to its documents, in five modules. They share `PythonData`, the few
operations on Python's mappings and lists that they need: an updated mapping (`Over`), the two kinds of list
comprehension (`Picked`, `Flattened`) and the sum of a mapping's values (`Total`). These give an item by its place, and a
sum as the number of the things it counts, instead of by recursion, which is what lets the proofs reason about lists of any length.

* `NetworkerServer` is not part of the repository: jobs that start and end, save sets that are written and
  completed, and the answers to the four queries. A save set that is still being written may be listed or
  not, and a field filter is applied before the range, which the comment on `FIELD_FILTERS`
  (`networker_rest_client.py:38`) says of the server.
* `NetworkerClient` is `fetch_payloads` and `_get_json`. `round` holds the plan, the place in it, the attempt
  and `phase`: `asleep` before a request (the pause of line 96 or the backoff of line 193, until `wake`), `sent`
  during it. `Receive`, `Fail` and `RetryLater` are the three ways a request ends.
* `NetworkerParser` is `parse_networker_rest_payload` as operators: the normalised records, the summary
  and the report.
* `NetworkerDocuments` is what `derived.py` and the writer make of a result: for each document its index
  and id, which decide what it replaces, and its source.
* `NetworkerRounds` composes them with the collector (`Collect`: parse, mark the failed counts, publish the gauges), the
  writer (`Write`, `WriteFails`) and a restart of the process at any moment. `covered` is
  history: the gapless stretch of time that stored rounds asked for, with the longest time between two of them.

Left out of these modules: RAW documents, of which each result has its own; the names of collector, site
and security domain in ids and indices, because there is one of each; `NETWORKER_API_UP`, which is only ever set to 1;
`recent_failed_jobs`; the check that the id in a workflow run key is a positive number. `Timeout` stands for the longest
a request takes (the timeout of httpx is one of each read). A bulk request that fails has
stored a prefix of its actions, or all but one. `attributes.policy` stands for the attribute after its suffix is
cut off. `collect()` takes no time between the last answer and its result.

### RunLedger

The abstract specification of what a NetWorker collector stores of job runs: a ledger to which true entries are
added, at most one for each job that ended, in which none is rewritten or removed, and a stretch of time that may be
prolonged only when everything that ended in the window of a round has its entry. `RunsAreALedger` says that `NetworkerRounds`
implements it. The refinement mapping takes the jobs of the server with their end and status for `ended`
(`EndedRuns`), the documents `job-run` in Elasticsearch for `ledger` (`RunEntries`: the job, the index and id, the
source) and `covered["jobs"]` for `stretch`. A bulk request that stores a part only, a round whose jobs query failed, and a write
repeated after a restart are the steps in which entries are added, or none, and the stretch stays.

### DeviceConfig, DeviceCalls, RestDevices, CommandDevices, DeviceRounds

One device that is not a NetWorker server, from its entry in the file to the end of the process.

* `DeviceConfig` is `_parse_schedule`, `_parse_collector`, the `skip_reason` of every protocol and `build_collector`, as
  operators over the raw entry. A missing text is `""`, a missing number is `Default`.
* `DeviceCalls` has what the collections of a device share: `Callers` are the collections, a round of the scheduler
  (`Stoppable`: `stop()` cancels it and waits for it) or a class of a run-once request, which is neither
  cancelled nor waited for.
* `RestDevices` is the i6000 and the ZFS client on top of `ReusableRestClient`: `asked[c][name]` is the task of an
  endpoint in `fetch_named` (waiting for the semaphore, sent, answered, failed); `httpClient` is the present
  `httpx.AsyncClient` by its number, `opened` are those that are not closed; `session` is what the library
  knows of logins. The stages of the appliance (`step`) are its four calls of `fetch_named`.
* `CommandDevices` is the DXi over SSH and the Data Domain over SNMP: `thread[c]` is where the thread of
  `asyncio.to_thread` is, which goes on when its caller is cancelled; `links` are the open
  SSH connections; `output` says whether the command of the moment fits the window of its channel.
* `DeviceRounds` composes them; `Stop`, `CloseBegins` and `CloseEnds` are `stop()` and the two halves of `close()` around
  the await of `aclose()`.

| `stage[c]` | in the code |
|---|---|
| `locking` | `async with self._session_lock`, `i6000_rest_client.py:65` |
| `login` | the answer of `_login`, line 67 |
| `fetching` | `fetch_named`, line 70, or the stages of `zfs_rest_client.py:56-62` |
| `logout`, `leaving` | `_logout` in the `finally`, line 76; `leaving` when the round was cancelled |
| `waiting` | `asyncio.to_thread` of `dd_snmp_collector.py:31` and `dxi_cli_collector.py:29` |
| `returned`, `failed`, `skipped`, `cancelled` | the results of `collect()`, or its `CancelledError` |

The order of commands and of OIDs is left open. Left out: ports, the HTTP method, `ca_certs`, the SNMP
engines (which the client leaves to the library), and what the parsers and gauges of these devices do with a result.

### Proof modules

| Module | Extends | Proves |
|---|---|---|
| `CollectorSchedulerProofs` | `CollectorScheduler` | the lock, its queue, `stop()`, the refinement |
| `CollectionPipelineProofs` | `CollectionPipeline` and the one above | the order of results; the pipeline is a scheduler |
| `ScheduleClockProofs` | `ScheduleClock` | the grid of slots, waits, no slot twice |
| `ActionLookupProofs` | `ActionLookup` | what the store keeps of an action |
| `DeviceRoundsProofs` | `DeviceRounds` | sessions, what is left open, which collectors are skipped |
| `DeviceAnswersProofs` | `DeviceRounds` and the one above | names accounted for, types, the semaphore |
| `NetworkerRoundsProofs` | `NetworkerRounds` | types, spacing, bound of a round, gauges |
| `NetworkerStoreProofs` | the one above | what Elasticsearch has of jobs, save sets and counts; the ledger of runs; the report |

## The runs

| Run | Instance | Shows |
|---|---|---|
| `scheduler` | NetWorker collector `nw` (jobs, backups, inventory; cooldown of 2 ticks), data domain `dd` (fast, and a slow class with an invalid schedule), one request | the lock, its queue, cancellation and shutdown, the refinement |
| `scheduler_liveness` | as before with cooldown 1; `dd` has one class and may never answer | queues drain, rounds recur, requests and `stop()` end |
| `run_once_overlap` | as `scheduler` | **violated**: a request and a round collect from a NetWorker server at once |
| `jobs_queue` | as `scheduler`, no request | **violated**: a jobs round is queued |
| `invalid_schedule` | `nw` with one class, `dd` with an invalid slow class | **violated**: one invalid schedule stops all collection |
| `pipeline` | one collector with two classes that write CURRENT and one that does not, one request, four results | which older results replace newer ones |
| `schedule_clock` | every valid schedule up to 9 minutes, minute of 3 seconds, day of 6 minutes, every start, 60 seconds | slots are found, waited for, and run once |
| `lookup` | one start with the status running, unknown and success, another start that failed; four backups, one in two versions; an audit of one record | names, candidates and execution in the store are kept |
| `terminal_status` | as `lookup` | **violated**: the end of an execution is lost through the status unknown |
| `networker_rounds` | one server with a job or a save set that runs, ends, or is canceled in the queue; two requests; classes jobs, backups, inventory or fast, slow | the stored runs are a ledger of the jobs that ended, save sets are stored complete, counts are true or unknown, a report adds up, requests are spaced and bounded |
| `backup_months` | as `networker_rounds` | **violated**: a save set completed in a later month is stored twice |
| `device_rounds` | a round and a run-once collection on each of 368 configurations of an i6000, a ZFS, a DXi and a Data Domain | sessions, clients, connections and slots are given back; skips are right; everything ends |

Why the bounds suffice. Collectors share no state but the event loop, so one
with a queue and one next to it show every interaction; three classes give a
holder, a woken waiter and a waiter behind it (or a jobs round that meets both),
which is every position in the lock. The cooldown counts to 2, so that a round
may come before, during and after it. A second request adds no new pair of
actors: requests touch neither locks nor cooldowns. Four stamps (`MaxStamp`) allow a held back
request of three classes to be overtaken by a round. In `ScheduleClock` intervals longer than the
day, equal to it, dividing it and not dividing it all occur, timers are up to a
second late (`MaxLate`), rounds last longer than the shortest interval (`MaxRound`), and 60 seconds
(`Horizon`) hold three midnights. In
`ActionLookup` an audit of one record (`Limit`) is truncated by the second backup, and four
names allow a ledger that is larger than the stored one and lacks one of its candidates.

`networker_rounds` has a job or save set (`MaxEvents` is 1) because no rule of the client, the writer or the ids relates two of
them; there is one of each kind to choose from (with and without an id, a policy, a client). Two
requests (`MaxRequests`) give a round of two with a pause in between, or two rounds with overlapping or separate windows,
with a failure, a retry or a restart in either. The month has 3 units and the server changes up to time 4
(`Horizon`), so that a job or save set may lie before, across and after the end of a month; the windows of 3
and 4 units are shorter than the behaviour, so that a gap occurs. One retry gives a first, a last and a repeated
attempt. `device_rounds` has two callers, the two kinds there are; the library has a fast and a slow
endpoint next to its default of eleven, the appliance at most one pool with at most one project at a concurrency of 1
(two pools were checked as well, without liveness), and a DXi two commands behind a jump host. Every text
setting is blank, a placeholder or replaced by another one, and every number of a schedule is absent, at its limits, or past them. Its
behaviours end when both collections and the process have ended, so deadlock is not checked.

### What the violated runs show

1. `run_once` (`scheduler.py:85`) takes neither the lock nor the cooldown, while
   `README.md:72` and `docs/operations.md:126` promise that collections of one server
   are serialized and spaced. `ScheduledCollectionsAreSerial` therefore speaks of the
   scheduled rounds only.
2. The overlap guard (`scheduler.py:133`) reads `lock.locked()`. Between the release
   and the wake-up of the first waiter it is false while the lock is promised to somebody
   else: the jobs round then queues, where `docs/operations.md:128` says it is skipped.
3. For a schedule with a `skip_reason`, `seconds_until_next_run` raises before the
   await of the loop (`scheduler.py:105`); the handler logs "continuing with the next
   schedule" and the loop starts over without ever suspending. `tests/test_config.py:172`
   expects such a collector to be skipped.
4. `commit` (`adapters.py:146`) raises "terminal_state_regression" for the status "running" only. A
   provisional document with the status "unknown" replaces one with "success", revokes its names, and is
   then replaced by a running one, where `validate.py:58` says that terminal wins over a later
   running snapshot and `tests/test_networker_action_lookup.py:568` tests the direct step.
5. A backup has an id without a month and the index of the month of its completion time, or of its save time while there is no
   other (`derived.py:54-78`). A save set that is collected while it is written and completed in a later month is
   stored in both months, where `README.md:119` says that asking again makes no duplicate.
   `BackupsMoveAtMonthEndOnly` says that this is the only way; job runs take the month of their start and are stored once.

Differences between documents and code, and limits of the code, that no run is about:

* Slots start anew at every UTC midnight, so that an interval which does not divide 1440 minutes has a shorter gap there,
  although `scheduler.py:50` logs it as "every %d minutes". `SleepIsShort` and `EverySlotOnce` hold for such intervals too.
* `docs/collection_data_schema.md:233` gives the `@timestamp` of a backup as its save time, else its completion time; the
  code takes them in the other order (`derived.py:55`).
* `docs/operations.md:121` configures an `active_jobs_query`, which no code reads. Jobs are asked for by their end time, so
  that a running job is never listed.
* The up gauges are only ever set to 1, although the documents give 1 as "reachable". A gauge keeps the value of a label that
  a later round does not mention.
* The counts of clients and policies are 0, not unknown, when their endpoint failed
  (`_mark_failed_endpoint_counts_unknown` knows jobs and backups only).
* The backoff of a retry, 1 second, is shorter than the pause between requests; `RequestsAreSpaced` is about
  different requests of one round.
* A login whose answer is lost or cut off is outside the `try` (`i6000_rest_client.py:66-69`) and is not logged out, and a logout
  on a closed client raises an error that is not one of httpx; `SessionsEnd` therefore excepts them (`mislaid`).
* A collection that a run-once request left behind makes a new HTTP client after `close()`, which nobody closes
  (`outlived` in `NothingStaysOpen`).
* `schedule: {slow: }` without a value gives a collector no schedule at all, while every other class takes its defaults.
* A ZFS collector fetches projects and shares for the class "slow" only, not for "inventory" (`zfs_rest_client.py:61`).

`GrownLedgerIsAccepted` is limited to a complete audit for a reason: once a
stored document counts more candidates than it lists, `commit` accepts no larger
ledger of the action any more, whatever the builder reads, and the batch of
other actions it comes with is refused too.

## Fairness

`FairSpec` assumes weak fairness only, of the steps the event loop or a timeout
guarantees: ready tasks run, timers fire, a lock hand-over resumes, a cancelled
task gets its error, `close()` ends, a write to Elasticsearch ends (the client
has a request timeout). A collection ends only for the collectors of
`Bounded`, whose client has a timeout on every request (httpx, SNMP). The SSH
client of DXi awaits an exit status without one, so its collectors are outside
`Bounded`, and the liveness properties hold next to such a collector. No strong
fairness is used: that a queued round gets the lock follows from the queue. The
jobs class is not part of `RoundsRecur`, because its rounds are skipped while the lock is taken,
and nothing in the code keeps that from happening every time.

`DeviceRounds` assumes weak fairness of the steps of a collection that has begun, and of `close()`: requests,
connections, reads and SNMP have timeouts, and a command whose output fits the window of its channel is assumed to exit. That a
collection begins, that a connection is lost, and that the process is stopped are not assumed. A command that
exceeds the window is excepted in `WorkEnds`: its collection never ends, but the shutdown does. (The exit of the
interpreter, which waits for such a thread, is not modelled.)
`NetworkerRounds` has no liveness; `RoundIsBounded` says how long a round may take.

## Proofs

Every invariant that a run checks is proved for every value of the constants; so is
every action property, and both refinements. The theorems assume what the modules assume of their constants:

| Assumptions | Say |
|---|---|
| `SchedulesAssumption`, `NetworkerAssumption`, `BoundedAssumption`, `SpacingAssumption`, `InvalidAssumption`, `NoTaskAssumption`, `MaxStampAssumption` | the types of the scheduler's configuration, and that the bound on results is a number |
| `MinuteAssumption`, `DayAssumption` | lengths are positive |
| `SnapshotsAssumption`, `BackupsAssumption` (of `ActionLookup`), `LimitAssumption`, `NoDocumentAssumption` | types, and a finite set of snapshots and backups |
| `CallersAssumption`, `RawConfigsAssumption` | `stop()` waits for some of the callers; an entry of the file has the fields `_parse_collector` reads, with the types it converts them to, and is not a NetWorker server |
| `WindowAssumption`, `RetryAssumption`, `MonthAssumption`, `HorizonAssumption`, `MaxRequestsAssumption` | types; `retries` is any integer, as the code takes at least one attempt |
| `EndpointsAssumption`, `ServerAssumption`, `ListsAssumption` | the endpoints are a list of the four names; jobs and save sets are finitely many; the server answers lists |
| `JobsAssumption` | a job has an id, and one that ended is not said to be running |
| `BackupsAssumption` (of `NetworkerServer`) | a save set has an id that no other one has, or the names of its client and itself; its size is a number of bytes, if it has one |

The last two are about the NetWorker server. Without them a job or save set has no identity to be stored under
(`BackupIdentity` returns nothing and the record is left out, and two save sets with one id are one document).

### Scheduler and pipeline

* `InductiveInvariant`: the conjunction of the type invariant, the queue
  invariant and the lock invariant is inductive. The lock invariant alone is not: that `Granted`
  finds the lock free needs that only a free lock has woken its first waiter, and that the
  waiter is in the queue once needs the queue to be exactly the waiting tasks.
  One lemma for each kind of step on the queue (`AppendToQueue`, `LeaveAsFirst`,
  `LeaveFrom`) keeps the sequence reasoning out of the step proofs.
* `TypeCorrect`, `LockIsExclusive` and `NoLostWakeup` follow from it.
* `StopClosesAfterUse`: with a second invariant, which ties the phases of
  `stop()` to the tasks and the requests.
* `ImplementsSerialCollection`: every step of the scheduler is a step of
  `SerialCollection` or leaves its variables alone, on the states of the
  invariant; the mapping's CHOOSE is resolved by the uniqueness of the holder.
* `PipelineIsScheduler`: every step of the pipeline is a step of the scheduler, so that all of the above holds of it.
* `PipelineTypeCorrect`, `LastResultIsCurrent`, `CurrentIsOrdered` and `LastResultIsOrdered` from `DataInv`. Its core,
  `WriterIsNewest`, says that the result a task is writing is newer than every scheduled result which its collector shows,
  has recorded or may still show. It is inductive only because one task of a collector writes at a time, which
  `LockIsExclusive` gives, and because a new result takes the next stamp (`ClockIsNewest`).
  `RecordedIsNewest` holds until `stop()` begins: a cancelled round may have stored its result and not recorded it.

### Slots

* `WaitIsShort` (the next slot is after the current time
  and at most one interval away, for every valid schedule, also one that does
  not divide the day), and from it `TypeCorrect` and `SleepEnds`.
* `FirstSlotIsNext`, and from it `FirstSlotIsFound` and `SlotsAreRunOnce`. `GridIsPeriodic` turns the grid of a day, which starts
  anew at midnight, into all times that are the phase of the schedule modulo its period, which is so when the interval divides
  the day (`DayIsWhole`). The code starts from the slot in the period of the current time (`SlotInPeriod`), so that the one it returns
  is the first of them still to come.

### Action lookup

* Its `InductiveInvariant` says that every stored document is
  sound (its names are its only candidate, its audit is part of its candidates), which the merge of
  blocked documents preserves because a blocked document has no names. `CandidatesNeverShrink`
  needs it: an audit of as many names as there are candidates is all of them. From both follow
  `NamesAreProven` and `NamesAreFinal`: the candidate that names were published for stays, and other
  names would need it to be gone. `OneExecution` follows from the merge, and `BuildersAreAccepted` from a second
  invariant (`StoreIsCovered`): while nobody else commits, the builder has all the store has.

### Devices

* `FetchesAreInSession` and `SessionsAreEnded` from `SessionInv`, which says that at most one caller is
  between login and logout, that a fetch has the session, and that a session without a caller has lost an answer.
  The steps of `stop()` and `close()` move several callers at once and have lemmas of their own. `NothingIsLeftOpen` from `OpenInv`
  (only the present HTTP client is open unless a collection outlived the close) and `LinksInv`.
* `SkippedIsWhatCannotRun`: the configuration is that of an entry of the file and never changes (`ConfigInv`). The rest is about the
  operators of `DeviceConfig`: what is parsed is no placeholder, so that `skip_reason` sees an empty text exactly where the client
  lacks a value, and the numbers of a schedule which the file leaves out are in range whenever those it gives are.
  `DefaultsAreValid` is the case of a schedule without offset and second.
* `NoNameIsLost` from `AnswersInv`: the names of the stages of an appliance are disjoint (each name tells its stage), and an answer
  adds no name to a stage up to its own. Both are needed: the second stage asks for names that the answers of
  the first one give, so that what was due would change with them if a later answer could add to it.
* `DeviceTypeCorrect` includes the limit of the semaphore, from `SlotsInv`: only `SendGet` puts a request in flight, and only below
  the limit. Nothing else in the model gives the bound, so that this is about every way in which a request may end.

### NetWorker rounds

* `RoundsAreTyped` from `RoundInv` on plan, place, attempt and names; `RequestsKeepTheirSpacing` from `PacingInv`: before the first
  attempt of a request the timer of the round is the pause after the previous request, and a retry, which sets the
  timer to its backoff, is no first attempt.
* `RoundsAreBounded` from `TimeInv`: an attempt is sent no later than all pauses, timeouts and doubled backoffs before it add up to
  (`AttemptsAddUp`, `RequestsAddUp`), and time stops at the last answer.
* `GaugesKeepTheirJobs`: a mapping updated by gauges of other labels keeps these.

What is stored (`NetworkerStoreProofs`) follows from `StoreInv`, the conjunction of

| Part | Says | Needed because |
|---|---|---|
| `ServerInv` | times do not lie ahead; an ended job has an outcome | an answer is compared with what the server has later |
| `PlanInv` | a request asks over the window that ends when its round began | the window decides what an answer must have |
| `AnswersInv` | an answer in hand has everything that ended in its window but the last second, nothing that did not end, and no job twice | it has to stay true while the round waits for its other answers: what ended does not change, and what ends now ends after the window |
| `ResultInv` | the result is parsed from the answers of its round | the write sees the result only |
| `RunsInv`, `BackupsInv` | a stored document shows a job, or a save set before or after its completion, under the one key of what it shows; a stored run is the whole document of its job (`RunSource`), which later rounds write again unchanged | two documents of one run would need two keys |
| `CoveredInv` | every job that ended in the stretch of stored rounds is stored | |
| `FreshInv` | of a save set that is stored as complete no answer in hand is older | a round that asked before would put the open save set back under the same id |
| `CompletedInv` | every save set of the stretch that was written fast enough is stored as complete | |

and gives `JobRunsAreStoredOnce`, `EndedJobsAreStored`, `CompletedBackupsAreStored` and `BackupsMoveAtMonthEnds`. The last one has the
hypothesis that the names of client and save set tell the save sets apart, since the documents are counted by these names. The step that
all of them go through is `WritesAreStored`: of the actions that were carried out, the last one for a key is what the store has.
`StoredCountsAreTrue` needs `CurrentInv` besides, and that the collector asks for jobs at all: without "jobs" among its endpoints no
query fails and the code counts an empty list, so that its count is 0 whatever the server has.

`ImplementsRunLedger` adds to `StoreInv` that the window of a round ends no earlier than the stretch of stored rounds (`RoundIsLater`,
together `LedgerInv`): without it a write could take the stretch back. The steps of the server end jobs (`LedgerEnds`), `Write`
and `WriteFails` record (`LedgerRecords`), and every other step leaves the ledger alone (`LedgerStays`). That an entry is never rewritten
needs that the document of an ended job is a function of the job (`RunSourcesStay`). `LedgersKeepTheirPromise` is
about the ledger alone: its promises, that entries are true, one for each job, and complete over the stretch, follow from its steps.

`ReportsAddUp` is about the parser: the rows of a report and the counts by policy of a summary classify the same records in two
ways, and their sums agree because each is the number of all records (`ClassesAddUp`: the classes of a finite set add up to
it, by a bijection between the set and the pairs of a class and a number up to its size). That holds only if every record has a row, which is what `RowsAddUp` shows for
workflows and jobs and `BytesAddUp` for the sizes of save sets; the sizes are numbers because the server's are (`SavedBytesAreNumbers`).

`StoreInv` and `CurrentInv` were checked by TLC on the instance of the run `networker_rounds` as well.

### Only model-checked

* The liveness properties (`QueuedRoundsRun`, `RoundsRecur`, `StopEnds`, `RequestsEnd`, `WorkEnds`): fairness and ENABLED are out of the
  prover's reach.
* The properties of the runs that are violated.

The prover cannot instantiate an induction over data, so that no proof rests on what a fold or a recursive definition computes. Sums
are counts of things (`Total`), and where a proof needs the smallest or last of finitely many things, it
uses cardinalities, or the least-number principle as an instance of the library's `WFMin`, which has no operator parameter.

## Not modelled, and why

The parsers of the i6000, ZFS, DXi and Data Domain convert the text or JSON of one device into another shape without control beyond
a loop over fields, and unit tests reach them; with them go the gauges of these devices and the derived documents of
`derived.py:191-231`, which no caller stores. Other metrics, logs and the deployment files have no state that the program
reads. `last_results_by_class` is `last_results` with a finer key. The wall clock is assumed not to be set
back. The Elasticsearch section of the configuration decides only whether there is a client. Of the action lookup
the paged read of a point in time, the coverage in detail and batches of several keys with one error are not modelled.

## Plan

Done, in the order of importance: the scheduler with its lock and its shutdown, the flow of results, the slots, the lookup
of an action, the rounds of a NetWorker server from the query to the stored document, the configuration and the collections of the
other devices. Next:

1. **ActionLookup**, the rest: the paged read of a point in time, coverage in detail, and batches of
   several keys with one error.
2. The slots of `ScheduleClock` together with the windows of `NetworkerClient`: how many skipped rounds a window bridges.

Proofs to come: a ledger of save sets next to `RunLedger`, whose entries move from open to completed; and what the paged read and the coverage of `ActionLookup` add to it.
