------------------------- MODULE CollectorScheduler -------------------------
(***************************************************************************)
(* The collection scheduler of apps/scheduler.py.  One asyncio task runs   *)
(* for every (collector, collection class) with a schedule; the tasks of   *)
(* one collector share an asyncio.Lock, and a Networker collector rests    *)
(* for a cooldown between two collections.  POST /collectors/run-once      *)
(* enters the same collectors from outside, and stop() ends everything.    *)
(*                                                                         *)
(* One action is one uninterrupted stretch of the event loop: from one     *)
(* await that suspends to the next one.                                    *)
(***************************************************************************)
EXTENDS Naturals, SequencesExt

CONSTANTS
    Collectors,     \* the configured collectors
    Schedules,      \* the classes of each collector's effective_schedules, in order
    Networker,      \* the collectors whose target_type is "Networker"
    Spacing,        \* rest_request_spacing_seconds of each collector, in ticks
    Invalid,        \* the tasks whose ScheduleConfig has a skip_reason
    Bounded,        \* the collectors whose client gives up on every request after a timeout
    Requests,       \* the run-once requests that can be in flight at once
    NoTask          \* no task

Classes == {"fast", "jobs", "backups", "inventory", "slow"}

ASSUME SchedulesAssumption == Schedules \in [Collectors -> Seq(Classes)]
ASSUME NetworkerAssumption == Networker \subseteq Collectors
ASSUME BoundedAssumption == Bounded \subseteq Collectors
ASSUME SpacingAssumption == Spacing \in [Collectors -> Nat]

\* One task for each class of each collector.
Tasks == {t \in Collectors \X Classes :
             \E i \in DOMAIN Schedules[t[1]] : Schedules[t[1]][i] = t[2]}

ASSUME InvalidAssumption == Invalid \subseteq Tasks
ASSUME NoTaskAssumption == NoTask \notin Tasks

VARIABLES
    phase,      \* the application: "init", "running", "cancelling", "closing" or "stopped"
    hog,        \* the task whose loop never suspends, NoTask when there is none
    pc,         \* the await each task is suspended at
    locked,     \* _locked of each collector's asyncio.Lock
    waiters,    \* _waiters of each lock: the tasks queued on it, first come first
    woken,      \* has the future of the first waiter been given its result?
    cool,       \* ticks left until Spacing has passed since _collector_finished_at
    once,       \* each run-once request: "idle", "collecting", "writing" or "failed"
    todo,       \* the classes each request has yet to collect, the first one in flight
    closed      \* the collectors whose close() has returned

vars == <<phase, hog, pc, locked, waiters, woken, cool, once, todo, closed>>

Phases == {"init", "running", "cancelling", "closing", "stopped"}
TaskStates == {"none", "new", "sleeping", "due", "waiting", "cooldown", "collecting", "writing", "cancelled"}
OnceStates == {"idle", "collecting", "writing", "failed"}

TypeOK ==
    /\ phase \in Phases
    /\ hog \in Tasks \cup {NoTask}
    /\ pc \in [Tasks -> TaskStates]
    /\ locked \in [Collectors -> BOOLEAN]
    /\ waiters \in [Collectors -> Seq(Tasks)]
    /\ woken \in [Collectors -> BOOLEAN]
    /\ cool \in [Collectors -> Nat]
    /\ once \in [Requests -> OnceStates]
    /\ todo \in [Requests -> [Collectors -> Seq(Classes)]]
    /\ closed \in SUBSET Collectors

-----------------------------------------------------------------------------
Owner(t) == t[1]
ClassOf(t) == t[2]

\* The task is inside `async with lock`.
Holds(t) == pc[t] \in {"cooldown", "collecting", "writing"}

Init ==
    /\ phase = "init"
    /\ hog = NoTask
    /\ pc = [t \in Tasks |-> "none"]
    /\ locked = [c \in Collectors |-> FALSE]
    /\ waiters = [c \in Collectors |-> <<>>]
    /\ woken = [c \in Collectors |-> FALSE]
    /\ cool = [c \in Collectors |-> 0]
    /\ once = [r \in Requests |-> "idle"]
    /\ todo = [r \in Requests |-> [c \in Collectors |-> <<>>]]
    /\ closed = {}

\* Tasks run their own code: the loop serves them and nobody cancelled them.
Alive == phase = "running" /\ hog = NoTask

\* start() creates the tasks.
Start ==
    /\ phase = "init"
    /\ phase' = "running"
    /\ pc' = [t \in Tasks |-> "new"]
    /\ UNCHANGED <<hog, locked, waiters, woken, cool, once, todo, closed>>

\* A task runs for the first time, up to the sleep until its first slot.
FirstSleep(t) ==
    /\ Alive
    /\ pc[t] = "new"
    /\ t \notin Invalid
    /\ pc' = [pc EXCEPT ![t] = "sleeping"]
    /\ UNCHANGED <<phase, hog, locked, waiters, woken, cool, once, todo, closed>>

\* With an invalid schedule it never gets there: seconds_until_next_run
\* raises, the handler of the loop catches it, and `while True` starts over
\* without an await.  The event loop does not get the thread back.
FailFirst(t) ==
    /\ Alive
    /\ pc[t] = "new"
    /\ t \in Invalid
    /\ hog' = t
    /\ UNCHANGED <<phase, pc, locked, waiters, woken, cool, once, todo, closed>>

\* One more iteration of such a task: the same error again.
Spin(t) ==
    /\ hog = t
    /\ UNCHANGED vars

\* Mutant of Tick: the time left is not cut off at zero.
TickBelowZero ==
    /\ hog = NoTask
    /\ \E c \in Collectors : cool[c] > 0
    /\ cool' = [c \in Collectors |-> cool[c] - 1]
    /\ UNCHANGED <<phase, hog, pc, locked, waiters, woken, once, todo, closed>>

\* One second passes.
Tick ==
    /\ hog = NoTask
    /\ \E c \in Collectors : cool[c] > 0
    /\ cool' = [c \in Collectors |-> IF cool[c] = 0 THEN 0 ELSE cool[c] - 1]
    /\ UNCHANGED <<phase, hog, pc, locked, waiters, woken, once, todo, closed>>

-----------------------------------------------------------------------------
(* A round of one task: its slot comes, and _collect_write_record runs.     *)

\* The timer of the sleep fires; the task runs when the loop gets to it.
SlotDue(t) ==
    /\ Alive
    /\ pc[t] = "sleeping"
    /\ pc' = [pc EXCEPT ![t] = "due"]
    /\ UNCHANGED <<phase, hog, locked, waiters, woken, cool, once, todo, closed>>

\* The guard in front of the lock: a jobs round that finds it locked is over.
Overlaps(t) == ClassOf(t) = "jobs" /\ locked[Owner(t)]

SkipOverlap(t) ==
    /\ Alive
    /\ pc[t] = "due"
    /\ Overlaps(t)
    /\ pc' = [pc EXCEPT ![t] = "sleeping"]
    /\ UNCHANGED <<phase, hog, locked, waiters, woken, cool, once, todo, closed>>

\* Lock.acquire() takes a free lock only when nobody is queued on it.
CanTake(c) == ~locked[c] /\ waiters[c] = <<>>

\* _wait_for_networker_cooldown has to sleep.
MustCool(c) == c \in Networker /\ cool[c] > 0

\* With the lock taken, collect() follows at once unless there is a cooldown.
EnterRound(t) ==
    LET c == Owner(t)
    IN  /\ locked' = [locked EXCEPT ![c] = TRUE]
        /\ pc' = [pc EXCEPT ![t] = IF MustCool(c) THEN "cooldown" ELSE "collecting"]

\* Mutant of Acquire: each class has a lock of its own.
AcquireByClass(t) ==
    /\ Alive
    /\ pc[t] = "due"
    /\ ~Overlaps(t)
    /\ EnterRound(t)
    /\ UNCHANGED <<phase, hog, waiters, woken, cool, once, todo, closed>>

Acquire(t) ==
    /\ Alive
    /\ pc[t] = "due"
    /\ ~Overlaps(t)
    /\ CanTake(Owner(t))
    /\ EnterRound(t)
    /\ UNCHANGED <<phase, hog, waiters, woken, cool, once, todo, closed>>

\* ... and otherwise the task queues behind the others.
Enqueue(t) ==
    /\ Alive
    /\ pc[t] = "due"
    /\ ~Overlaps(t)
    /\ ~CanTake(Owner(t))
    /\ pc' = [pc EXCEPT ![t] = "waiting"]
    /\ waiters' = [waiters EXCEPT ![Owner(t)] = Append(@, t)]
    /\ UNCHANGED <<phase, hog, locked, woken, cool, once, todo, closed>>

\* The first waiter resumes: acquire() sets _locked without looking at it again.
Granted(t) ==
    LET c == Owner(t)
    IN  /\ Alive
        /\ pc[t] = "waiting"
        /\ woken[c] /\ Head(waiters[c]) = t
        /\ EnterRound(t)
        /\ waiters' = [waiters EXCEPT ![c] = Tail(@)]
        /\ woken' = [woken EXCEPT ![c] = FALSE]
        /\ UNCHANGED <<phase, hog, cool, once, todo, closed>>

CooldownOver(t) ==
    /\ Alive
    /\ pc[t] = "cooldown"
    /\ cool[Owner(t)] = 0
    /\ pc' = [pc EXCEPT ![t] = "collecting"]
    /\ UNCHANGED <<phase, hog, locked, waiters, woken, cool, once, todo, closed>>

\* collect() returns a result, ok or not, and write_many starts.
CollectReturns(t) ==
    /\ Alive
    /\ pc[t] = "collecting"
    /\ pc' = [pc EXCEPT ![t] = "writing"]
    /\ UNCHANGED <<phase, hog, locked, waiters, woken, cool, once, todo, closed>>

\* Lock.release(): the lock is free and the first waiter has its result.
Release(c) ==
    /\ locked' = [locked EXCEPT ![c] = FALSE]
    /\ woken' = [woken EXCEPT ![c] = waiters[c] # <<>>]

\* Mutant of EndRound: a flag is cleared instead of a lock released, nobody is woken.
EndRoundSilently(t) ==
    /\ cool' = [cool EXCEPT ![Owner(t)] = Spacing[Owner(t)]]
    /\ locked' = [locked EXCEPT ![Owner(t)] = FALSE]
    /\ pc' = [pc EXCEPT ![t] = "sleeping"]
    /\ UNCHANGED <<phase, hog, waiters, woken, once, todo, closed>>

\* The finally of the round, the release of the lock, and the next sleep.
EndRound(t) ==
    /\ cool' = [cool EXCEPT ![Owner(t)] = Spacing[Owner(t)]]
    /\ Release(Owner(t))
    /\ pc' = [pc EXCEPT ![t] = "sleeping"]
    /\ UNCHANGED <<phase, hog, waiters, once, todo, closed>>

\* write_many returns, whatever Elasticsearch said, and the result is recorded.
WriteReturns(t) == Alive /\ pc[t] = "writing" /\ EndRound(t)

\* Mutant of RoundFails: the finish is not stamped in a finally.
RoundFailsUnstamped(t) ==
    /\ Alive
    /\ pc[t] = "collecting"
    /\ Release(Owner(t))
    /\ pc' = [pc EXCEPT ![t] = "sleeping"]
    /\ UNCHANGED <<phase, hog, waiters, cool, once, todo, closed>>

\* Mutant of RoundFails: the loop does not catch the exception.
RoundFailsForGood(t) ==
    /\ Alive
    /\ pc[t] = "collecting"
    /\ cool' = [cool EXCEPT ![Owner(t)] = Spacing[Owner(t)]]
    /\ Release(Owner(t))
    /\ pc' = [pc EXCEPT ![t] = "none"]
    /\ UNCHANGED <<phase, hog, waiters, once, todo, closed>>

\* collect() raises instead: the loop's handler logs it and goes on.
RoundFails(t) == Alive /\ pc[t] = "collecting" /\ EndRound(t)

-----------------------------------------------------------------------------
(* run_once(): a request collects from every collector at the same time,    *)
(* class after class, and writes all the results together.                  *)

RunOnce(r) ==
    /\ Alive
    /\ once[r] = "idle"
    /\ once' = [once EXCEPT ![r] = "collecting"]
    /\ todo' = [todo EXCEPT ![r] = Schedules]
    /\ UNCHANGED <<phase, hog, pc, locked, waiters, woken, cool, closed>>

AllCollected(r) == \A c \in Collectors : todo[r][c] = <<>>

\* One collect() returns; collect_one goes on with the collector's next class.
OnceCollectReturns(r, c) ==
    /\ hog = NoTask
    /\ todo[r][c] # <<>>
    /\ todo' = [todo EXCEPT ![r][c] = Tail(@)]
    /\ UNCHANGED <<phase, hog, pc, locked, waiters, woken, cool, once, closed>>

\* Mutant of OnceCollectRaises: the class is tried again after the others.
OnceCollectRetries(r, c) ==
    /\ hog = NoTask
    /\ todo[r][c] # <<>>
    /\ todo' = [todo EXCEPT ![r][c] = Append(Tail(@), Head(@))]
    /\ UNCHANGED <<phase, hog, pc, locked, waiters, woken, cool, once, closed>>

\* One collect() raises: gather passes the exception on to the request at
\* once, and leaves the collect_one of the other collectors running.
OnceCollectRaises(r, c) ==
    /\ hog = NoTask
    /\ todo[r][c] # <<>>
    /\ once' = [once EXCEPT ![r] = "failed"]
    /\ todo' = [todo EXCEPT ![r][c] = <<>>]
    /\ UNCHANGED <<phase, hog, pc, locked, waiters, woken, cool, closed>>

\* gather returns: the results go to write_many in one call.
OnceGathered(r) ==
    /\ hog = NoTask
    /\ once[r] = "collecting"
    /\ AllCollected(r)
    /\ once' = [once EXCEPT ![r] = "writing"]
    /\ UNCHANGED <<phase, hog, pc, locked, waiters, woken, cool, todo, closed>>

\* write_many returns, the results are recorded and the request is answered;
\* neither the cooldown nor the lock of a collector hears of it.
OnceWriteReturns(r) ==
    /\ hog = NoTask
    /\ once[r] = "writing"
    /\ once' = [once EXCEPT ![r] = "idle"]
    /\ UNCHANGED <<phase, hog, pc, locked, waiters, woken, cool, todo, closed>>

\* The last collection that a failed request left behind has ended.
OnceForgotten(r) ==
    /\ once[r] = "failed"
    /\ AllCollected(r)
    /\ once' = [once EXCEPT ![r] = "idle"]
    /\ UNCHANGED <<phase, hog, pc, locked, waiters, woken, cool, todo, closed>>

-----------------------------------------------------------------------------
(* stop(): called by the lifespan once uvicorn has answered every request.  *)

Stop ==
    /\ Alive
    /\ \A r \in Requests : once[r] \in {"idle", "failed"}
    /\ phase' = "cancelling"
    /\ UNCHANGED <<hog, pc, locked, waiters, woken, cool, once, todo, closed>>

\* Every live task was given a CancelledError, thrown at the await it is at.
\* A task that is asleep, or about to look at the lock, just ends.
CancelIdle(t) ==
    /\ phase = "cancelling"
    /\ pc[t] \in {"new", "sleeping", "due"}
    /\ pc' = [pc EXCEPT ![t] = "cancelled"]
    /\ UNCHANGED <<phase, hog, locked, waiters, woken, cool, once, todo, closed>>

\* acquire() of a cancelled waiter leaves the queue, and passes a free lock on.
CancelWaiter(t) ==
    LET c == Owner(t)
    IN  /\ phase = "cancelling"
        /\ pc[t] = "waiting"
        /\ pc' = [pc EXCEPT ![t] = "cancelled"]
        /\ \E i \in DOMAIN waiters[c] :
              /\ waiters[c][i] = t
              /\ waiters' = [waiters EXCEPT ![c] = RemoveAt(@, i)]
        /\ woken' = [woken EXCEPT ![c] = ~locked[c] /\ waiters'[c] # <<>>]
        /\ UNCHANGED <<phase, hog, locked, cool, once, todo, closed>>

\* The holder releases the lock; past its cooldown it also stamps the finish.
CancelRound(t) ==
    LET c == Owner(t)
    IN  /\ phase = "cancelling"
        /\ Holds(t)
        /\ cool' = IF pc[t] = "cooldown" THEN cool ELSE [cool EXCEPT ![c] = Spacing[c]]
        /\ Release(c)
        /\ pc' = [pc EXCEPT ![t] = "cancelled"]
        /\ UNCHANGED <<phase, hog, waiters, once, todo, closed>>

\* Mutant of AllCancelled: stop() does not wait for the cancelled tasks.
CloseAtOnce ==
    /\ phase = "cancelling"
    /\ phase' = "closing"
    /\ UNCHANGED <<hog, pc, locked, waiters, woken, cool, once, todo, closed>>

\* The gather over the tasks returns when the last one has ended.
AllCancelled ==
    /\ phase = "cancelling"
    /\ \A t \in Tasks : pc[t] = "cancelled"
    /\ phase' = "closing"
    /\ UNCHANGED <<hog, pc, locked, waiters, woken, cool, once, todo, closed>>

\* collector.close() returns or raises: the gather takes either as a result.
CloseCollector(c) ==
    /\ phase = "closing"
    /\ c \notin closed
    /\ closed' = closed \cup {c}
    /\ UNCHANGED <<phase, hog, pc, locked, waiters, woken, cool, once, todo>>

CloseWriter ==
    /\ phase = "closing"
    /\ closed = Collectors
    /\ phase' = "stopped"
    /\ UNCHANGED <<hog, pc, locked, waiters, woken, cool, once, todo, closed>>

Stopped == phase = "stopped" /\ UNCHANGED vars

-----------------------------------------------------------------------------
RoundStep(t) ==
    \/ FirstSleep(t) \/ FailFirst(t) \/ Spin(t)
    \/ SlotDue(t) \/ SkipOverlap(t) \/ Acquire(t) \/ Enqueue(t) \/ Granted(t)
    \/ CooldownOver(t) \/ CollectReturns(t) \/ WriteReturns(t) \/ RoundFails(t)

OnceStep(r) ==
    \/ RunOnce(r) \/ OnceGathered(r) \/ OnceWriteReturns(r) \/ OnceForgotten(r)
    \/ \E c \in Collectors : OnceCollectReturns(r, c) \/ OnceCollectRaises(r, c)

\* Mutant of CancelStep: a queued round swallows its cancellation.
CancelAllButWaiters(t) == CancelIdle(t) \/ CancelRound(t)

CancelStep(t) == CancelIdle(t) \/ CancelWaiter(t) \/ CancelRound(t)

StopStep ==
    \/ Stop \/ AllCancelled \/ CloseWriter \/ Stopped
    \/ \E c \in Collectors : CloseCollector(c)

Next ==
    \/ Start
    \/ Tick
    \/ \E t \in Tasks : RoundStep(t) \/ CancelStep(t)
    \/ \E r \in Requests : OnceStep(r)
    \/ StopStep

Spec == Init /\ [][Next]_vars

\* The loop runs what is ready and timers fire.  Requests to Elasticsearch end,
\* and so do those to the servers of Bounded: their clients have timeouts.
Fairness ==
    /\ WF_vars(Start) /\ WF_vars(Tick) /\ WF_vars(AllCancelled) /\ WF_vars(CloseWriter)
    /\ \A c \in Collectors : WF_vars(CloseCollector(c))
    /\ \A t \in Tasks :
          /\ WF_vars(FirstSleep(t) \/ FailFirst(t))
          /\ WF_vars(SlotDue(t))
          /\ WF_vars(SkipOverlap(t) \/ Acquire(t) \/ Enqueue(t))
          /\ WF_vars(Granted(t))
          /\ WF_vars(CooldownOver(t))
          /\ Owner(t) \in Bounded => WF_vars(CollectReturns(t) \/ RoundFails(t))
          /\ WF_vars(WriteReturns(t))
          /\ WF_vars(CancelStep(t))
    /\ \A r \in Requests :
          /\ WF_vars(OnceGathered(r) \/ OnceWriteReturns(r) \/ OnceForgotten(r))
          /\ \A c \in Bounded :
                WF_vars(OnceCollectReturns(r, c) \/ OnceCollectRaises(r, c))

FairSpec == Spec /\ Fairness

-----------------------------------------------------------------------------
(* Properties.                                                              *)

\* The lock of a collector is held by exactly the one task that is between
\* the entry and the exit of its `async with lock`, however acquire, release,
\* a failed round and stop() interleave (_collect_write_record, stop).
OneRoundAtATime ==
    \A c \in Collectors :
        /\ locked[c] <=> \E t \in Tasks : Owner(t) = c /\ Holds(t)
        /\ \A t, u \in Tasks :
              Owner(t) = c /\ Owner(u) = c /\ Holds(t) /\ Holds(u) => t = u

\* The queue of a lock holds the waiting tasks of its collector, each once,
\* and a free lock with a queue has woken its first waiter: a round that
\* queued is never forgotten (acquire, release and cancellation of a waiter).
QueueIsServed ==
    \A c \in Collectors :
        /\ \A t \in Tasks : pc[t] = "waiting" /\ Owner(t) = c <=> t \in ToSet(waiters[c])
        /\ IsInjective(waiters[c])
        /\ woken[c] <=> ~locked[c] /\ waiters[c] # <<>>

\* stop() closes a collector only when nothing uses it any more: every task
\* has ended and left its lock free, and only a request that had already
\* failed may have left a collection behind.
CloseAfterUse ==
    phase \in {"closing", "stopped"} =>
        /\ \A t \in Tasks : pc[t] = "cancelled"
        /\ \A c \in Collectors : ~locked[c] /\ waiters[c] = <<>>
        /\ \A r \in Requests, c \in Collectors : todo[r][c] # <<>> => once[r] = "failed"

\* The scheduled collections are serialized and spaced: the tasks of a
\* collector, seen from collect() to the finally of the round, implement
\* SerialCollection, with the cooldown of the Networker collectors as Rest.
Collecting(c) == {t \in Tasks : Owner(t) = c /\ pc[t] \in {"collecting", "writing"}}

TheTask(S) == IF S = {} THEN NoTask ELSE CHOOSE t \in S : TRUE
InFlight(c) == TheTask(Collecting(c))

Serial == INSTANCE SerialCollection WITH
    Servers <- Collectors,
    Jobs <- Tasks,
    NoJob <- NoTask,
    Rest <- [c \in Collectors |-> IF c \in Networker THEN Spacing[c] ELSE 0],
    active <- [c \in Collectors |-> InFlight(c)],
    rest <- [c \in Collectors |-> IF c \in Networker THEN cool[c] ELSE 0]

ScheduledCollectionsAreSerial == Serial!Spec

\* A round that queued on the lock gets out of the queue: the rounds ahead of
\* it end and hand the lock on (Lock is first come, first served).
QueuedRoundsRun ==
    \A t \in Tasks :
        pc[t] = "waiting" ~> pc[t] # "waiting" \/ Owner(t) \notin Bounded

\* While the application runs, every class but jobs, which may give its
\* rounds up, is collected again and again: after rounds that failed, next to
\* run-once requests, and next to another collector that does not answer.
RoundsRecur ==
    \A t \in Tasks :
        ClassOf(t) # "jobs" /\ Owner(t) \in Bounded
            => []<>(pc[t] = "collecting" \/ phase # "running")

\* stop() returns: no await of a cancelled task or of close() blocks it.
StopEnds == phase = "cancelling" ~> phase = "stopped"

\* Every run-once request ends, answered or failed, and so do its collections,
\* unless a collector that does not answer keeps it.
RequestsEnd ==
    \A r \in Requests :
        once[r] # "idle" ~>
            \/ once[r] = "idle"
            \/ \E c \in Collectors \ Bounded : todo[r][c] # <<>>

\* The collections of a Networker server never overlap.
ServerSerialized ==
    \A c \in Networker :
        \A t \in Tasks, r \in Requests :
            ~(Owner(t) = c /\ pc[t] = "collecting" /\ todo[r][c] # <<>>)

\* A jobs round that comes while its collector is collected is skipped, so
\* that it never waits for the rounds in front of it.
JobsNeverQueue == \A t \in Tasks : ClassOf(t) = "jobs" => pc[t] # "waiting"

\* An error of one task leaves the tasks of the other collectors running.
OthersKeepRunning ==
    \A t \in Tasks \ Invalid :
        ClassOf(t) # "jobs" => []<>(pc[t] = "collecting" \/ phase # "running")
=============================================================================
