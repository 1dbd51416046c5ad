---------------------------- MODULE ScheduleClock ----------------------------
(***************************************************************************)
(* When a task of the scheduler runs: seconds_until_next_run, which finds  *)
(* the next slot of a schedule on a grid that starts anew at every UTC     *)
(* midnight, and the loop of _run_collector_forever that sleeps until the  *)
(* slot, runs the round and asks again.  Time is counted in seconds from   *)
(* a midnight; the lengths of a minute and of a day are parameters.        *)
(***************************************************************************)
EXTENDS Naturals

CONSTANTS
    Minute,         \* seconds in a minute
    Day,            \* minutes in a day
    MaxInterval,    \* bound: the longest interval_minutes
    MaxLate,        \* bound: seconds by which a timer of the event loop can be late
    MaxRound,       \* bound: seconds that a round takes
    Horizon         \* bound: the last second of a behaviour

ASSUME MinuteAssumption == Minute \in Nat \ {0}
ASSUME DayAssumption == Day \in Nat \ {0}

Schedule == [interval : Nat, offset : Nat, second : Nat]

\* Mutant of Valid: minute_offset is not compared with interval_minutes.
ValidAnyOffset(s) == s.interval > 0 /\ s.second < Minute

\* ScheduleConfig.skip_reason is None.
Valid(s) == s.interval > 0 /\ s.offset < s.interval /\ s.second < Minute

VARIABLES
    sched,      \* the ScheduleConfig of the task
    now,        \* the current time
    mode,       \* "sleeping" or "running" a round
    target,     \* the slot the task sleeps for, or runs the round of
    since       \* when the round began

clockvars == <<sched, now, mode, target, since>>

-----------------------------------------------------------------------------
(* seconds_until_next_run                                                   *)

DayStart(t) == t - (t % (Day * Minute))

ElapsedMinutes(t) == (t % (Day * Minute)) \div Minute

MinuteBase(s, t) == ElapsedMinutes(t) - (ElapsedMinutes(t) % s.interval)

\* The slot in the interval that the current time is in.
Slot(s, t) == DayStart(t) + (MinuteBase(s, t) + s.offset) * Minute + s.second

\* Mutant of NextRun: a slot at the current time is still to come.
NextRunNotBefore(s, t) ==
    IF Slot(s, t) < t THEN Slot(s, t) + s.interval * Minute ELSE Slot(s, t)

\* Mutant of NextRun: after the slot of this interval, one interval from now.
NextRunUnaligned(s, t) ==
    IF Slot(s, t) <= t THEN t + s.interval * Minute ELSE Slot(s, t)

\* Mutant of NextRun: the slot that is over instead of the next one.
NextRunBehind(s, t) ==
    IF Slot(s, t) <= t THEN Slot(s, t) ELSE Slot(s, t) - s.interval * Minute

\* The current time plus seconds_until_next_run.
NextRun(s, t) ==
    IF Slot(s, t) <= t THEN Slot(s, t) + s.interval * Minute ELSE Slot(s, t)

-----------------------------------------------------------------------------
TypeOK ==
    /\ sched \in Schedule /\ Valid(sched)
    /\ now \in Nat
    /\ mode \in {"sleeping", "running"}
    /\ target \in Nat
    /\ since \in Nat

\* The task is created at any time of a day and computes its first slot.
Init ==
    /\ sched \in {s \in [interval : 1..MaxInterval, offset : 0..MaxInterval - 1,
                         second : 0..Minute - 1] : Valid(s)}
    /\ now \in 0..Day * Minute - 1
    /\ mode = "sleeping"
    /\ target = NextRun(sched, now)
    /\ since = now

\* The timer ends the sleep, never before the slot.
WakeUp ==
    /\ mode = "sleeping"
    /\ now >= target
    /\ mode' = "running"
    /\ since' = now
    /\ UNCHANGED <<sched, now, target>>

\* _collect_write_record returns or raises; the loop computes the next slot.
RoundEnds ==
    /\ mode = "running"
    /\ mode' = "sleeping"
    /\ target' = NextRun(sched, now)
    /\ UNCHANGED <<sched, now, since>>

\* A second passes, within the bounds on timers and rounds.
Tick ==
    /\ now < Horizon
    /\ mode = "sleeping" => now < target + MaxLate
    /\ mode = "running" => now < since + MaxRound
    /\ now' = now + 1
    /\ UNCHANGED <<sched, mode, target, since>>

\* The bound on time is reached.
AtHorizon == now = Horizon /\ UNCHANGED clockvars

Next == WakeUp \/ RoundEnds \/ Tick \/ AtHorizon

Spec == Init /\ [][Next]_clockvars

-----------------------------------------------------------------------------
(* Properties.                                                              *)

\* The slots of a schedule: the same minutes and seconds of every day.
OnGrid(s, t) ==
    \E k \in 0..Day - 1 :
        /\ (k * s.interval + s.offset) * Minute + s.second = t % (Day * Minute)
        /\ k * s.interval < Day

\* The grid of an interval that divides the day is the same across midnight.
Daily(s) == Day % s.interval = 0

\* seconds_until_next_run finds the first slot after the current time, never
\* the current time itself, when the interval divides the day.
NextRunIsFirstSlot ==
    Daily(sched) =>
        /\ NextRun(sched, now) > now /\ OnGrid(sched, NextRun(sched, now))
        /\ \A u \in now + 1..NextRun(sched, now) - 1 : ~OnGrid(sched, u)

\* A task sleeps for a slot that is still to come when it goes to sleep, and
\* for at most one interval: also where the grid of a day breaks off.
SleepIsShort ==
    [][mode = "running" /\ mode' = "sleeping" =>
          target' > now /\ target' <= now + sched.interval * Minute]_clockvars

\* No slot is run twice, and none is passed over but by a round that lasts
\* past it, or by a timer that is late (_run_collector_forever).
EverySlotOnce ==
    [][mode = "running" /\ mode' = "sleeping" =>
          /\ target' > target
          /\ Daily(sched) =>
                \A u \in target + 1..target' - 1 : OnGrid(sched, u) => u <= now]_clockvars
=============================================================================
