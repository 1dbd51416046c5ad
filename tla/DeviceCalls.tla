----------------------------- MODULE DeviceCalls -----------------------------
(***************************************************************************)
(* What the collections of one device share, whatever its protocol: its    *)
(* configuration, the phase of the process, the callers of collect() and   *)
(* the answers each of them has got.                                       *)
(***************************************************************************)
EXTENDS DeviceConfig

CONSTANTS
    Callers,    \* the collections: a round of the scheduler, a class of run_once
    Stoppable,  \* those that stop() cancels and waits for before it closes
    ClassOf     \* the collection class of each caller

VARIABLES
    config,     \* the settings of the collector
    phase,      \* of the process: "up", "stopping", "closing" or "closed"
    stage,      \* where each caller is
    payloads,   \* the answers each caller has got so far, by name
    errors      \* the names that failed for it so far

callvars == <<config, phase, stage, payloads, errors>>

Class(c) == ActiveClass(config, ClassOf[c])

Ended == {"idle", "skipped", "returned", "failed", "cancelled"}

Move(c, from, to) == stage[c] = from /\ stage' = [stage EXCEPT ![c] = to]

\* A round begins before the stop; a collection that run_once left behind goes on.
MayBegin(c) == phase = "up" \/ c \notin Stoppable

Answer(c, name, value) == payloads' = [payloads EXCEPT ![c] = Over([n \in {name} |-> value], @)]

CallsInit ==
    /\ phase = "up"
    /\ stage = [c \in Callers |-> "idle"]
    /\ payloads = [c \in Callers |-> <<>>]
    /\ errors = [c \in Callers |-> {}]

\* collect() with a reason to skip.
SkipCollect(c) ==
    /\ MayBegin(c) /\ Skipped(config)
    /\ Move(c, "idle", "skipped")
    /\ UNCHANGED <<config, phase, payloads, errors>>
=============================================================================
