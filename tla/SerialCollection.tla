-------------------------- MODULE SerialCollection --------------------------
(***************************************************************************)
(* What the scheduler promises a backup server: the scheduled collections  *)
(* of a collector come one at a time, and a collector with a cooldown      *)
(* rests that long between the end of one and the beginning of the next.   *)
(***************************************************************************)
EXTENDS Naturals

CONSTANTS
    Servers,    \* one for each collector
    Jobs,       \* what a server can be collected for
    Rest,       \* the cooldown of each server in ticks, 0 for one without
    NoJob       \* nothing

VARIABLES
    active,     \* the job each server is collected for, NoJob for an idle one
    rest        \* ticks left before a server can be collected again

avars == <<active, rest>>

Init ==
    /\ active = [s \in Servers |-> NoJob]
    /\ rest = [s \in Servers |-> 0]

Begin(s, j) ==
    /\ active[s] = NoJob
    /\ rest[s] = 0
    /\ active' = [active EXCEPT ![s] = j]
    /\ UNCHANGED rest

End(s) ==
    /\ active[s] # NoJob
    /\ active' = [active EXCEPT ![s] = NoJob]
    /\ rest' = [rest EXCEPT ![s] = Rest[s]]

Tick ==
    /\ rest' = [s \in Servers |-> IF rest[s] = 0 THEN 0 ELSE rest[s] - 1]
    /\ UNCHANGED active

Next ==
    \/ \E s \in Servers : End(s) \/ \E j \in Jobs : Begin(s, j)
    \/ Tick

Spec == Init /\ [][Next]_avars
=============================================================================
