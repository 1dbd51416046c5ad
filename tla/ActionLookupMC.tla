--------------------------- MODULE ActionLookupMC ---------------------------
(***************************************************************************)
(* An instance of ActionLookup for TLC: an execution that is read while it *)
(* runs, with an unknown status and after its end, another one under the   *)
(* same id, and a backup that is read in two versions.                     *)
(***************************************************************************)
EXTENDS ActionLookup

CONSTANTS t1, t2, n1, n2, n3, n4

MCTimes == {t1, t2}
MCNames == {n1, n2, n3, n4}

MCSnapshots ==
    {[start |-> t1, status |-> s] : s \in {"running", "unknown", "success"}}
        \cup {[start |-> t2, status |-> "failed"]}

MCBackups ==
    {[id |-> 1, names |-> n1], [id |-> 2, names |-> n2], [id |-> 3, names |-> n3],
     [id |-> 2, names |-> n4]}
=============================================================================
