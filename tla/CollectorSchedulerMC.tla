------------------------ MODULE CollectorSchedulerMC ------------------------
(***************************************************************************)
(* Instances of CollectorScheduler for TLC.  nw is a NetWorker server with *)
(* the classes of the Kubernetes configuration, dd a data domain, whose    *)
(* type has no cooldown.                                                   *)
(***************************************************************************)
EXTENDS CollectorScheduler

CONSTANTS nw, dd

MCCollectors == {nw, dd}
MCNetworker == {nw}
MCSchedules == (nw :> <<"jobs", "backups", "inventory">>) @@ (dd :> <<"fast", "slow">>)
MCSpacing == (nw :> 2) @@ (dd :> 0)

\* Next to nw, a collector that may never answer.
HangSchedules == (nw :> <<"jobs", "backups", "inventory">>) @@ (dd :> <<"fast">>)
HangSpacing == (nw :> 1) @@ (dd :> 0)

\* The second of a schedule is out of range in the slow class of dd.
InvalidSlow == {<<dd, "slow">>}
TwoSchedules == (nw :> <<"backups">>) @@ (dd :> <<"fast", "slow">>)
=============================================================================
