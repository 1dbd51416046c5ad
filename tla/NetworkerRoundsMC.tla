-------------------------- MODULE NetworkerRoundsMC --------------------------
(* A NetWorker server with one job that runs and one that may be canceled in *)
(* the queue, a save set with an id and one without, and two listings of the *)
(* inventory.                                                                *)
EXTENDS NetworkerRounds

MCJobs == {"j1", "j2"}
MCJobInfo ==
    [j1 |-> [neverStarts |-> FALSE, type |-> "save job", root |-> "j0", policy |-> "gold",
             workflow |-> "daily", client |-> "", host |-> "h1", group |-> "g1"],
     j2 |-> [neverStarts |-> TRUE, type |-> "workflow job", root |-> "", policy |-> "",
             workflow |-> "", client |-> "", host |-> "h1", group |-> ""]]
MCOutcomes == {[completion |-> "succeeded", state |-> "completed", exit |-> 0],
               [completion |-> "", state |-> "completed", exit |-> 1]}

MCBackups == {"b1", "b2"}
MCBackupInfo ==
    [b1 |-> [id |-> "b1", client |-> "h1", name |-> "/data", policy |-> "gold",
             workflow |-> "", attributes |-> [policy |-> "", workflow |-> "daily"], size |-> 3],
     b2 |-> [id |-> "", client |-> "h2", name |-> "/home", policy |-> "",
             workflow |-> "", attributes |-> [policy |-> "", workflow |-> ""], size |-> None]]

MCEndpoints == <<"jobs", "clients", "backups", "policies">>
MCScheduleSets == {{"jobs", "backups", "inventory"}, {"fast", "slow"}}
MCClientLists == {<<[hostname |-> "h1", name |-> "", resource |-> "r1"],
                    [hostname |-> "", name |-> "", resource |-> ""]>>}
MCPolicyLists == {<<[name |-> "gold", workflows |-> <<"daily">>]>>}
=============================================================================
