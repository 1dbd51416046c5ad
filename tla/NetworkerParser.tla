--------------------------- MODULE NetworkerParser ---------------------------
(***************************************************************************)
(* parse_networker_rest_payload: the answers of the NetWorker server as    *)
(* records of jobs, clients, policies, workflows and save sets, the        *)
(* summary of them, and the report with one row per policy and workflow.   *)
(* An absent text is "", an absent number or time is Nothing.  Every       *)
(* record has the security domain of the collector, which is left out.     *)
(***************************************************************************)
EXTENDS PythonData, SequencesExt, TLC

Nothing == -1
OrElse(text, other) == IF text # "" THEN text ELSE other
MapSeq(s, Op(_)) == [i \in DOMAIN s |-> Op(s[i])]

\* The items of an endpoint: none when it was not asked or did not answer.
Items(payloads, name) == IF name \in DOMAIN payloads THEN payloads[name] ELSE <<>>

-----------------------------------------------------------------------------
(* Jobs.                                                                     *)

RunningWords == {"running", "active", "queued", "pending"}
CanceledWords == {"canceled", "cancelled", "aborted"}
SuccessWords == {"completed", "succeeded", "success"}
FailedWords == {"failed", "failure"}

\* _job_status: the completion status decides, then a state other than
\* success, then the exit code, and a state of success last.
JobStatus(completion, state, exit) ==
    IF completion \in RunningWords THEN "running"
    ELSE IF completion \in CanceledWords THEN "canceled"
    ELSE IF completion \in SuccessWords THEN "success"
    ELSE IF completion \in FailedWords THEN "failed"
    ELSE IF state \in RunningWords THEN "running"
    ELSE IF state \in CanceledWords THEN "canceled"
    ELSE IF state \in FailedWords THEN "failed"
    ELSE IF exit # Nothing THEN (IF exit = 0 THEN "success" ELSE "failed")
    ELSE IF state \in SuccessWords THEN "success"
    ELSE "unknown"

Duration(start, end) ==
    IF start # Nothing /\ end # Nothing /\ end >= start THEN end - start ELSE Nothing

\* runOnHost names the client of a save job only, and so does save -g its group.
NormalizeJob(item) ==
    [job_id |-> item.id, type |-> item.type, root |-> item.root,
     policy |-> item.policy, workflow |-> item.workflow,
     client |-> OrElse(item.client, IF item.type = "save job" THEN item.host ELSE ""),
     group |-> IF item.type = "save job" THEN item.group ELSE "",
     status |-> JobStatus(item.completion, item.state, item.exit),
     start |-> item.start, end |-> item.end,
     duration |-> Duration(item.start, item.end)]

-----------------------------------------------------------------------------
(* Clients, policies with their workflows, and save sets.                    *)

NormalizeClient(item) ==
    [client |-> OrElse(item.hostname, item.name), client_id |-> item.resource]

NormalizePolicy(item) == [policy |-> item.name, workflow_count |-> Len(item.workflows)]

\* The workflows of all policies, each with the name of its policy.
NormalizeWorkflows(items) ==
    Flattened(MapSeq(items, LAMBDA p :
        MapSeq(p.workflows, LAMBDA w : [policy |-> p.name, workflow |-> w])))

\* The names are those of the item, else of its "*policy name" attributes.
NormalizeBackup(item) ==
    [backup_id |-> item.id, client |-> item.client, save_set |-> item.name,
     policy |-> OrElse(item.policy, item.attributes.policy),
     workflow |-> OrElse(item.workflow, item.attributes.workflow),
     save |-> item.save, completion |-> item.completion, size |-> item.size]

-----------------------------------------------------------------------------
(* The summary and the report.                                               *)

Named(text) == OrElse(text, "unknown")
RowKey(r) == <<Named(r.policy), r.workflow>>
ClientNames(clients) == {r.client : r \in ToSet(clients)} \ {""}

\* Places in a list: of the jobs with a status, and of the records of a row.
WithStatus(jobs, status) == {i \in DOMAIN jobs : jobs[i].status = status}
AtKey(records, places, key) == {i \in places : RowKey(records[i]) = key}

\* A Counter of the policies of the records at some places.
CountByPolicy(records, places) ==
    [p \in {Named(records[i].policy) : i \in places} |->
        Cardinality({i \in places : Named(records[i].policy) = p})]

\* The bytes of the save sets at some places: none of one without a size.
SizeOf(b) == IF b.size = Nothing THEN 0 ELSE b.size
BytesOf(backups, places) == Total([i \in places |-> SizeOf(backups[i])])

BuildSummary(jobs, clients, policies, workflows, backups) ==
    LET countJobs(status) == CountByPolicy(jobs, WithStatus(jobs, status))
    IN  [job_count |-> Len(jobs),
         client_count |-> Cardinality(ClientNames(clients)),
         policy_count |-> Cardinality({r.policy : r \in ToSet(policies)}),
         workflow_count |-> Cardinality({<<r.policy, r.workflow>> : r \in ToSet(workflows)}),
         backup_count |-> Len(backups),
         total_backup_bytes |-> BytesOf(backups, DOMAIN backups),
         success |-> countJobs("success"),
         failed |-> countJobs("failed"),
         running |-> countJobs("running"),
         workflows |-> CountByPolicy(workflows, DOMAIN workflows)]

ReportRow(key, jobs, clients, workflows, backups) ==
    LET jobsWith(status) == Cardinality(AtKey(jobs, WithStatus(jobs, status), key))
    IN  [bytes |-> BytesOf(backups, AtKey(backups, DOMAIN backups, key)),
         success |-> jobsWith("success"),
         failed |-> jobsWith("failed"),
         running |-> jobsWith("running"),
         workflows |-> Cardinality(AtKey(workflows, DOMAIN workflows, key)),
         clients |-> Cardinality(ClientNames(clients))]

\* Mutant of ReportKeys: rows for the workflows that are configured only.
ReportKeysOfWorkflows(jobs, workflows, backups) == {RowKey(r) : r \in ToSet(workflows)}

\* A workflow, a save set or a job makes the row of its key.
ReportKeys(jobs, workflows, backups) ==
    {RowKey(r) : r \in ToSet(jobs) \cup ToSet(workflows) \cup ToSet(backups)}

\* _build_monthly_report.
MonthlyReport(jobs, clients, workflows, backups) ==
    [key \in ReportKeys(jobs, workflows, backups) |->
        ReportRow(key, jobs, clients, workflows, backups)]

ParsePayload(payloads) ==
    LET jobs == MapSeq(Items(payloads, "jobs"), NormalizeJob)
        clients == MapSeq(Items(payloads, "clients"), NormalizeClient)
        policies == MapSeq(Items(payloads, "policies"), NormalizePolicy)
        workflows == NormalizeWorkflows(Items(payloads, "policies"))
        backups == MapSeq(Items(payloads, "backups"), NormalizeBackup)
    IN  [jobs |-> jobs, clients |-> clients, policies |-> policies,
         workflows |-> workflows, backups |-> backups,
         summary |-> BuildSummary(jobs, clients, policies, workflows, backups),
         report |-> MonthlyReport(jobs, clients, workflows, backups)]
=============================================================================
