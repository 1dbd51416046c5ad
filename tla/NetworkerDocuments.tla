------------------------- MODULE NetworkerDocuments -------------------------
(***************************************************************************)
(* From a collected payload of a NetWorker server to the documents that    *)
(* are stored: the entity documents of processors/derived.py, and the      *)
(* current and entity actions of ElasticsearchWriter.  A document has the  *)
(* index and the id that decide what it replaces, and its source.  There   *)
(* is one collector, whose name, site and security domain are left out of  *)
(* indexes and ids; a month is a number.                                   *)
(***************************************************************************)
EXTENDS NetworkerParser

CONSTANT MonthLength    \* the length of a month, in the unit of the times

ASSUME MonthAssumption == MonthLength \in Nat \ {0}

Month(t) == t \div MonthLength
Document(index, id, source) == [index |-> index, id |-> id, source |-> source]
OrTime(t, other) == IF t # Nothing THEN t ELSE other

-----------------------------------------------------------------------------
(* Ids of the records.                                                       *)

NonEmpty(texts) == SelectSeq(texts, LAMBDA text : text # "")

\* _record_id: the fields that are there, else the place in the answer.
RecordId(fields, i) == IF NonEmpty(fields) # <<>> THEN NonEmpty(fields) ELSE <<ToString(i - 1)>>

\* The specs of _iter_networker_documents.
IdFields(type, r) ==
    CASE type = "client" -> <<r.client, r.client_id>>
      [] type = "policy" -> <<r.policy>>
      [] type = "workflow" -> <<r.policy, r.workflow>>

\* _iter_record_documents: the documents of a month, one of each record.
RecordDocuments(type, records, month) ==
    [i \in DOMAIN records |->
        Document(<<type, month>>, <<type, RecordId(IdFields(type, records[i]), i), month>>,
                 records[i])]

\* A job with an id is stored under it, without the month.
JobDocuments(jobs, month) ==
    [i \in DOMAIN jobs |-> Document(<<"job", month>>, <<"job", jobs[i].job_id>>, jobs[i])]

-----------------------------------------------------------------------------
(* Backups.                                                                  *)

NoIdentity == <<>>

\* The id, else client, save set and completion time, when all three are there.
BackupIdentity(b) ==
    IF b.backup_id # "" THEN <<b.backup_id>>
    ELSE IF b.client = "" \/ b.save_set = "" \/ b.completion = Nothing THEN NoIdentity
    ELSE <<b.client, b.save_set, b.completion>>

BackupEvent(b) == OrTime(b.completion, b.save)
IsStoredBackup(b) == BackupIdentity(b) # NoIdentity /\ BackupEvent(b) # Nothing

\* Mutant of BackupMonth: the month in which the backup is collected.
BackupMonthCollected(b, collected) == Month(collected)

\* index_month of a backup.
BackupMonth(b, collected) == Month(BackupEvent(b))

BackupDocuments(backups, collected) ==
    LET stored == Picked(backups, {i \in DOMAIN backups : IsStoredBackup(backups[i])})
    IN  MapSeq(stored, LAMBDA b :
            Document(<<"backup", BackupMonth(b, collected)>>, <<"backup", BackupIdentity(b)>>,
                     Over(b, [event |-> BackupEvent(b)])))

-----------------------------------------------------------------------------
(* Runs of jobs.                                                             *)

JobRunEvent(j) == IF j.status = "running" THEN j.start ELSE OrTime(j.end, j.start)

\* Without an id and a time of its own a run is not stored.
IsStoredRun(j) == j.job_id # "" /\ JobRunEvent(j) # Nothing

\* _workflow_run_key: the workflow job itself, or the root of its actions and saves.
WorkflowRunKey(j) ==
    CASE j.type = "workflow job" -> j.job_id
      [] j.type \in {"backup action job", "save job"} -> j.root
      [] OTHER -> ""

\* Mutant of JobRunMonth: no index_month, hence the month of the collection.
JobRunMonthCollected(j, collected) == Month(collected)

\* job_run_month: of the start, so that every answer has the same.
JobRunMonth(j, collected) == Month(OrTime(j.start, JobRunEvent(j)))

JobRunDocuments(jobs, collected) ==
    LET runs == Picked(jobs, {i \in DOMAIN jobs : IsStoredRun(jobs[i])})
    IN  MapSeq(runs, LAMBDA j :
            Document(<<"job-run", JobRunMonth(j, collected)>>, <<"job", j.job_id>>,
                     Over(j, [event |-> JobRunEvent(j), run |-> WorkflowRunKey(j)])))

-----------------------------------------------------------------------------
(* All documents of a result, in the order of the bulk request.              *)

\* _iter_networker_documents.
DerivedDocuments(payload, collected) ==
    LET month == Month(collected)
    IN  JobDocuments(payload.jobs, month)
        \o RecordDocuments("client", payload.clients, month)
        \o RecordDocuments("policy", payload.policies, month)
        \o RecordDocuments("workflow", payload.workflows, month)
        \o BackupDocuments(payload.backups, collected)
        \o JobRunDocuments(payload.jobs, collected)

\* Of the summary, what tells one state of the jobs from another.
StatusFields(summary) == [field \in {"job_count", "backup_count", "query_end"} |-> summary[field]]

CurrentKey == <<<<"current">>, <<"current">>>>

\* The operational state, replaced by each round that collects jobs.
CurrentDocuments(result) ==
    IF result.class \in {"fast", "jobs"}
    THEN <<Document(CurrentKey[1], CurrentKey[2],
                    [ok |-> result.ok, status |-> result.status,
                     summary |-> IF result.ok THEN StatusFields(result.summary) ELSE <<>>])>>
    ELSE <<>>

\* _iter_networker_actions: a result that is not ok has no entities.  The raw
\* document, a new one each time, is left out.
Actions(result) ==
    CurrentDocuments(result)
    \o IF result.ok THEN DerivedDocuments(result.payload, result.collected) ELSE <<>>

Key(d) == <<d.index, d.id>>

\* The store after the actions, of which a later one replaces an earlier one.
Stored(store, actions) ==
    LET keys == {Key(actions[i]) : i \in DOMAIN actions}
        last(k) == CHOOSE i \in DOMAIN actions :
                       /\ Key(actions[i]) = k
                       /\ \A j \in DOMAIN actions : Key(actions[j]) = k => j <= i
    IN  Over([k \in keys |-> actions[last(k)].source], store)
=============================================================================
