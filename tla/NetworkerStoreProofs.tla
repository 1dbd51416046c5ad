------------------------ MODULE NetworkerStoreProofs ------------------------
(***************************************************************************)
(* What the rounds of a NetWorker collector leave in Elasticsearch, for    *)
(* any jobs, save sets, endpoints and windows, whatever fails, is retried, *)
(* written in part or restarted.  The argument has three steps.  An answer *)
(* of the server that a round keeps stays true while the round goes on,    *)
(* because what has ended does not change and what ends later ends after   *)
(* the window (AnswersInv).  What is sent is made of these answers         *)
(* (ResultInv), and each document shows a job or a save set of the server  *)
(* under a key of its own (RunsInv, BackupsInv).  And the stretch of       *)
(* stored rounds grows by no more than what the answers covered            *)
(* (CoveredInv, CompletedInv), where FreshInv keeps an older answer from   *)
(* taking back what is stored.  With RoundIsLater the stored runs are a    *)
(* RunLedger.  The sums of a report are counted class by class.            *)
(***************************************************************************)
EXTENDS NetworkerRoundsProofs, FunctionTheorems

-----------------------------------------------------------------------------
(* Lists, and what is sent of them.                                          *)

\* A list is numbered from 1, and has its items.
LEMMA ListsAreNumbered ==
    ASSUME NEW S, NEW s \in Seq(S)
    PROVE  /\ Len(s) \in Nat /\ DOMAIN s = 1..Len(s)
           /\ ToSet(s) \in SUBSET S /\ s \in Seq(ToSet(s))
           /\ IsFiniteSet(DOMAIN s) /\ DOMAIN s \in SUBSET Nat /\ Cardinality(DOMAIN s) = Len(s)
<1>1. Len(s) \in Nat /\ DOMAIN s = 1..Len(s) /\ s \in [1..Len(s) -> S]
  OBVIOUS
<1>2. IsFiniteSet(1..Len(s)) /\ Cardinality(1..Len(s)) = Len(s)
  BY <1>1, FS_Interval
<1>3. s \in [1..Len(s) -> ToSet(s)]
  BY <1>1 DEF ToSet
<1>4. s \in Seq(ToSet(s))
  BY <1>1, <1>3
<1> QED BY <1>1, <1>2, <1>4 DEF ToSet

\* A function on 1..n is a list.
LEMMA NumberedAreLists ==
    ASSUME NEW n \in Nat, NEW S, NEW s \in [1..n -> S]
    PROVE  s \in Seq(ToSet(s)) /\ Len(s) = n
<1>1. s \in [1..n -> ToSet(s)]
  BY DEF ToSet
<1> QED BY <1>1

\* The items of two lists, one after the other.
LEMMA ItemsOfBoth ==
    ASSUME NEW s, NEW t, s \in Seq(ToSet(s)), t \in Seq(ToSet(t))
    PROVE  /\ s \o t \in Seq(ToSet(s \o t))
           /\ ToSet(s \o t) = ToSet(s) \cup ToSet(t)
<1> DEFINE S == ToSet(s) \cup ToSet(t)
           u == s \o t
<1>1. s \in Seq(S) /\ t \in Seq(S)
  <2>1. \A A, B, q : A \in SUBSET B /\ q \in Seq(A) => q \in Seq(B)
    OBVIOUS
  <2> QED BY <2>1
<1>2. /\ Len(s) \in Nat /\ DOMAIN s = 1..Len(s) /\ Len(t) \in Nat /\ DOMAIN t = 1..Len(t)
  BY <1>1
<1>3. /\ u \in Seq(S) /\ DOMAIN u = 1..Len(s) + Len(t)
      /\ \A i \in 1..Len(s) : u[i] = s[i]
      /\ \A i \in 1..Len(t) : u[Len(s) + i] = t[i]
      /\ \A i \in Len(s) + 1..Len(s) + Len(t) : u[i] = t[i - Len(s)]
  BY <1>1
<1> HIDE DEF u
<1>4. ASSUME NEW x \in ToSet(u)
      PROVE  x \in S
  <2>1. PICK i \in 1..Len(s) + Len(t) : x = u[i]
    BY <1>3, <1>4 DEF ToSet
  <2> HIDE DEF S
  <2> QED BY <1>3, <2>1
<1>5. ASSUME NEW x \in ToSet(s)
      PROVE  x \in ToSet(u)
  <2>1. PICK i \in 1..Len(s) : x = s[i]
    BY <1>2 DEF ToSet
  <2>2. i \in DOMAIN u /\ u[i] = x
    BY <1>2, <1>3, <2>1
  <2> QED BY <2>2 DEF ToSet
<1>6. ASSUME NEW x \in ToSet(t)
      PROVE  x \in ToSet(u)
  <2>1. PICK i \in 1..Len(t) : x = t[i]
    BY <1>2 DEF ToSet
  <2>2. Len(s) + i \in DOMAIN u /\ u[Len(s) + i] = x
    BY <1>2, <1>3, <2>1
  <2> QED BY <2>2 DEF ToSet
<1>7. u \in Seq(ToSet(u))
  BY <1>3, ListsAreNumbered
<1> QED BY <1>4, <1>5, <1>6, <1>7 DEF u

\* A list of what is in a finite set, each once.
LEMMA SetsAreListed ==
    ASSUME NEW S, IsFiniteSet(S)
    PROVE  /\ SetToSeq(S) \in Seq(S) /\ ToSet(SetToSeq(S)) = S
           /\ Len(SetToSeq(S)) = Cardinality(S) /\ Cardinality(S) \in Nat
<1> DEFINE n == Cardinality(S)
           s == SetToSeq(S)
<1>1. n \in Nat /\ IsFiniteSet(1..n) /\ Cardinality(1..n) = n
  BY FS_CardinalityType, FS_Interval
<1>2. \E f \in [1..n -> S] : IsInjective(f)
  <2>1. ExistsBijection(1..n, S)
    BY <1>1, FS_SameCardinalityBij
  <2> QED BY <2>1 DEF ExistsBijection, Bijection, Injection, IsInjective
<1>3. s \in [1..n -> S] /\ IsInjective(s)
  BY <1>2 DEF SetToSeq
<1> HIDE DEF s
<1>4. s \in Injection(1..n, S)
  BY <1>3 DEF Injection
<1>5. s \in Surjection(1..n, S)
  BY <1>1, <1>4, FS_Injection
<1>6. ToSet(s) = S
  BY <1>3, <1>5 DEF Surjection, ToSet
<1>7. s \in Seq(S) /\ Len(s) = n
  BY <1>1, <1>3
<1> QED BY <1>1, <1>6, <1>7 DEF s

\* A mapping on 1..n is a list of its values.
LEMMA MappingsAreLists ==
    ASSUME NEW n \in Nat, NEW s, s = [i \in 1..n |-> s[i]]
    PROVE  s \in Seq(ToSet(s)) /\ Len(s) = n
<1>1. s \in [1..n -> ToSet(s)]
  BY DEF ToSet
<1> QED BY <1>1, NumberedAreLists

\* What is picked of a list is a list of the items at the places.
LEMMA PickedAreLists ==
    ASSUME NEW s, s \in Seq(ToSet(s)), NEW places \in SUBSET DOMAIN s
    PROVE  /\ Picked(s, places) \in Seq(ToSet(Picked(s, places)))
           /\ ToSet(Picked(s, places)) = {s[i] : i \in places}
           /\ ToSet(Picked(s, places)) \in SUBSET ToSet(s)
<1> DEFINE p == Picked(s, places)
<1>1. IsFiniteSet(DOMAIN s) /\ DOMAIN s \in SUBSET Nat
  BY ListsAreNumbered
<1>2. /\ Cardinality(places) \in Nat /\ DOMAIN p = 1..Cardinality(places)
      /\ \A k \in DOMAIN p : \E i \in places : p[k] = s[i]
      /\ \A i \in places : \E k \in DOMAIN p : p[k] = s[i]
  BY <1>1, ItemsArePicked
<1>3. p = [k \in 1..Cardinality(places) |-> p[k]]
  BY DEF Picked
<1> HIDE DEF p
<1>4. p \in Seq(ToSet(p))
  BY <1>2, <1>3, MappingsAreLists
<1>5. ToSet(p) = {s[i] : i \in places}
  BY <1>2 DEF ToSet
<1>6. ToSet(p) \in SUBSET ToSet(s)
  BY <1>5 DEF ToSet
<1> QED BY <1>4, <1>5, <1>6 DEF p

\* The items of lists are a list again.
LEMMA FlattenedAreLists ==
    ASSUME NEW lists, lists \in Seq(ToSet(lists)),
           \A i \in DOMAIN lists : lists[i] \in Seq(ToSet(lists[i]))
    PROVE  Flattened(lists) \in Seq(ToSet(Flattened(lists)))
<1> DEFINE places == UNION {{i} \X DOMAIN lists[i] : i \in DOMAIN lists}
           rows == {{i} \X DOMAIN lists[i] : i \in DOMAIN lists}
<1>1. IsFiniteSet(DOMAIN lists) /\ \A i \in DOMAIN lists : IsFiniteSet(DOMAIN lists[i])
  BY ListsAreNumbered
<1>2. \A i \in DOMAIN lists : IsFiniteSet({i} \X DOMAIN lists[i])
  BY <1>1, FS_Singleton, FS_Product
<1>3. IsFiniteSet(rows)
  <2> DEFINE row == [i \in DOMAIN lists |-> {i} \X DOMAIN lists[i]]
  <2>1. row \in [DOMAIN lists -> rows] /\ \A r \in rows : \E i \in DOMAIN lists : row[i] = r
    OBVIOUS
  <2> HIDE DEF row, rows
  <2>2. row \in Surjection(DOMAIN lists, rows)
    BY <2>1 DEF Surjection
  <2> QED BY <1>1, <2>2, FS_Surjection
<1>4. IsFiniteSet(places)
  BY <1>2, <1>3, FS_UNION
<1> DEFINE n == Cardinality(places)
<1>5. n \in Nat
  BY <1>4, FS_CardinalityType
<1>6. DOMAIN Flattened(lists) = 1..n
  BY DEF Flattened
<1>7. Flattened(lists) = [k \in 1..n |-> Flattened(lists)[k]]
  BY DEF Flattened
<1> HIDE DEF n
<1> QED BY <1>5, <1>7, MappingsAreLists

\* What a bulk request leaves: of each document the last one sent, else the one before.
LEMMA StoredDocuments ==
    ASSUME NEW actions, actions \in Seq(ToSet(actions)), NEW before,
           NEW after, after = Stored(before, actions)
    PROVE  /\ \A k \in DOMAIN before : k \in DOMAIN after
           /\ \A d \in ToSet(actions) : Key(d) \in DOMAIN after
           /\ \A k \in DOMAIN after :
                 \/ \E d \in ToSet(actions) : Key(d) = k /\ after[k] = d.source
                 \/ /\ k \in DOMAIN before /\ after[k] = before[k]
                    /\ \A d \in ToSet(actions) : Key(d) # k
<1> DEFINE keys == {Key(actions[i]) : i \in DOMAIN actions}
           sent(k, i) == /\ Key(actions[i]) = k
                         /\ \A j \in DOMAIN actions : Key(actions[j]) = k => j <= i
           last(k) == CHOOSE i \in DOMAIN actions : sent(k, i)
           given == [k \in keys |-> actions[last(k)].source]
<1>1. Stored(before, actions) = Over(given, before)
  BY DEF Stored
<1>2. keys = {Key(d) : d \in ToSet(actions)}
  BY DEF ToSet
<1>3. \A k \in keys : last(k) \in DOMAIN actions /\ Key(actions[last(k)]) = k
  <2> SUFFICES ASSUME NEW k \in keys
               PROVE  \E i \in DOMAIN actions : sent(k, i)
    OBVIOUS
  <2> DEFINE places == {i \in DOMAIN actions : Key(actions[i]) = k}
  <2>1. places \in SUBSET DOMAIN actions /\ places # {}
    OBVIOUS
  <2>2. IsFiniteSet(DOMAIN actions) /\ DOMAIN actions \in SUBSET Nat
    BY ListsAreNumbered
  <2>3. IsFiniteSet(places) /\ places \in SUBSET Nat
    BY <2>1, <2>2, FS_Subset
  <2>4. \E i \in places : \A j \in places : j <= i
    <3> HIDE DEF places
    <3> QED BY <2>1, <2>3, PlacesAreNumbered
  <2> QED BY <2>4
<1>4. /\ DOMAIN given = keys
      /\ \A k \in keys : \E d \in ToSet(actions) : Key(d) = k /\ given[k] = d.source
  BY <1>3 DEF ToSet
<1> HIDE DEF given, keys
<1>5. \A k \in keys : Over(given, before)[k] = given[k]
  BY <1>4 DEF Over
<1>6. \A k \in DOMAIN before \ keys : Over(given, before)[k] = before[k]
  BY <1>4 DEF Over
<1>7. DOMAIN Over(given, before) = DOMAIN before \cup keys
  BY <1>4 DEF Over
<1> DEFINE over == Over(given, before)
<1>8. after = over
  BY <1>1
<1> HIDE DEF over
<1>9. DOMAIN over = DOMAIN before \cup keys
  BY <1>7 DEF over
<1>10. /\ \A k \in keys : over[k] = given[k]
       /\ \A k \in DOMAIN before \ keys : over[k] = before[k]
  BY <1>5, <1>6 DEF over
<1>11. \A k : k \in keys <=> \E d \in ToSet(actions) : Key(d) = k
  BY <1>2
<1> QED BY <1>4, <1>8, <1>9, <1>10, <1>11

-----------------------------------------------------------------------------
(* The documents of a result.                                                *)

\* The answers are lists, and those to "policies" have lists of workflows.
ListsIn(responses) ==
    /\ \A name \in DOMAIN responses : responses[name] \in Seq(ToSet(responses[name]))
    /\ "policies" \in DOMAIN responses =>
          \A i \in DOMAIN responses["policies"] :
              responses["policies"][i].workflows \in Seq(ToSet(responses["policies"][i].workflows))

\* The records of a payload, in the order of the items they were made from.
LEMMA PayloadsAreLists ==
    ASSUME NEW responses, ListsIn(responses)
    PROVE  LET payload == ParsePayload(responses)
               items(name) == Items(responses, name)
           IN  /\ payload.jobs \in Seq(ToSet(payload.jobs))
               /\ DOMAIN payload.jobs = DOMAIN items("jobs")
               /\ \A i \in DOMAIN items("jobs") : payload.jobs[i] = NormalizeJob(items("jobs")[i])
               /\ payload.clients \in Seq(ToSet(payload.clients))
               /\ payload.policies \in Seq(ToSet(payload.policies))
               /\ payload.workflows \in Seq(ToSet(payload.workflows))
               /\ payload.backups \in Seq(ToSet(payload.backups))
               /\ DOMAIN payload.backups = DOMAIN items("backups")
               /\ \A i \in DOMAIN items("backups") :
                     payload.backups[i] = NormalizeBackup(items("backups")[i])
<1> DEFINE items(name) == Items(responses, name)
           jobs0 == MapSeq(items("jobs"), NormalizeJob)
           clients == MapSeq(items("clients"), NormalizeClient)
           policies == MapSeq(items("policies"), NormalizePolicy)
           workflows == NormalizeWorkflows(items("policies"))
           backups0 == MapSeq(items("backups"), NormalizeBackup)
<1>1. \A name : items(name) \in Seq(ToSet(items(name)))
  <2> SUFFICES ASSUME NEW name
               PROVE  items(name) \in Seq(ToSet(items(name)))
    OBVIOUS
  <2>1. CASE name \in DOMAIN responses
    BY <2>1 DEF Items, ListsIn
  <2>2. CASE name \notin DOMAIN responses
    <3>1. items(name) = <<>>
      BY <2>2 DEF Items
    <3> HIDE DEF items
    <3> QED BY <3>1
  <2> QED BY <2>1, <2>2
<1>2. ParsePayload(responses)
        = [jobs |-> jobs0, clients |-> clients, policies |-> policies,
           workflows |-> workflows, backups |-> backups0,
           summary |-> BuildSummary(jobs0, clients, policies, workflows, backups0),
           report |-> MonthlyReport(jobs0, clients, workflows, backups0)]
  BY DEF ParsePayload
<1>3. \A name : Len(items(name)) \in Nat /\ DOMAIN items(name) = 1..Len(items(name))
  BY <1>1, ListsAreNumbered
<1>4. /\ jobs0 = [i \in DOMAIN items("jobs") |-> NormalizeJob(items("jobs")[i])]
      /\ clients = [i \in DOMAIN items("clients") |-> NormalizeClient(items("clients")[i])]
      /\ policies = [i \in DOMAIN items("policies") |-> NormalizePolicy(items("policies")[i])]
      /\ backups0 = [i \in DOMAIN items("backups") |-> NormalizeBackup(items("backups")[i])]
  BY DEF MapSeq
<1>5. workflows \in Seq(ToSet(workflows))
  <2> DEFINE row(p) == [j \in DOMAIN p.workflows |-> [policy |-> p.name, workflow |-> p.workflows[j]]]
             rows == [i \in DOMAIN items("policies") |-> row(items("policies")[i])]
  <2>1. workflows = Flattened(rows)
    BY DEF NormalizeWorkflows, MapSeq
  <2>2. \A i \in DOMAIN items("policies") :
           items("policies")[i].workflows \in Seq(ToSet(items("policies")[i].workflows))
    <3>1. CASE "policies" \in DOMAIN responses
      BY <3>1 DEF Items, ListsIn
    <3>2. CASE "policies" \notin DOMAIN responses
      <4>1. DOMAIN items("policies") = {}
        BY <3>2 DEF Items
      <4> QED BY <4>1
    <3> QED BY <3>1, <3>2
  <2>3. ASSUME NEW i \in DOMAIN items("policies")
        PROVE  rows[i] \in Seq(ToSet(rows[i]))
    <3> DEFINE p == items("policies")[i]
    <3>1. Len(p.workflows) \in Nat /\ DOMAIN p.workflows = 1..Len(p.workflows)
      BY <2>2, ListsAreNumbered
    <3>2. rows[i] = row(p)
      OBVIOUS
    <3>3. row(p) = [j \in 1..Len(p.workflows) |-> row(p)[j]]
      BY <3>1
    <3> HIDE DEF rows, row, p
    <3> QED BY <3>1, <3>2, <3>3, MappingsAreLists
  <2>4. rows \in Seq(ToSet(rows)) /\ DOMAIN rows = DOMAIN items("policies")
    <3>1. rows = [i \in 1..Len(items("policies")) |-> rows[i]]
      BY <1>3
    <3>2. DOMAIN rows = DOMAIN items("policies")
      OBVIOUS
    <3> HIDE DEF rows, items
    <3> QED BY <1>3, <3>1, <3>2, MappingsAreLists
  <2> HIDE DEF rows, workflows
  <2> QED BY <2>1, <2>3, <2>4, FlattenedAreLists
<1> HIDE DEF jobs0, clients, policies, workflows, backups0, items
<1>6. /\ jobs0 \in Seq(ToSet(jobs0)) /\ clients \in Seq(ToSet(clients))
      /\ policies \in Seq(ToSet(policies)) /\ backups0 \in Seq(ToSet(backups0))
  <2>1. jobs0 = [i \in 1..Len(items("jobs")) |-> jobs0[i]]
    BY <1>3, <1>4
  <2>2. clients = [i \in 1..Len(items("clients")) |-> clients[i]]
    BY <1>3, <1>4
  <2>3. policies = [i \in 1..Len(items("policies")) |-> policies[i]]
    BY <1>3, <1>4
  <2>4. backups0 = [i \in 1..Len(items("backups")) |-> backups0[i]]
    BY <1>3, <1>4
  <2>5. jobs0 \in Seq(ToSet(jobs0))
    BY <1>3, <2>1, MappingsAreLists
  <2>6. clients \in Seq(ToSet(clients))
    BY <1>3, <2>2, MappingsAreLists
  <2>7. policies \in Seq(ToSet(policies))
    BY <1>3, <2>3, MappingsAreLists
  <2>8. backups0 \in Seq(ToSet(backups0))
    BY <1>3, <2>4, MappingsAreLists
  <2> QED BY <2>5, <2>6, <2>7, <2>8
<1>7. /\ ParsePayload(responses).jobs = jobs0 /\ ParsePayload(responses).clients = clients
      /\ ParsePayload(responses).policies = policies
      /\ ParsePayload(responses).workflows = workflows
      /\ ParsePayload(responses).backups = backups0
  BY <1>2
<1> QED BY <1>4, <1>5, <1>6, <1>7 DEF items

\* The document of a run, of a backup.
RunDocument(j, collected) ==
    Document(<<"job-run", JobRunMonth(j, collected)>>, <<"job", j.job_id>>,
             Over(j, [event |-> JobRunEvent(j), run |-> WorkflowRunKey(j)]))
BackupDocument(b, collected) ==
    Document(<<"backup", BackupMonth(b, collected)>>, <<"backup", BackupIdentity(b)>>,
             Over(b, [event |-> BackupEvent(b)]))

\* Documents made from the records of a list are a list.
LEMMA RecordDocumentsAreLists ==
    ASSUME NEW records, records \in Seq(ToSet(records)), NEW type, NEW month
    PROVE  LET documents == RecordDocuments(type, records, month)
           IN  /\ documents \in Seq(ToSet(documents))
               /\ \A d \in ToSet(documents) : d.index = <<type, month>>
<1> DEFINE documents == RecordDocuments(type, records, month)
<1>1. Len(records) \in Nat /\ DOMAIN records = 1..Len(records)
  BY ListsAreNumbered
<1>2. documents = [i \in 1..Len(records) |-> documents[i]]
  BY <1>1 DEF RecordDocuments
<1>3. \A i \in DOMAIN documents : documents[i].index = <<type, month>>
  BY DEF RecordDocuments, Document
<1> HIDE DEF documents
<1>4. documents \in Seq(ToSet(documents))
  BY <1>1, <1>2, MappingsAreLists
<1> QED BY <1>3, <1>4 DEF documents, ToSet

\* The documents of the jobs.
LEMMA JobDocumentsAreLists ==
    ASSUME NEW records, records \in Seq(ToSet(records)), NEW month
    PROVE  LET documents == JobDocuments(records, month)
           IN  /\ documents \in Seq(ToSet(documents))
               /\ \A d \in ToSet(documents) : d.index = <<"job", month>>
<1> DEFINE documents == JobDocuments(records, month)
<1>1. Len(records) \in Nat /\ DOMAIN records = 1..Len(records)
  BY ListsAreNumbered
<1>2. documents = [i \in 1..Len(records) |-> documents[i]]
  BY <1>1 DEF JobDocuments
<1>3. \A i \in DOMAIN documents : documents[i].index = <<"job", month>>
  BY DEF JobDocuments, Document
<1> HIDE DEF documents
<1>4. documents \in Seq(ToSet(documents))
  BY <1>1, <1>2, MappingsAreLists
<1> QED BY <1>3, <1>4 DEF documents, ToSet

\* The documents of the runs are those of the records with an id and a time.
LEMMA RunDocumentsAreLists ==
    ASSUME NEW records, records \in Seq(ToSet(records)), NEW collected
    PROVE  LET documents == JobRunDocuments(records, collected)
           IN  /\ documents \in Seq(ToSet(documents))
               /\ ToSet(documents) = {RunDocument(records[i], collected) :
                                        i \in {n \in DOMAIN records : IsStoredRun(records[n])}}
<1> DEFINE places == {n \in DOMAIN records : IsStoredRun(records[n])}
           runs == Picked(records, places)
           documents == JobRunDocuments(records, collected)
<1>1. runs \in Seq(ToSet(runs)) /\ ToSet(runs) = {records[i] : i \in places}
  BY PickedAreLists
<1>2. documents = [i \in DOMAIN runs |-> RunDocument(runs[i], collected)]
  BY DEF JobRunDocuments, MapSeq, RunDocument
<1> HIDE DEF runs, places, documents
<1>3. Len(runs) \in Nat /\ DOMAIN runs = 1..Len(runs)
  BY <1>1, ListsAreNumbered
<1>4. documents = [i \in 1..Len(runs) |-> documents[i]]
  BY <1>2, <1>3
<1>5. documents \in Seq(ToSet(documents))
  BY <1>3, <1>4, MappingsAreLists
<1>6. ToSet(documents) = {RunDocument(r, collected) : r \in ToSet(runs)}
  BY <1>2 DEF ToSet
<1>7. ToSet(documents) = {RunDocument(records[i], collected) : i \in places}
  BY <1>1, <1>6
<1> QED BY <1>5, <1>7 DEF documents, places

\* The documents of the save sets are those of the records with an identity and a time.
LEMMA BackupDocumentsAreLists ==
    ASSUME NEW records, records \in Seq(ToSet(records)), NEW collected
    PROVE  LET documents == BackupDocuments(records, collected)
           IN  /\ documents \in Seq(ToSet(documents))
               /\ ToSet(documents) = {BackupDocument(records[i], collected) :
                                        i \in {n \in DOMAIN records : IsStoredBackup(records[n])}}
<1> DEFINE places == {n \in DOMAIN records : IsStoredBackup(records[n])}
           stored == Picked(records, places)
           documents == BackupDocuments(records, collected)
<1>1. stored \in Seq(ToSet(stored)) /\ ToSet(stored) = {records[i] : i \in places}
  BY PickedAreLists
<1>2. documents = [i \in DOMAIN stored |-> BackupDocument(stored[i], collected)]
  BY DEF BackupDocuments, MapSeq, BackupDocument
<1> HIDE DEF stored, places, documents
<1>3. Len(stored) \in Nat /\ DOMAIN stored = 1..Len(stored)
  BY <1>1, ListsAreNumbered
<1>4. documents = [i \in 1..Len(stored) |-> documents[i]]
  BY <1>2, <1>3
<1>5. documents \in Seq(ToSet(documents))
  BY <1>3, <1>4, MappingsAreLists
<1>6. ToSet(documents) = {BackupDocument(r, collected) : r \in ToSet(stored)}
  BY <1>2 DEF ToSet
<1>7. ToSet(documents) = {BackupDocument(records[i], collected) : i \in places}
  BY <1>1, <1>6
<1> QED BY <1>5, <1>7 DEF documents, places

\* What a bulk request sends.  An error has no entities, only a current document.
LEMMA ActionsAreLists ==
    ASSUME NEW r, r.ok \in BOOLEAN, NEW responses, ListsIn(responses),
           r.ok => r.payload = ParsePayload(responses)
    PROVE  LET actions == Actions(r)
               documents(type) == {d \in ToSet(actions) : d.index[1] = type}
           IN  /\ actions \in Seq(ToSet(actions))
               /\ documents("current") = ToSet(CurrentDocuments(r))
               /\ documents("job-run") =
                     IF r.ok THEN ToSet(JobRunDocuments(r.payload.jobs, r.collected)) ELSE {}
               /\ documents("backup") =
                     IF r.ok THEN ToSet(BackupDocuments(r.payload.backups, r.collected)) ELSE {}
<1> DEFINE month == Month(r.collected)
           current == CurrentDocuments(r)
<1>0. current \in Seq(ToSet(current)) /\ \A d \in ToSet(current) : d.index[1] = "current"
  <2> DEFINE d1 == Document(CurrentKey[1], CurrentKey[2],
                    [ok |-> r.ok, status |-> r.status,
                     summary |-> IF r.ok THEN StatusFields(r.summary) ELSE <<>>])
  <2>1. current = <<d1>> \/ current = <<>>
    BY DEF CurrentDocuments
  <2>2. d1.index[1] = "current"
    BY DEF Document, CurrentKey
  <2> HIDE DEF d1, current
  <2>3. ToSet(<<d1>>) = {d1} /\ ToSet(<<>>) = {}
    BY DEF ToSet
  <2>4. <<d1>> \in Seq({d1}) /\ <<>> \in Seq({})
    OBVIOUS
  <2> QED BY <2>1, <2>2, <2>3, <2>4
<1>1. CASE ~r.ok
  <2>1. Actions(r) = current \o <<>>
    BY <1>1 DEF Actions
  <2> HIDE DEF current
  <2>2. Actions(r) = current
    BY <1>0, <2>1
  <2> QED BY <1>0, <1>1, <2>2 DEF current
<1>2. CASE r.ok
  <2> DEFINE p == r.payload
             j == JobDocuments(p.jobs, month)
             c == RecordDocuments("client", p.clients, month)
             o == RecordDocuments("policy", p.policies, month)
             w == RecordDocuments("workflow", p.workflows, month)
             b == BackupDocuments(p.backups, r.collected)
             u == JobRunDocuments(p.jobs, r.collected)
  <2>1. Actions(r) = current \o (j \o c \o o \o w \o b \o u)
    BY <1>2 DEF Actions, DerivedDocuments
  <2>2. /\ p.jobs \in Seq(ToSet(p.jobs)) /\ p.clients \in Seq(ToSet(p.clients))
        /\ p.policies \in Seq(ToSet(p.policies)) /\ p.workflows \in Seq(ToSet(p.workflows))
        /\ p.backups \in Seq(ToSet(p.backups))
    BY <1>2, PayloadsAreLists
  <2>3. /\ j \in Seq(ToSet(j)) /\ \A d \in ToSet(j) : d.index[1] = "job"
        /\ c \in Seq(ToSet(c)) /\ \A d \in ToSet(c) : d.index[1] = "client"
        /\ o \in Seq(ToSet(o)) /\ \A d \in ToSet(o) : d.index[1] = "policy"
        /\ w \in Seq(ToSet(w)) /\ \A d \in ToSet(w) : d.index[1] = "workflow"
    <3>1. j \in Seq(ToSet(j)) /\ \A d \in ToSet(j) : d.index = <<"job", month>>
      BY <2>2, JobDocumentsAreLists
    <3>2. c \in Seq(ToSet(c)) /\ \A d \in ToSet(c) : d.index = <<"client", month>>
      BY <2>2, RecordDocumentsAreLists
    <3>3. o \in Seq(ToSet(o)) /\ \A d \in ToSet(o) : d.index = <<"policy", month>>
      BY <2>2, RecordDocumentsAreLists
    <3>4. w \in Seq(ToSet(w)) /\ \A d \in ToSet(w) : d.index = <<"workflow", month>>
      BY <2>2, RecordDocumentsAreLists
    <3> HIDE DEF month, p, j, c, o, w
    <3> QED BY <3>1, <3>2, <3>3, <3>4
  <2>4. u \in Seq(ToSet(u)) /\ \A d \in ToSet(u) : d.index[1] = "job-run"
    <3>1. u \in Seq(ToSet(u)) /\ \A d \in ToSet(u) : \E x : d = RunDocument(x, r.collected)
      BY <2>2, RunDocumentsAreLists
    <3>2. \A x : RunDocument(x, r.collected).index[1] = "job-run"
      BY DEF RunDocument, Document
    <3> HIDE DEF u
    <3> QED BY <3>1, <3>2
  <2>5. b \in Seq(ToSet(b)) /\ \A d \in ToSet(b) : d.index[1] = "backup"
    <3>1. b \in Seq(ToSet(b)) /\ \A d \in ToSet(b) : \E x : d = BackupDocument(x, r.collected)
      BY <2>2, BackupDocumentsAreLists
    <3>2. \A x : BackupDocument(x, r.collected).index[1] = "backup"
      BY DEF BackupDocument, Document
    <3> HIDE DEF b
    <3> QED BY <3>1, <3>2
  <2> HIDE DEF current, p, j, c, o, w, b, u
  <2> DEFINE s2 == j \o c
             s3 == s2 \o o
             s4 == s3 \o w
             s5 == s4 \o b
             s6 == s5 \o u
             s7 == current \o s6
  <2>6. s2 \in Seq(ToSet(s2)) /\ ToSet(s2) = ToSet(j) \cup ToSet(c)
    BY <2>3, ItemsOfBoth
  <2> HIDE DEF s2
  <2>7. s3 \in Seq(ToSet(s3)) /\ ToSet(s3) = ToSet(s2) \cup ToSet(o)
    BY <2>3, <2>6, ItemsOfBoth
  <2> HIDE DEF s3
  <2>8. s4 \in Seq(ToSet(s4)) /\ ToSet(s4) = ToSet(s3) \cup ToSet(w)
    BY <2>3, <2>7, ItemsOfBoth
  <2> HIDE DEF s4
  <2>9. s5 \in Seq(ToSet(s5)) /\ ToSet(s5) = ToSet(s4) \cup ToSet(b)
    BY <2>5, <2>8, ItemsOfBoth
  <2> HIDE DEF s5
  <2>10. s6 \in Seq(ToSet(s6)) /\ ToSet(s6) = ToSet(s5) \cup ToSet(u)
    BY <2>4, <2>9, ItemsOfBoth
  <2> HIDE DEF s6
  <2>11. s7 \in Seq(ToSet(s7)) /\ ToSet(s7) = ToSet(current) \cup ToSet(s6)
    BY <1>0, <2>10, ItemsOfBoth
  <2>12. Actions(r) = s7
    BY <2>1 DEF s2, s3, s4, s5, s6
  <2> HIDE DEF s7
  <2>13. ToSet(Actions(r)) = ToSet(current) \cup ToSet(j) \cup ToSet(c) \cup ToSet(o)
                               \cup ToSet(w) \cup ToSet(b) \cup ToSet(u)
    BY <2>6, <2>7, <2>8, <2>9, <2>10, <2>11, <2>12
  <2>14. Actions(r) \in Seq(ToSet(Actions(r)))
    BY <2>11, <2>12
  <2>15. /\ {d \in ToSet(Actions(r)) : d.index[1] = "current"} = ToSet(current)
         /\ {d \in ToSet(Actions(r)) : d.index[1] = "job-run"} = ToSet(u)
         /\ {d \in ToSet(Actions(r)) : d.index[1] = "backup"} = ToSet(b)
    BY <1>0, <2>3, <2>4, <2>5, <2>13
  <2> QED BY <1>2, <2>14, <2>15 DEF current, u, b, p
<1> QED BY <1>1, <1>2

-----------------------------------------------------------------------------
(* What the server says, and what is kept of it.                             *)

\* Times do not lie ahead, and a job that ended has an outcome.
ServerInv ==
    /\ \A j \in Jobs : jobs[j].end # None => jobs[j].end <= clock /\ jobs[j].outcome \in Outcomes
    /\ \A b \in Backups :
          /\ backups[b].save # None => backups[b].save <= clock
          /\ backups[b].completion # None =>
                /\ backups[b].save # None /\ backups[b].save <= backups[b].completion
                /\ backups[b].completion <= clock

\* A request asks over the window that ends when its round began.
PlanInv ==
    round # NoRound =>
        /\ round.windowEnd \in Nat /\ round.windowEnd <= clock
        /\ \A i \in DOMAIN round.plan :
              /\ round.plan[i].name \in {"jobs", "backups", "clients", "policies"}
              /\ round.plan[i] = RequestSpec(round.plan[i].name, round.windowEnd)
        /\ (round.class \in {"fast", "jobs"} /\ "jobs" \in ToSet(Endpoints)) =>
              \E i \in DOMAIN round.plan : round.plan[i].name = "jobs"

\* A save set as it is answered before it is complete.
OpenItem(b) == Over([save |-> backups[b].save, completion |-> None], BackupInfo[b])

EndedIn(from, until) == {j \in Jobs : jobs[j].end # None /\ jobs[j].end \in from..until}

\* The answer to "jobs": jobs that ended, every one that ended in the window but in
\* its last second, and none twice.
JobsAnswered(items, to) ==
    /\ \A x \in ToSet(items) : \E j \in Jobs : jobs[j].end # None /\ x = JobItem(j)
    /\ \A j \in EndedIn(to - JobsWindow, to - 1) : JobItem(j) \in ToSet(items)
    /\ Cardinality(EndedIn(to - JobsWindow, to - 1)) <= Len(items)
    /\ Len(items) <= Cardinality(EndedIn(to - JobsWindow, to))

\* The answer to "backups": save sets as they are or were, and every one of the
\* window that was complete before its end as it is.
BackupsAnswered(items, to) ==
    /\ \A x \in ToSet(items) : \E b \in Backups :
          /\ backups[b].save # None
          /\ x = OpenItem(b) \/ (backups[b].completion # None /\ x = BackupItem(b))
    /\ \A b \in Backups :
          (/\ backups[b].completion # None /\ backups[b].completion < to
           /\ to - BackupsWindow <= backups[b].save)
              => BackupItem(b) \in ToSet(items)

AnswersInv ==
    round # NoRound =>
        /\ ListsIn(round.responses)
        /\ "jobs" \in DOMAIN round.responses =>
              JobsAnswered(round.responses["jobs"], round.windowEnd)
        /\ "backups" \in DOMAIN round.responses =>
              BackupsAnswered(round.responses["backups"], round.windowEnd)

\* The result is made of the answers of its round.
ResultInv ==
    result # NoResult =>
        /\ round # NoRound /\ result.ok \in BOOLEAN
        /\ result.ok =>
              LET parsed == ParsePayload(round.responses)
              IN  /\ result.payload = parsed
                  /\ result.summary = Over(MarkFailedCounts(parsed.summary, round.errors),
                                           [query_end |-> round.windowEnd])

-----------------------------------------------------------------------------
(* The store.                                                                *)

RunKey(j) == Key(RunDocument(NormalizeJob(JobItem(j)), clock))

\* What is stored of the run of a job, at whatever time it is collected.
RunSource(j) == RunDocument(NormalizeJob(JobItem(j)), clock).source

\* A document that shows the run of a job as it ended.
ShowsRun(k, source) ==
    \E j \in Jobs :
        /\ jobs[j].end # None /\ k = RunKey(j) /\ k[2] = <<"job", j>>
        /\ source = RunSource(j)
        /\ source.end = jobs[j].end
        /\ source.status = JobStatus(jobs[j].outcome.completion, jobs[j].outcome.state,
                                     jobs[j].outcome.exit)

\* Every stored run is that of a job that ended, under its one key.
RunsInv ==
    \A k \in DOMAIN store : k[1][1] = "job-run" => \A source \in {store[k]} : ShowsRun(k, source)

\* And every job that ended in the stretch of stored rounds has its run.
CoveredInv ==
    /\ covered \in [TimedEndpoints -> [first : Int, last : Int, gap : Int]]
    /\ \A name \in TimedEndpoints : covered[name].last <= clock
    /\ \A j \in Jobs :
          (/\ jobs[j].end # None
           /\ covered["jobs"].first <= jobs[j].end /\ jobs[j].end < covered["jobs"].last)
              => RunKey(j) \in DOMAIN store

\* A current document whose count is that of the window it names.
CountIsTrue(source) ==
    LET to == source.summary.query_end
        count == source.summary.job_count
    IN  (source.ok /\ count # Unknown) =>
           /\ to \in Nat /\ to <= clock /\ count \in Nat
           /\ Cardinality(EndedIn(to - JobsWindow, to - 1)) <= count
           /\ count <= Cardinality(EndedIn(to - JobsWindow, to))

CurrentInv == \A source \in {store[k] : k \in DOMAIN store \cap {CurrentKey}} : CountIsTrue(source)

\* What no step takes back: a job that ended and a save set that is complete stay as
\* they are, and what ends or is complete now has the time of now.
Moves ==
    /\ clock' \in Nat /\ clock <= clock'
    /\ \A j \in Jobs :
          /\ jobs[j].end # None => jobs'[j] = jobs[j]
          /\ (jobs[j].end = None /\ jobs'[j].end # None)
                => jobs'[j].end = clock /\ jobs'[j].outcome \in Outcomes
    /\ \A b \in Backups :
          /\ backups[b].save # None => backups'[b].save = backups[b].save
          /\ backups[b].completion # None => backups'[b] = backups[b]
          /\ (backups[b].save = None /\ backups'[b].save # None) => backups'[b].save = clock
          /\ (backups[b].completion = None /\ backups'[b].completion # None)
                => backups'[b].completion = clock /\ backups[b].save # None

\* Every step only goes on.
LEMMA StepsMove == TypeInv /\ ServerInv /\ [Next]_vars => Moves
<1> SUFFICES ASSUME TypeInv, ServerInv, [Next]_vars
             PROVE  Moves
  OBVIOUS
<1>1. /\ clock \in Nat
      /\ jobs \in [Jobs -> [start : {None} \cup Times, end : {None} \cup Times,
                            outcome : {Running} \cup Outcomes]]
      /\ backups \in [Backups -> [save : {None} \cup Times, completion : {None} \cup Times]]
  BY DEF TypeInv, TypeOK, ServerTypeOK
<1>2. ASSUME UNCHANGED <<clock, servervars>>
      PROVE  Moves
  BY <1>1, <1>2 DEF Moves, servervars
<1>3. CASE ServerChanges
  <2>1. ASSUME NEW j \in Jobs, JobStarts(j)
        PROVE  Moves
    BY <1>1, <2>1 DEF JobStarts, Known, Moves
  <2>2. ASSUME NEW j \in Jobs, JobEnds(j)
        PROVE  Moves
    <3>1. PICK o \in Outcomes : jobs' = [jobs EXCEPT ![j].end = clock, ![j].outcome = o]
      BY <2>2 DEF JobEnds
    <3>2. jobs[j].end = None /\ UNCHANGED <<clock, backups>>
      BY <2>2 DEF JobEnds
    <3> QED BY <1>1, <3>1, <3>2 DEF Moves
  <2>3. ASSUME NEW b \in Backups, BackupStarts(b)
        PROVE  Moves
    BY <1>1, <2>3 DEF BackupStarts, ServerInv, Moves
  <2>4. ASSUME NEW b \in Backups, BackupCompletes(b)
        PROVE  Moves
    BY <1>1, <2>4 DEF BackupCompletes, Moves
  <2> QED BY <1>3, <2>1, <2>2, <2>3, <2>4 DEF ServerChanges, ServerStep
<1>4. CASE TimePasses
  BY <1>1, <1>4 DEF TimePasses, Tick, servervars, Moves
<1>5. CASE Process \/ Restart \/ UNCHANGED vars
  <2>1. UNCHANGED <<clock, servervars>>
    BY <1>5 DEF Process, Begin, SendRequest, AnswerArrives, RequestFails, Retry, FetchUnchanged,
                Collect, CollectRaises, Write, WriteFails, Restart, vars
  <2> QED BY <1>2, <2>1
<1> QED BY <1>3, <1>4, <1>5 DEF Next

\* The times of the server stay behind the clock.
LEMMA ServerNext == TypeInv /\ ServerInv /\ Moves => ServerInv'
<1> SUFFICES ASSUME TypeInv, ServerInv, Moves
             PROVE  ServerInv'
  OBVIOUS
<1>1. /\ clock \in Nat
      /\ \A j \in Jobs : jobs[j].end \in {None} \cup Times
      /\ \A b \in Backups : /\ backups[b].save \in {None} \cup Times
                            /\ backups[b].completion \in {None} \cup Times
  BY DEF TypeInv, TypeOK, ServerTypeOK
<1>2. Times \in SUBSET Nat /\ None \in Int /\ clock' \in Nat /\ clock <= clock'
  BY DEF Times, None, Moves
<1> HIDE DEF Times, None
<1>3. ASSUME NEW j \in Jobs, jobs'[j].end # None
      PROVE  jobs'[j].end <= clock' /\ jobs'[j].outcome \in Outcomes
  <2>1. CASE jobs[j].end = None
    BY <1>1, <1>2, <1>3, <2>1 DEF Moves
  <2>2. CASE jobs[j].end # None
    <3>1. jobs'[j] = jobs[j] /\ jobs[j].end \in Nat /\ jobs[j].end <= clock
          /\ jobs[j].outcome \in Outcomes
      BY <1>1, <1>2, <2>2 DEF Moves, ServerInv
    <3> QED BY <1>1, <1>2, <3>1
  <2> QED BY <2>1, <2>2
<1>4. ASSUME NEW b \in Backups
      PROVE  /\ backups'[b].save # None => backups'[b].save <= clock'
             /\ backups'[b].completion # None =>
                   /\ backups'[b].save # None /\ backups'[b].save <= backups'[b].completion
                   /\ backups'[b].completion <= clock'
  <2>0. /\ backups[b].save \in {None} \cup Nat /\ backups[b].completion \in {None} \cup Nat
        /\ backups[b].save # None => backups[b].save <= clock
        /\ backups[b].completion # None =>
              /\ backups[b].save # None /\ backups[b].save <= backups[b].completion
              /\ backups[b].completion <= clock
        /\ backups[b].save # None => backups'[b].save = backups[b].save
        /\ backups[b].completion # None => backups'[b] = backups[b]
        /\ (backups[b].save = None /\ backups'[b].save # None) => backups'[b].save = clock
        /\ (backups[b].completion = None /\ backups'[b].completion # None)
                => backups'[b].completion = clock /\ backups[b].save # None
    BY <1>1, <1>2 DEF Moves, ServerInv
  <2>1. backups'[b].save # None => backups'[b].save <= clock'
    BY <1>1, <1>2, <2>0
  <2>2. CASE backups[b].completion = None
    BY <1>1, <1>2, <2>0, <2>1, <2>2
  <2>3. CASE backups[b].completion # None
    BY <1>1, <1>2, <2>0, <2>1, <2>3
  <2> QED BY <2>2, <2>3
<1> QED BY <1>3, <1>4 DEF ServerInv

\* A new round has the requests of its class, and a round keeps its plan.
LEMMA PlanNext == TypeInv /\ ServerInv /\ PlanInv /\ [Next]_vars => PlanInv'
<1> SUFFICES ASSUME TypeInv, ServerInv, PlanInv, [Next]_vars
             PROVE  PlanInv'
  OBVIOUS
<1>1. clock \in Nat /\ clock' \in Nat /\ clock <= clock'
  BY StepsMove DEF Moves, TypeInv, TypeOK, ServerTypeOK
<1>2. ASSUME round' # NoRound => /\ round # NoRound /\ round'.plan = round.plan
                                 /\ round'.class = round.class
                                 /\ round'.windowEnd = round.windowEnd
      PROVE  PlanInv'
  BY <1>1, <1>2 DEF PlanInv, RequestSpec, HasFieldFilter, QueryMinutes
<1>3. ASSUME NEW class \in schedules, Begin(class)
      PROVE  PlanInv'
  <2> DEFINE plan == BuildRequestPlan(class, clock)
             names == EndpointsForClass(class)
             chosen == {i \in DOMAIN Endpoints : Endpoints[i] \in ClassEndpoints(class)}
             Names == {"jobs", "backups", "clients", "policies"}
  <2>1. round'.plan = plan /\ round'.windowEnd = clock /\ clock' = clock /\ round'.class = class
    BY <1>3, BeginFields
  <2>2. /\ DOMAIN names = DOMAIN plan
        /\ \A i \in DOMAIN plan : plan[i] = RequestSpec(names[i], clock)
    BY PlansAreSequences
  <2>3. /\ ToSet(names) \in SUBSET ToSet(Endpoints)
        /\ (class \in {"fast", "jobs"} /\ "jobs" \in ToSet(Endpoints)) => "jobs" \in ToSet(names)
    <3>1. CASE Cardinality(schedules) > 1
      <4>1. names = Picked(Endpoints, chosen)
        BY <3>1 DEF EndpointsForClass
      <4>2. Endpoints \in Seq(ToSet(Endpoints)) /\ chosen \in SUBSET DOMAIN Endpoints
        BY EndpointsAssumption, ListsAreNumbered
      <4>3. class \in {"fast", "jobs"} => "jobs" \in ClassEndpoints(class)
        BY DEF ClassEndpoints
      <4>4. (class \in {"fast", "jobs"} /\ "jobs" \in ToSet(Endpoints))
               => "jobs" \in {Endpoints[i] : i \in chosen}
        BY <4>3 DEF ToSet
      <4> HIDE DEF names, chosen
      <4> QED BY <4>1, <4>2, <4>4, PickedAreLists
    <3>2. CASE ~(Cardinality(schedules) > 1)
      BY <3>2 DEF EndpointsForClass
    <3> QED BY <3>1, <3>2
  <2>4. ToSet(Endpoints) \in SUBSET Names
    BY EndpointsAssumption, ListsAreNumbered
  <2> HIDE DEF plan, names, chosen
  <2>5. \A i \in DOMAIN plan : names[i] \in Names /\ plan[i].name = names[i]
    BY <2>2, <2>3, <2>4 DEF ToSet, RequestSpec
  <2>6. (class \in {"fast", "jobs"} /\ "jobs" \in ToSet(Endpoints)) =>
              \E i \in DOMAIN plan : plan[i].name = "jobs"
    BY <2>2, <2>3, <2>5 DEF ToSet
  <2>7. \A i \in DOMAIN plan : plan[i] = RequestSpec(plan[i].name, clock)
    BY <2>2, <2>5
  <2>8. \A i \in DOMAIN plan : plan[i].name \in Names
    BY <2>5
  <2>9. /\ round'.windowEnd \in Nat /\ round'.windowEnd <= clock'
        /\ \A i \in DOMAIN round'.plan :
              /\ round'.plan[i].name \in Names
              /\ round'.plan[i] = RequestSpec(round'.plan[i].name, round'.windowEnd)
        /\ (round'.class \in {"fast", "jobs"} /\ "jobs" \in ToSet(Endpoints)) =>
              \E i \in DOMAIN round'.plan : round'.plan[i].name = "jobs"
    BY <1>1, <2>1, <2>6, <2>7, <2>8
  <2> QED BY <2>9 DEF PlanInv, RequestSpec, HasFieldFilter, QueryMinutes
<1>4. CASE Process
  <2>1. CASE \E class \in schedules : Begin(class)
    BY <1>3, <2>1
  <2>2. CASE SendRequest \/ AnswerArrives \/ RequestFails \/ Retry
    BY <1>2, <2>2, FetchFields DEF TypeInv
  <2>3. CASE Collect \/ CollectRaises \/ Write \/ WriteFails
    BY <1>2, <2>3 DEF Collect, CollectRaises, Write, WriteFails, clientvars
  <2> QED BY <1>4, <2>1, <2>2, <2>3 DEF Process
<1>5. CASE ServerChanges \/ TimePasses \/ Restart \/ UNCHANGED vars
  BY <1>2, <1>5 DEF ServerChanges, TimePasses, Tick, Restart, vars, clientvars
<1> QED BY <1>4, <1>5 DEF Next

-----------------------------------------------------------------------------
(* The answers of the server.                                                *)

\* The jobs that ended before a time which is past stay the same, and none is lost.
LEMMA EndsStay ==
    ASSUME TypeInv, Moves, NEW to \in Nat, to <= clock, NEW from \in Int
    PROVE  /\ EndedIn(from, to - 1)' = EndedIn(from, to - 1)
           /\ EndedIn(from, to) \in SUBSET EndedIn(from, to)'
           /\ Cardinality(EndedIn(from, to)) \in Nat
           /\ Cardinality(EndedIn(from, to))' \in Nat
           /\ Cardinality(EndedIn(from, to)) <= Cardinality(EndedIn(from, to))'
<1>1. clock \in Nat
  BY DEF TypeInv, TypeOK, ServerTypeOK
<1>2. \A j \in Jobs : /\ jobs[j].end # None => jobs'[j].end = jobs[j].end
                      /\ (jobs[j].end = None /\ jobs'[j].end # None) => jobs'[j].end = clock
  BY DEF Moves
<1>3. clock \notin from..to - 1
  BY <1>1
<1>4. EndedIn(from, to - 1)' = EndedIn(from, to - 1)
  BY <1>2, <1>3 DEF EndedIn
<1>5. EndedIn(from, to) \in SUBSET EndedIn(from, to)'
  BY <1>2 DEF EndedIn
<1>6. EndedIn(from, to) \in SUBSET Jobs /\ EndedIn(from, to)' \in SUBSET Jobs
  BY DEF EndedIn
<1>7. IsFiniteSet(EndedIn(from, to)) /\ IsFiniteSet(EndedIn(from, to)')
  BY <1>6, ServerAssumption, FS_Subset
<1>8. Cardinality(EndedIn(from, to)) <= Cardinality(EndedIn(from, to)')
  BY <1>5, <1>7, FS_Subset
<1> QED BY <1>4, <1>5, <1>7, <1>8, FS_CardinalityType

\* An answer to "jobs" stays true of the server.
LEMMA JobsAnswerStays ==
    ASSUME TypeInv, Moves, NEW to \in Nat, to <= clock, NEW items, Len(items) \in Nat,
           JobsAnswered(items, to)
    PROVE  JobsAnswered(items, to)'
<1> DEFINE from == to - JobsWindow
<1>1. from \in Int
  BY WindowAssumption
<1>2. /\ EndedIn(from, to - 1)' = EndedIn(from, to - 1)
      /\ Cardinality(EndedIn(from, to)) \in Nat
      /\ Cardinality(EndedIn(from, to))' \in Nat
      /\ Cardinality(EndedIn(from, to)) <= Cardinality(EndedIn(from, to))'
  BY <1>1, EndsStay
<1>3. \A j \in Jobs : jobs[j].end # None => /\ jobs'[j] = jobs[j] /\ JobItem(j)' = JobItem(j)
  BY DEF Moves, JobItem
<1>4. \A x \in ToSet(items) : \E j \in Jobs : jobs'[j].end # None /\ x = JobItem(j)'
  BY <1>3 DEF JobsAnswered
<1>5. \A j \in EndedIn(from, to - 1) : JobItem(j)' \in ToSet(items)
  BY <1>3 DEF JobsAnswered, EndedIn
<1>6. /\ Cardinality(EndedIn(from, to - 1)) <= Len(items)
      /\ Len(items) <= Cardinality(EndedIn(from, to))
  BY DEF JobsAnswered
<1>7. Len(items) <= Cardinality(EndedIn(from, to))'
  BY <1>2, <1>6
<1>8. Cardinality(EndedIn(from, to - 1))' <= Len(items)
  BY <1>2, <1>6
<1>9. ToSet(items)' = ToSet(items) /\ Len(items)' = Len(items)
  BY DEF ToSet
<1> QED BY <1>2, <1>4, <1>5, <1>7, <1>8, <1>9 DEF JobsAnswered

\* And so does one to "backups", of a window that is past.
LEMMA BackupsAnswerStays ==
    ASSUME TypeInv, Moves, NEW to \in Nat, to <= clock, NEW items,
           BackupsAnswered(items, to)
    PROVE  BackupsAnswered(items, to)'
<1>1. clock \in Nat
  BY DEF TypeInv, TypeOK, ServerTypeOK
<1>2. ASSUME NEW b \in Backups, backups[b].save # None
      PROVE  backups'[b].save # None /\ OpenItem(b)' = OpenItem(b)
  BY <1>2 DEF Moves, OpenItem
<1>3. ASSUME NEW b \in Backups, backups[b].completion # None
      PROVE  backups'[b] = backups[b] /\ BackupItem(b)' = BackupItem(b)
  BY <1>3 DEF Moves, BackupItem
<1>4. ASSUME NEW x \in ToSet(items)
      PROVE  \E b \in Backups :
                /\ backups'[b].save # None
                /\ x = OpenItem(b)' \/ (backups'[b].completion # None /\ x = BackupItem(b)')
  <2>1. PICK b \in Backups :
           /\ backups[b].save # None
           /\ x = OpenItem(b) \/ (backups[b].completion # None /\ x = BackupItem(b))
    BY DEF BackupsAnswered
  <2>2. backups'[b].save # None /\ OpenItem(b)' = OpenItem(b)
    BY <1>2, <2>1
  <2>3. CASE x = OpenItem(b)
    BY <2>2, <2>3
  <2>4. CASE backups[b].completion # None /\ x = BackupItem(b)
    <3>1. backups'[b] = backups[b] /\ BackupItem(b)' = BackupItem(b)
      BY <1>3, <2>4
    <3> QED BY <2>2, <2>4, <3>1
  <2> QED BY <2>1, <2>3, <2>4
<1>5. ASSUME NEW b \in Backups, backups'[b].completion # None, backups'[b].completion < to,
             to - BackupsWindow <= backups'[b].save
      PROVE  BackupItem(b)' \in ToSet(items)
  <2>1. backups[b].completion # None
    BY <1>1, <1>5 DEF Moves
  <2>2. backups'[b] = backups[b] /\ BackupItem(b)' = BackupItem(b)
    BY <1>3, <2>1
  <2> QED BY <1>5, <2>1, <2>2 DEF BackupsAnswered
<1>6. ToSet(items)' = ToSet(items)
  BY DEF ToSet
<1> QED BY <1>4, <1>5, <1>6 DEF BackupsAnswered

\* What a job or a save set is answered as tells which one it is.
LEMMA ItemsTellJobs ==
    \A j \in Jobs : JobItem(j).id = j
BY DEF JobItem, Over

\* The answer to "jobs" lists, of the jobs that ended, those of the window of the round.
LEMMA JobsAreAnswered ==
    ASSUME TypeInv, ServerInv, PlanInv, RoundInv, round # NoRound, round.next <= Len(round.plan),
           Request.name = "jobs", NEW answer \in AnswersTo(Request)
    PROVE  /\ answer \in Seq(ToSet(answer))
           /\ JobsAnswered(answer, round.windowEnd)
<1> DEFINE to == round.windowEnd
           from == to - JobsWindow
           asked == FilteredJobs(Request)
           s == SetToSeq(asked)
<1>1. /\ to \in Nat /\ to <= clock /\ clock \in Nat /\ from \in Int
      /\ round.plan[round.next] = RequestSpec(round.plan[round.next].name, to)
  BY WindowAssumption DEF PlanInv, RoundInv, TypeInv, TypeOK, ServerTypeOK
<1>2. Request.from = from /\ Request.to = to /\ ~Request.fl
  <2>1. Request = RequestSpec("jobs", to)
    BY <1>1 DEF Request
  <2>2. \A end : /\ RequestSpec("jobs", end).from = end - JobsWindow
                 /\ RequestSpec("jobs", end).to = end /\ ~RequestSpec("jobs", end).fl
    BY DEF RequestSpec, HasFieldFilter, QueryMinutes
  <2> QED BY <2>1, <2>2
<1>3. \A j \in Jobs : jobs[j].end # None => jobs[j].end \in Nat
  BY DEF TypeInv, TypeOK, ServerTypeOK, Times
<1> HIDE DEF from, to
<1>4. asked = EndedIn(from, to)
  BY <1>1, <1>2, <1>3 DEF FilteredJobs, InRange, EndedIn
<1>5. asked \in SUBSET Jobs /\ IsFiniteSet(asked)
  <2>1. asked \in SUBSET Jobs
    BY <1>4 DEF EndedIn
  <2> HIDE DEF asked
  <2> QED BY <2>1, ServerAssumption, FS_Subset
<1>6. answer = [i \in DOMAIN s |-> JobItem(s[i])]
  BY DEF AnswersTo
<1> HIDE DEF asked
<1>7. /\ s \in Seq(asked) /\ ToSet(s) = asked /\ Len(s) = Cardinality(asked)
      /\ Cardinality(asked) \in Nat
  BY <1>5, SetsAreListed
<1> HIDE DEF s
<1>8. DOMAIN s = 1..Len(s) /\ Len(s) \in Nat
  BY <1>7
<1>9. answer \in Seq(ToSet(answer)) /\ Len(answer) = Cardinality(asked)
  <2>1. answer = [i \in 1..Len(s) |-> answer[i]]
    BY <1>6, <1>8
  <2> QED BY <1>7, <1>8, <2>1, MappingsAreLists
<1>10. ToSet(answer) = {JobItem(j) : j \in asked}
  <2>1. \A i \in DOMAIN s : s[i] \in asked
    BY <1>7, <1>8
  <2>2. \A j \in asked : \E i \in DOMAIN s : s[i] = j
    BY <1>7 DEF ToSet
  <2> QED BY <1>6, <2>1, <2>2 DEF ToSet
<1>11. EndedIn(from, to - 1) \in SUBSET asked
  BY <1>1, <1>3, <1>4 DEF EndedIn
<1>12. Cardinality(EndedIn(from, to - 1)) <= Cardinality(asked)
  BY <1>5, <1>11, FS_Subset
<1>13. /\ \A x \in ToSet(answer) : \E j \in Jobs : jobs[j].end # None /\ x = JobItem(j)
       /\ \A j \in EndedIn(from, to - 1) : JobItem(j) \in ToSet(answer)
  BY <1>4, <1>10, <1>11 DEF EndedIn
<1>14. Len(answer) <= Cardinality(EndedIn(from, to))
  BY <1>4, <1>7, <1>9
<1> QED BY <1>9, <1>12, <1>13, <1>14 DEF JobsAnswered, from, to

\* The answer to "backups" may leave out those that are still written, and no other.
LEMMA BackupsAreAnswered ==
    ASSUME TypeInv, ServerInv, PlanInv, RoundInv, round # NoRound, round.next <= Len(round.plan),
           Request.name = "backups", NEW answer \in AnswersTo(Request)
    PROVE  /\ answer \in Seq(ToSet(answer))
           /\ BackupsAnswered(answer, round.windowEnd)
           /\ \A x \in ToSet(answer) : \E b \in Backups : x = BackupItem(b)
<1> DEFINE to == round.windowEnd
           from == to - BackupsWindow
           asked == FilteredBackups(Request)
<1>1. /\ to \in Nat /\ to <= clock /\ clock \in Nat /\ from \in Int
      /\ round.plan[round.next] = RequestSpec(round.plan[round.next].name, to)
  BY WindowAssumption DEF PlanInv, RoundInv, TypeInv, TypeOK, ServerTypeOK
<1>2. Request.from = from /\ Request.to = to /\ ~Request.fl
  <2>1. Request = RequestSpec("backups", to)
    BY <1>1 DEF Request
  <2>2. \A end : /\ RequestSpec("backups", end).from = end - BackupsWindow
                 /\ RequestSpec("backups", end).to = end /\ ~RequestSpec("backups", end).fl
    BY DEF RequestSpec, HasFieldFilter, QueryMinutes
  <2> QED BY <2>1, <2>2
<1>3. \A b \in Backups : /\ backups[b].save # None => backups[b].save \in Nat
                         /\ backups[b].completion # None => backups[b].completion \in Nat
                         /\ backups[b] = [save |-> backups[b].save,
                                          completion |-> backups[b].completion]
  BY DEF TypeInv, TypeOK, ServerTypeOK, Times
<1>4. PICK hidden \in SUBSET Unfinished(asked) :
         answer = LET s == SetToSeq(asked \ hidden) IN [i \in DOMAIN s |-> BackupItem(s[i])]
  BY DEF AnswersTo
<1> DEFINE listed == asked \ hidden
           s == SetToSeq(listed)
<1>5. answer = [i \in DOMAIN s |-> BackupItem(s[i])]
  BY <1>4
<1> HIDE DEF from, to
<1>6. asked = {b \in Backups : backups[b].save # None /\ from <= backups[b].save
                                /\ backups[b].save <= to}
  BY <1>2 DEF FilteredBackups, InRange
<1>7. /\ listed \in SUBSET Backups
      /\ \A b \in asked : backups[b].completion # None => b \in listed
      /\ \A b \in listed : backups[b].save # None
  BY <1>6 DEF Unfinished
<1> HIDE DEF asked, listed
<1>8. IsFiniteSet(listed)
  BY <1>7, ServerAssumption, FS_Subset
<1>9. s \in Seq(listed) /\ ToSet(s) = listed
  BY <1>8, SetsAreListed
<1> HIDE DEF s
<1>10. DOMAIN s = 1..Len(s) /\ Len(s) \in Nat
  BY <1>9
<1>11. answer \in Seq(ToSet(answer))
  <2>1. answer = [i \in 1..Len(s) |-> answer[i]]
    BY <1>5, <1>10
  <2> QED BY <1>10, <2>1, MappingsAreLists
<1>12. ToSet(answer) = {BackupItem(b) : b \in listed}
  <2>1. \A i \in DOMAIN s : s[i] \in listed
    BY <1>9, <1>10
  <2>2. \A b \in listed : \E i \in DOMAIN s : s[i] = b
    BY <1>9 DEF ToSet
  <2> QED BY <1>5, <2>1, <2>2 DEF ToSet
<1>13. ASSUME NEW x \in ToSet(answer)
       PROVE  \E b \in Backups :
                 /\ backups[b].save # None
                 /\ x = OpenItem(b) \/ (backups[b].completion # None /\ x = BackupItem(b))
  <2>1. PICK b \in listed : x = BackupItem(b)
    BY <1>12
  <2>2. CASE backups[b].completion = None
    <3>1. BackupItem(b) = OpenItem(b)
      BY <1>3, <1>7, <2>2 DEF BackupItem, OpenItem
    <3> QED BY <1>7, <2>1, <3>1
  <2>3. CASE backups[b].completion # None
    BY <1>7, <2>1, <2>3
  <2> QED BY <2>2, <2>3
<1>14. ASSUME NEW b \in Backups, backups[b].completion # None, backups[b].completion < to,
              from <= backups[b].save
       PROVE  BackupItem(b) \in ToSet(answer)
  <2>1. /\ backups[b].save # None /\ backups[b].save <= backups[b].completion
        /\ backups[b].save \in Nat /\ backups[b].completion \in Nat
    BY <1>3, <1>14 DEF ServerInv
  <2>2. backups[b].save <= to
    BY <1>1, <1>14, <2>1
  <2> QED BY <1>6, <1>7, <1>12, <1>14, <2>1, <2>2
<1>15. \A x \in ToSet(answer) : \E b \in Backups : x = BackupItem(b)
  BY <1>7, <1>12
<1> QED BY <1>11, <1>13, <1>14, <1>15 DEF BackupsAnswered, from, to

\* An answer is a list, and one to "policies" has lists of workflows.
LEMMA AnswersAreLists ==
    ASSUME TypeInv, ServerInv, PlanInv, round # NoRound, round.next <= Len(round.plan),
           NEW answer \in AnswersTo(Request)
    PROVE  /\ answer \in Seq(ToSet(answer))
           /\ Request.name = "policies" =>
                 \A i \in DOMAIN answer : answer[i].workflows \in Seq(ToSet(answer[i].workflows))
<1>0. RoundInv
  BY DEF TypeInv
<1>1. Request.name \in {"jobs", "backups", "clients", "policies"}
  <2>1. round.next \in DOMAIN round.plan
    BY <1>0 DEF RoundInv
  <2> QED BY <2>1 DEF PlanInv, Request
<1>2. CASE Request.name = "jobs"
  BY <1>0, <1>2, JobsAreAnswered
<1>3. CASE Request.name = "backups"
  BY <1>0, <1>3, BackupsAreAnswered
<1>4. CASE Request.name = "clients"
  <2>1. answer \in ClientLists
    BY <1>4 DEF AnswersTo
  <2> QED BY <1>4, <2>1, ListsAssumption
<1>5. CASE Request.name = "policies"
  <2>1. answer \in PolicyLists
    BY <1>5 DEF AnswersTo
  <2> QED BY <2>1, ListsAssumption
<1> QED BY <1>1, <1>2, <1>3, <1>4, <1>5

\* The answers of a round are kept, and stay true of the server.
LEMMA AnswersNext ==
    TypeInv /\ ServerInv /\ PlanInv /\ AnswersInv /\ [Next]_vars => AnswersInv'
<1> SUFFICES ASSUME TypeInv, ServerInv, PlanInv, AnswersInv, [Next]_vars
             PROVE  AnswersInv'
  OBVIOUS
<1>1. ASSUME round' = NoRound
      PROVE  AnswersInv'
  BY <1>1 DEF AnswersInv
<1>2. ASSUME NEW class \in schedules, Begin(class)
      PROVE  AnswersInv'
  <2>1. round'.responses = <<>>
    BY <1>2, BeginFields
  <2>2. DOMAIN round'.responses = {}
    BY <2>1
  <2> QED BY <2>2 DEF AnswersInv, ListsIn
<1>3. Moves
  BY StepsMove
<1>4. ASSUME round # NoRound, round' # NoRound, round'.windowEnd = round.windowEnd,
             round'.responses = round.responses
      PROVE  AnswersInv'
  <2>1. PICK responses : responses = round.responses
    OBVIOUS
  <2>2. PICK to : to = round.windowEnd
    OBVIOUS
  <2>3. to \in Nat /\ to <= clock
    BY <1>4, <2>2 DEF PlanInv
  <2>4. /\ ListsIn(responses)
        /\ "jobs" \in DOMAIN responses => JobsAnswered(responses["jobs"], to)
        /\ "backups" \in DOMAIN responses => BackupsAnswered(responses["backups"], to)
    BY <1>4, <2>1, <2>2 DEF AnswersInv
  <2>5. "jobs" \in DOMAIN responses => JobsAnswered(responses["jobs"], to)'
    <3> SUFFICES ASSUME "jobs" \in DOMAIN responses
                 PROVE  JobsAnswered(responses["jobs"], to)'
      OBVIOUS
    <3>1. Len(responses["jobs"]) \in Nat
      BY <2>4, ListsAreNumbered DEF ListsIn
    <3> QED BY <1>3, <2>3, <2>4, <3>1, JobsAnswerStays
  <2>6. "backups" \in DOMAIN responses => BackupsAnswered(responses["backups"], to)'
    BY <1>3, <2>3, <2>4, BackupsAnswerStays
  <2>7. ListsIn(responses)'
    BY <2>4 DEF ListsIn, ToSet
  <2>8. round'.responses = responses /\ round'.windowEnd = to
    BY <1>4, <2>1, <2>2
  <2> QED BY <2>5, <2>6, <2>7, <2>8 DEF AnswersInv
<1>5. CASE Process
  <2>1. CASE \E class \in schedules : Begin(class)
    BY <1>2, <2>1
  <2>2. CASE SendRequest \/ RequestFails \/ Retry
    BY <1>4, <2>2, FetchFields DEF TypeInv
  <2>3. CASE AnswerArrives
    <3>1. /\ RoundInv /\ round # NoRound /\ round' # NoRound
          /\ round'.windowEnd = round.windowEnd /\ round.phase = "sent"
          /\ UNCHANGED <<clock, servervars>>
      BY <2>3, FetchFields DEF TypeInv
    <3>2. round.next <= Len(round.plan)
      BY <3>1 DEF RoundInv
    <3>3. PICK answer \in AnswersTo(Request) :
             round'.responses = Over([n \in {Request.name} |-> answer], round.responses)
      BY <2>3, FetchFields DEF TypeInv
    <3>4. PICK name : name = Request.name
      OBVIOUS
    <3>5. PICK before : before = round.responses
      OBVIOUS
    <3>6. PICK to : to = round.windowEnd
      OBVIOUS
    <3> DEFINE after == Over([n \in {name} |-> answer], before)
    <3>7. /\ DOMAIN after = DOMAIN before \cup {name} /\ after[name] = answer
          /\ \A n \in DOMAIN before : n # name => after[n] = before[n]
      BY DEF Over
    <3>8. round'.responses = after /\ round'.windowEnd = to
      BY <3>1, <3>3, <3>4, <3>5, <3>6
    <3> HIDE DEF after
    <3>9. ListsIn(before) /\ ("jobs" \in DOMAIN before => JobsAnswered(before["jobs"], to))
          /\ ("backups" \in DOMAIN before => BackupsAnswered(before["backups"], to))
      BY <3>1, <3>5, <3>6 DEF AnswersInv
    <3>10. /\ answer \in Seq(ToSet(answer))
           /\ name = "policies" =>
                 \A i \in DOMAIN answer : answer[i].workflows \in Seq(ToSet(answer[i].workflows))
      BY <3>1, <3>2, <3>4, AnswersAreLists
    <3>11. /\ name = "jobs" => JobsAnswered(answer, to)
           /\ name = "backups" => BackupsAnswered(answer, to)
      BY <3>1, <3>2, <3>4, <3>6, JobsAreAnswered, BackupsAreAnswered
    <3>12. ListsIn(after)
      <4>1. \A n \in DOMAIN after : after[n] \in Seq(ToSet(after[n]))
        BY <3>7, <3>9, <3>10 DEF ListsIn
      <4>2. ASSUME "policies" \in DOMAIN after, NEW i \in DOMAIN after["policies"]
            PROVE  after["policies"][i].workflows \in Seq(ToSet(after["policies"][i].workflows))
        <5>1. CASE name = "policies"
          BY <3>7, <3>10, <4>2, <5>1
        <5>2. CASE name # "policies"
          <6>1. "policies" \in DOMAIN before /\ after["policies"] = before["policies"]
            BY <3>7, <4>2, <5>2
          <6> QED BY <3>9, <4>2, <6>1 DEF ListsIn
        <5> QED BY <5>1, <5>2
      <4> QED BY <4>1, <4>2 DEF ListsIn
    <3>13. "jobs" \in DOMAIN after => JobsAnswered(after["jobs"], to)
      <4>1. CASE name = "jobs"
        BY <3>7, <3>11, <4>1
      <4>2. CASE name # "jobs"
        <5>1. "jobs" \in DOMAIN after => "jobs" \in DOMAIN before /\ after["jobs"] = before["jobs"]
          BY <3>7, <4>2
        <5> QED BY <3>9, <5>1
      <4> QED BY <4>1, <4>2
    <3>14. "backups" \in DOMAIN after => BackupsAnswered(after["backups"], to)
      <4>1. CASE name = "backups"
        BY <3>7, <3>11, <4>1
      <4>2. CASE name # "backups"
        <5>1. "backups" \in DOMAIN after
                => "backups" \in DOMAIN before /\ after["backups"] = before["backups"]
          BY <3>7, <4>2
        <5> QED BY <3>9, <5>1
      <4> QED BY <4>1, <4>2
    <3>15. jobs' = jobs /\ backups' = backups
      BY <3>1 DEF servervars
    <3>16. "jobs" \in DOMAIN after => JobsAnswered(after["jobs"], to)'
      BY <3>13, <3>15 DEF JobsAnswered, EndedIn, JobItem, ToSet
    <3>17. "backups" \in DOMAIN after => BackupsAnswered(after["backups"], to)'
      BY <3>14, <3>15 DEF BackupsAnswered, OpenItem, BackupItem, ToSet
    <3>18. ListsIn(after)'
      BY <3>12 DEF ListsIn, ToSet
    <3> QED BY <3>8, <3>16, <3>17, <3>18 DEF AnswersInv
  <2>4. CASE Collect \/ CollectRaises
    <3>1. round' = round
      BY <2>4 DEF Collect, CollectRaises, clientvars
    <3> QED BY <1>1, <1>4, <3>1
  <2>5. CASE Write \/ WriteFails
    BY <1>1, <2>5 DEF Write, WriteFails
  <2> QED BY <1>5, <2>1, <2>2, <2>3, <2>4, <2>5 DEF Process
<1>6. CASE ServerChanges \/ TimePasses \/ UNCHANGED vars
  <2>1. round' = round
    BY <1>6 DEF ServerChanges, TimePasses, Tick, vars, clientvars
  <2> QED BY <1>1, <1>4, <2>1
<1>7. CASE Restart
  BY <1>1, <1>7 DEF Restart
<1> QED BY <1>5, <1>6, <1>7 DEF Next

\* A result stays what it was made of, until it is written.
LEMMA ResultNext == TypeInv /\ ResultInv /\ [Next]_vars => ResultInv'
<1> SUFFICES ASSUME TypeInv, ResultInv, [Next]_vars
             PROVE  ResultInv'
  OBVIOUS
<1>1. ASSUME result' = NoResult
      PROVE  ResultInv'
  BY <1>1 DEF ResultInv
<1>2. ASSUME UNCHANGED <<round, result>>
      PROVE  ResultInv'
  BY <1>2 DEF ResultInv
<1>3. CASE Process
  <2>1. CASE \E class \in schedules : Begin(class)
    <3>1. result = NoResult /\ result' = result
      BY <2>1 DEF Begin, BeginRound, TypeInv, TypeOK, Fetched
    <3> QED BY <1>1, <3>1
  <2>2. CASE SendRequest \/ AnswerArrives \/ RequestFails \/ Retry
    <3>1. ~Fetched
      <4>1. CASE SendRequest
        BY <4>1 DEF SendRequest, Send
      <4>2. CASE AnswerArrives \/ RequestFails \/ Retry
        BY <4>2 DEF AnswerArrives, RequestFails, Retry, Receive, Fail, RetryLater, Active,
                    Fetched, TypeInv, RoundInv
      <4> QED BY <2>2, <4>1, <4>2
    <3>2. result' = result
      BY <2>2, FetchFields DEF TypeInv
    <3> QED BY <1>1, <3>1, <3>2 DEF TypeInv, TypeOK
  <2>3. CASE Collect
    <3> DEFINE parsed == ParsePayload(round.responses)
               summary == Over(MarkFailedCounts(parsed.summary, round.errors),
                               [query_end |-> round.windowEnd])
    <3>1. round' = round
      BY <2>3 DEF Collect, clientvars
    <3>2. result'.ok = TRUE /\ result'.payload = parsed /\ result'.summary = summary /\ Fetched
      BY <2>3, CollectFields
    <3>3. parsed' = parsed /\ summary' = summary
      BY <3>1
    <3> HIDE DEF parsed, summary
    <3>4. result'.payload = parsed' /\ result'.summary = summary' /\ round' # NoRound
          /\ result'.ok = TRUE
      BY <3>1, <3>2, <3>3 DEF Fetched
    <3> QED BY <3>4 DEF ResultInv, parsed, summary
  <2>4. CASE CollectRaises
    <3>1. round' = round /\ round # NoRound /\ result'.ok = FALSE
      BY <2>4 DEF CollectRaises, clientvars, Fetched
    <3> QED BY <3>1 DEF ResultInv
  <2>5. CASE Write \/ WriteFails
    BY <1>1, <2>5 DEF Write, WriteFails
  <2> QED BY <1>3, <2>1, <2>2, <2>3, <2>4, <2>5 DEF Process
<1>4. CASE ServerChanges \/ TimePasses \/ UNCHANGED vars
  BY <1>2, <1>4 DEF ServerChanges, TimePasses, Tick, vars, clientvars
<1>5. CASE Restart
  BY <1>1, <1>5 DEF Restart
<1> QED BY <1>3, <1>4, <1>5 DEF Next

-----------------------------------------------------------------------------
(* The runs of jobs in the store.                                            *)

\* The key of a document is its index and id.
LEMMA KeysTellIndexes ==
    \A d : Key(d)[1] = d.index /\ Key(d)[2] = d.id
BY DEF Key

\* The document of the run of a job: its key does not tell when it was collected.
LEMMA RunsAreTrue ==
    ASSUME NEW j \in Jobs, NEW collected
    PROVE  LET d == RunDocument(NormalizeJob(JobItem(j)), collected)
           IN  /\ Key(d) = RunKey(j) /\ Key(d)[2] = <<"job", j>> /\ d.index[1] = "job-run"
               /\ d.source = RunSource(j)
               /\ d.source.end = jobs[j].end
               /\ d.source.status = JobStatus(jobs[j].outcome.completion, jobs[j].outcome.state,
                                              jobs[j].outcome.exit)
<1> DEFINE item == JobItem(j)
           r == NormalizeJob(item)
           d == RunDocument(r, collected)
<1>1. /\ item.id = j /\ item.end = jobs[j].end
      /\ item.completion = jobs[j].outcome.completion /\ item.state = jobs[j].outcome.state
      /\ item.exit = jobs[j].outcome.exit
  BY DEF JobItem, Over
<1> HIDE DEF item
<1>2. /\ r.job_id = item.id /\ r.end = item.end
      /\ r.status = JobStatus(item.completion, item.state, item.exit)
      /\ "end" \in DOMAIN r /\ "status" \in DOMAIN r
  BY DEF NormalizeJob
<1> HIDE DEF r
<1>3. /\ d.index = <<"job-run", JobRunMonth(r, collected)>> /\ d.id = <<"job", r.job_id>>
      /\ d.source = Over(r, [event |-> JobRunEvent(r), run |-> WorkflowRunKey(r)])
  BY DEF RunDocument, Document
<1>4. d.source.end = r.end /\ d.source.status = r.status
  BY <1>2, <1>3 DEF Over
<1>5. Key(d) = Key(RunDocument(r, clock))
  BY DEF Key, RunDocument, Document, JobRunMonth
<1>6. Key(RunDocument(r, clock)) = RunKey(j)
  BY DEF RunKey, r, item
<1>7. d.source = RunSource(j)
  BY <1>3 DEF RunSource, RunDocument, Document, r, item
<1> HIDE DEF d
<1>8. Key(d)[2] = <<"job", j>> /\ d.index[1] = "job-run"
  BY <1>1, <1>2, <1>3, KeysTellIndexes
<1> QED BY <1>1, <1>2, <1>4, <1>5, <1>6, <1>7, <1>8 DEF d, r, item

\* A job that ended has an id and a time, and its run is stored.
LEMMA EndedRunsAreStored ==
    ASSUME ServerInv, NEW j \in Jobs, jobs[j].end # None
    PROVE  IsStoredRun(NormalizeJob(JobItem(j)))
<1> DEFINE item == JobItem(j)
           r == NormalizeJob(item)
<1>1. /\ item.id = j /\ item.end = jobs[j].end
      /\ item.completion = jobs[j].outcome.completion /\ item.state = jobs[j].outcome.state
      /\ item.exit = jobs[j].outcome.exit
  BY DEF JobItem, Over
<1> HIDE DEF item
<1>2. /\ r.job_id = item.id /\ r.end = item.end
      /\ r.status = JobStatus(item.completion, item.state, item.exit)
  BY DEF NormalizeJob
<1>3. r.status # "running"
  BY <1>1, <1>2, JobsAssumption DEF ServerInv
<1>4. r.job_id # "" /\ r.end # None
  BY <1>1, <1>2, JobsAssumption
<1> HIDE DEF r
<1>5. JobRunEvent(r) # Nothing
  BY <1>3, <1>4 DEF JobRunEvent, OrTime, Nothing, None
<1> QED BY <1>4, <1>5 DEF IsStoredRun, r, item

\* What a bulk request changes in the store.
LEMMA WritesAreStored ==
    ASSUME TypeInv, AnswersInv, ResultInv, Write \/ WriteFails
    PROVE  /\ Actions(result) \in Seq(ToSet(Actions(result)))
           /\ \E sent : /\ sent \in Seq(ToSet(sent)) /\ ToSet(sent) \in SUBSET ToSet(Actions(result))
                        /\ Write => sent = Actions(result)
                        /\ store' = Stored(store, sent)
<1> DEFINE actions == Actions(result)
<1>1. /\ result # NoResult /\ round # NoRound /\ result.ok \in BOOLEAN
      /\ ListsIn(round.responses)
      /\ result.ok => result.payload = ParsePayload(round.responses)
  BY DEF ResultInv, AnswersInv, Write, WriteFails
<1>2. actions \in Seq(ToSet(actions))
  BY <1>1, ActionsAreLists
<1>3. CASE Write
  <2>1. store' = Stored(store, actions)
    BY <1>3 DEF Write
  <2> HIDE DEF actions
  <2> QED BY <1>2, <2>1 DEF actions
<1>4. CASE WriteFails /\ ~Write
  <2> DEFINE stored == {1..n : n \in 0..Len(actions)}
                          \cup {DOMAIN actions \ {i} : i \in DOMAIN actions}
  <2>1. PICK places \in stored : store' = Stored(store, Picked(actions, places))
    BY <1>4 DEF WriteFails
  <2>2. Len(actions) \in Nat /\ DOMAIN actions = 1..Len(actions)
    BY <1>2, ListsAreNumbered
  <2> HIDE DEF actions
  <2>3. places \in SUBSET DOMAIN actions
    BY <2>2
  <2>4. /\ Picked(actions, places) \in Seq(ToSet(Picked(actions, places)))
        /\ ToSet(Picked(actions, places)) \in SUBSET ToSet(actions)
    BY <1>2, <2>3, PickedAreLists
  <2> QED BY <1>2, <1>4, <2>1, <2>4 DEF actions
<1> QED BY <1>3, <1>4

\* A run that is sent is that of a job that ended, and all of the window are.
LEMMA RunsAreSent ==
    ASSUME TypeInv, ServerInv, AnswersInv, ResultInv, result # NoResult
    PROVE  /\ \A d \in ToSet(Actions(result)) : d.index[1] = "job-run" =>
                 \E j \in Jobs : /\ jobs[j].end # None
                                 /\ d = RunDocument(NormalizeJob(JobItem(j)), result.collected)
           /\ Answered("jobs") =>
                 \A j \in EndedIn(round.windowEnd - JobsWindow, round.windowEnd - 1) :
                     \E d \in ToSet(Actions(result)) : Key(d) = RunKey(j)
<1> DEFINE responses == round.responses
           records == result.payload.jobs
           items == Items(responses, "jobs")
           runs == {d \in ToSet(Actions(result)) : d.index[1] = "job-run"}
<1>1. /\ round # NoRound /\ result.ok \in BOOLEAN /\ ListsIn(responses)
      /\ result.ok => result.payload = ParsePayload(responses)
  BY DEF ResultInv, AnswersInv
<1>2. runs = IF result.ok THEN ToSet(JobRunDocuments(records, result.collected)) ELSE {}
  BY <1>1, ActionsAreLists
<1>3. CASE ~result.ok
  <2>1. runs = {}
    BY <1>2, <1>3
  <2>2. ~Answered("jobs")
    BY <1>3 DEF Answered
  <2> QED BY <2>1, <2>2
<1>4. CASE result.ok
  <2>1. /\ records \in Seq(ToSet(records)) /\ DOMAIN records = DOMAIN items
        /\ \A i \in DOMAIN items : records[i] = NormalizeJob(items[i])
    BY <1>1, <1>4, PayloadsAreLists
  <2>2. runs = {RunDocument(records[i], result.collected) :
                  i \in {n \in DOMAIN records : IsStoredRun(records[n])}}
    BY <1>2, <1>4, <2>1, RunDocumentsAreLists
  <2>3. \A i \in DOMAIN items : \E j \in Jobs : jobs[j].end # None /\ items[i] = JobItem(j)
    <3>1. CASE "jobs" \in DOMAIN responses
      <4>1. items = responses["jobs"]
        BY <3>1 DEF Items
      <4> QED BY <1>1, <3>1, <4>1 DEF AnswersInv, JobsAnswered, ToSet
    <3>2. CASE "jobs" \notin DOMAIN responses
      <4>1. DOMAIN items = {}
        BY <3>2 DEF Items
      <4> QED BY <4>1
    <3> QED BY <3>1, <3>2
  <2>4. ASSUME NEW d \in runs
        PROVE  \E j \in Jobs : /\ jobs[j].end # None
                               /\ d = RunDocument(NormalizeJob(JobItem(j)), result.collected)
    <3>1. PICK i \in DOMAIN items : d = RunDocument(NormalizeJob(items[i]), result.collected)
      BY <2>1, <2>2
    <3> QED BY <2>3, <3>1
  <2>5. ASSUME Answered("jobs"),
               NEW j \in EndedIn(round.windowEnd - JobsWindow, round.windowEnd - 1)
        PROVE  \E d \in ToSet(Actions(result)) : Key(d) = RunKey(j)
    <3>1. "jobs" \in DOMAIN responses
      BY <2>5 DEF Answered
    <3>2. items = responses["jobs"]
      BY <3>1 DEF Items
    <3>3. PICK i \in DOMAIN items : items[i] = JobItem(j)
      BY <1>1, <3>1, <3>2 DEF AnswersInv, JobsAnswered, ToSet
    <3>4. j \in Jobs /\ jobs[j].end # None
      BY DEF EndedIn
    <3>5. IsStoredRun(records[i]) /\ i \in DOMAIN records
      BY <2>1, <3>3, <3>4, EndedRunsAreStored
    <3>6. RunDocument(NormalizeJob(JobItem(j)), result.collected) \in runs
      BY <2>1, <2>2, <3>3, <3>5
    <3>7. Key(RunDocument(NormalizeJob(JobItem(j)), result.collected)) = RunKey(j)
      BY <3>4, RunsAreTrue
    <3> QED BY <3>6, <3>7
  <2> QED BY <2>4, <2>5
<1> QED BY <1>1, <1>3, <1>4

\* The key of the run of a job that ended is the same for ever.
LEMMA RunKeysStay ==
    ASSUME Moves, NEW j \in Jobs, jobs[j].end # None
    PROVE  RunKey(j)' = RunKey(j) /\ jobs'[j] = jobs[j]
<1>1. jobs'[j] = jobs[j]
  BY DEF Moves
<1>2. NormalizeJob(JobItem(j))' = NormalizeJob(JobItem(j))
  BY <1>1 DEF JobItem, NormalizeJob, Over
<1> DEFINE r == NormalizeJob(JobItem(j))
<1>3. PICK q : q = r
  OBVIOUS
<1>4. r' = q
  BY <1>2, <1>3
<1>5. RunKey(j) = Key(RunDocument(q, clock)) /\ RunKey(j)' = Key(RunDocument(q, clock'))
  <2> HIDE DEF r
  <2>1. RunKey(j) = Key(RunDocument(r, clock))
    BY DEF RunKey, r
  <2>2. RunKey(j)' = Key(RunDocument(r', clock'))
    BY DEF RunKey, r, Key, RunDocument, Document
  <2> QED BY <1>3, <1>4, <2>1, <2>2
<1>6. Key(RunDocument(q, clock')) = Key(RunDocument(q, clock))
  BY DEF Key, RunDocument, Document, JobRunMonth
<1> QED BY <1>1, <1>5, <1>6

\* And so is its document.
LEMMA RunSourcesStay ==
    ASSUME Moves, NEW j \in Jobs, jobs[j].end # None
    PROVE  RunSource(j)' = RunSource(j)
<1> DEFINE r == NormalizeJob(JobItem(j))
<1>1. jobs'[j] = jobs[j]
  BY DEF Moves
<1>2. r' = r
  BY <1>1 DEF JobItem, NormalizeJob, Over
<1>3. PICK q : q = r
  OBVIOUS
<1>4. RunSource(j) = Over(q, [event |-> JobRunEvent(q), run |-> WorkflowRunKey(q)])
  BY <1>3 DEF RunSource, RunDocument, Document
<1>5. RunSource(j)' = Over(q, [event |-> JobRunEvent(q), run |-> WorkflowRunKey(q)])
  <2> HIDE DEF r
  <2>1. RunSource(j)' = Over(r', [event |-> JobRunEvent(r'), run |-> WorkflowRunKey(r')])
    BY DEF RunSource, RunDocument, Document, r
  <2> QED BY <1>2, <1>3, <2>1
<1> QED BY <1>4, <1>5

\* What shows a run goes on showing it.
LEMMA ShownRunsStay ==
    ASSUME Moves, NEW k, NEW source, ShowsRun(k, source)
    PROVE  ShowsRun(k, source)'
<1>1. PICK j \in Jobs :
         /\ jobs[j].end # None /\ k = RunKey(j) /\ k[2] = <<"job", j>>
         /\ source = RunSource(j)
         /\ source.end = jobs[j].end
         /\ source.status = JobStatus(jobs[j].outcome.completion, jobs[j].outcome.state,
                                      jobs[j].outcome.exit)
  BY DEF ShowsRun
<1>2. RunKey(j)' = RunKey(j) /\ RunSource(j)' = RunSource(j) /\ jobs'[j] = jobs[j]
  BY <1>1, RunKeysStay, RunSourcesStay
<1>3. /\ jobs'[j].end # None /\ k = RunKey(j)' /\ k[2] = <<"job", j>>
      /\ source = RunSource(j)'
      /\ source.end = jobs'[j].end
      /\ source.status = JobStatus(jobs'[j].outcome.completion, jobs'[j].outcome.state,
                                   jobs'[j].outcome.exit)
  BY <1>1, <1>2
<1> QED BY <1>3 DEF ShowsRun

\* The steps that leave the store alone.
LEMMA StoreChanges == [Next]_vars => (Write \/ WriteFails \/ store' = store)
BY DEF Next, Process, Begin, SendRequest, AnswerArrives, RequestFails, Retry, FetchUnchanged,
       Collect, CollectRaises, ServerChanges, TimePasses, Restart, vars

\* Every stored run stays that of a job that ended.
LEMMA RunsNext ==
    TypeInv /\ ServerInv /\ AnswersInv /\ ResultInv /\ RunsInv /\ [Next]_vars => RunsInv'
<1> SUFFICES ASSUME TypeInv, ServerInv, AnswersInv, ResultInv, RunsInv, [Next]_vars,
                    NEW k \in DOMAIN store', k[1][1] = "job-run",
                    NEW source \in {store'[k]}
             PROVE  ShowsRun(k, source)'
  BY DEF RunsInv
<1>1. Moves
  BY StepsMove
<1>2. ShowsRun(k, source)
  <2>1. CASE store' = store
    BY <2>1 DEF RunsInv
  <2>2. CASE Write \/ WriteFails
    <3>1. PICK sent : /\ sent \in Seq(ToSet(sent))
                      /\ ToSet(sent) \in SUBSET ToSet(Actions(result))
                      /\ store' = Stored(store, sent)
      BY <2>2, WritesAreStored
    <3>2. PICK after : after = Stored(store, sent)
      OBVIOUS
    <3>3. store' = after /\ k \in DOMAIN after
      BY <3>1, <3>2
    <3>4. \/ \E d \in ToSet(sent) : Key(d) = k /\ after[k] = d.source
          \/ k \in DOMAIN store /\ after[k] = store[k]
      BY <3>1, <3>2, <3>3, StoredDocuments
    <3>5. CASE k \in DOMAIN store /\ after[k] = store[k]
      BY <3>3, <3>5 DEF RunsInv
    <3>6. ASSUME NEW d \in ToSet(sent), Key(d) = k, after[k] = d.source
          PROVE  ShowsRun(k, source)
      <4>1. d.index[1] = "job-run"
        BY <3>6, KeysTellIndexes
      <4>2. result # NoResult
        BY <2>2 DEF Write, WriteFails
      <4>3. PICK j \in Jobs : /\ jobs[j].end # None
                              /\ d = RunDocument(NormalizeJob(JobItem(j)), result.collected)
        BY <3>1, <4>1, <4>2, RunsAreSent
      <4>4. /\ Key(d) = RunKey(j) /\ Key(d)[2] = <<"job", j>> /\ d.source = RunSource(j)
            /\ d.source.end = jobs[j].end
            /\ d.source.status = JobStatus(jobs[j].outcome.completion, jobs[j].outcome.state,
                                           jobs[j].outcome.exit)
        BY <4>3, RunsAreTrue
      <4>5. source = d.source
        BY <3>3, <3>6
      <4> QED BY <3>6, <4>3, <4>4, <4>5 DEF ShowsRun
    <3> QED BY <3>4, <3>5, <3>6
  <2> QED BY <2>1, <2>2, StoreChanges
<1> QED BY <1>1, <1>2, ShownRunsStay

\* Nothing that is stored is deleted, and what is sent is stored.
LEMMA StoreGrows ==
    ASSUME TypeInv, AnswersInv, ResultInv, [Next]_vars
    PROVE  /\ \A k \in DOMAIN store : k \in DOMAIN store'
           /\ Write => \A d \in ToSet(Actions(result)) : Key(d) \in DOMAIN store'
<1>1. CASE store' = store /\ ~Write
  BY <1>1
<1>2. CASE Write \/ WriteFails
  <2>1. PICK sent : /\ sent \in Seq(ToSet(sent))
                    /\ Write => sent = Actions(result)
                    /\ store' = Stored(store, sent)
    BY <1>2, WritesAreStored
  <2>2. PICK after : after = Stored(store, sent)
    OBVIOUS
  <2>3. /\ \A k \in DOMAIN store : k \in DOMAIN after
        /\ \A d \in ToSet(sent) : Key(d) \in DOMAIN after
    BY <2>1, <2>2, StoredDocuments
  <2>4. store' = after
    BY <2>1, <2>2
  <2> QED BY <2>1, <2>3, <2>4
<1> QED BY <1>1, <1>2, StoreChanges

\* The stretch after a round goes back no further than the stretch before and the window.
LEMMA StretchesExtend ==
    ASSUME NEW name \in TimedEndpoints, NEW stretch \in [first : Int, last : Int, gap : Int],
           round.windowEnd \in Nat
    PROVE  LET after == Extended(stretch, name)
           IN  /\ after \in [first : Int, last : Int, gap : Int]
               /\ after.last = round.windowEnd
               /\ \A t \in Int : (after.first <= t /\ t < after.last)
                     => \/ stretch.first <= t /\ t < stretch.last
                        \/ round.windowEnd - Window[name] <= t
<1>1. PICK window : window = Window[name]
  OBVIOUS
<1>2. window \in Nat
  BY <1>1, WindowAssumption DEF Window, TimedEndpoints
<1>3. PICK end \in Nat : end = round.windowEnd
  OBVIOUS
<1>4. None \in Int
  BY DEF None
<1> HIDE DEF None
<1> DEFINE gap == IF end - stretch.last > stretch.gap THEN end - stretch.last ELSE stretch.gap
<1>5. CASE stretch.last # None /\ end - window <= stretch.last
  <2>1. Extended(stretch, name) = [stretch EXCEPT !.last = end, !.gap = gap]
    BY <1>1, <1>3, <1>5 DEF Extended
  <2>2. gap \in Int
    BY <1>3
  <2> HIDE DEF gap
  <2>3. Extended(stretch, name) = [first |-> stretch.first, last |-> end, gap |-> gap]
    BY <2>1
  <2>4. \A t \in Int : stretch.first <= t /\ t < end => t < stretch.last \/ end - window <= t
    BY <1>2, <1>5
  <2> QED BY <1>1, <1>3, <2>2, <2>3, <2>4
<1>6. CASE ~(stretch.last # None /\ end - window <= stretch.last)
  <2>1. Extended(stretch, name) = [first |-> end - window, last |-> end, gap |-> 0]
    BY <1>1, <1>3, <1>6 DEF Extended
  <2> QED BY <1>1, <1>2, <1>3, <2>1
<1> QED BY <1>5, <1>6

\* The stored stretch of jobs has the runs of all that ended in it.
LEMMA CoveredNext ==
    TypeInv /\ ServerInv /\ PlanInv /\ AnswersInv /\ ResultInv /\ CoveredInv /\ [Next]_vars
        => CoveredInv'
<1> SUFFICES ASSUME TypeInv, ServerInv, PlanInv, AnswersInv, ResultInv, CoveredInv, [Next]_vars
             PROVE  CoveredInv'
  OBVIOUS
<1>1. Moves /\ clock \in Nat /\ clock' \in Nat /\ clock <= clock'
  BY StepsMove DEF Moves, TypeInv, TypeOK, ServerTypeOK
<1>2. /\ covered \in [TimedEndpoints -> [first : Int, last : Int, gap : Int]]
      /\ \A name \in TimedEndpoints : covered[name].last <= clock /\ covered[name].last \in Int
      /\ "jobs" \in TimedEndpoints
  BY DEF CoveredInv, TimedEndpoints
<1>3. \A j \in Jobs : jobs[j].end # None => jobs[j].end \in Int
  BY DEF TypeInv, TypeOK, ServerTypeOK, Times
<1>4. ASSUME NEW j \in Jobs, jobs[j].end # None, RunKey(j) \in DOMAIN store
      PROVE  RunKey(j)' \in DOMAIN store'
  BY <1>1, <1>4, RunKeysStay, StoreGrows
<1>5. CASE covered' = covered
  <2>1. ASSUME NEW j \in Jobs, jobs'[j].end # None, covered["jobs"].first <= jobs'[j].end,
               jobs'[j].end < covered["jobs"].last
        PROVE  RunKey(j)' \in DOMAIN store'
    <3>1. jobs[j].end # None
      BY <1>1, <1>2, <2>1 DEF Moves
    <3>2. jobs'[j] = jobs[j]
      BY <3>1, <1>1 DEF Moves
    <3>3. RunKey(j) \in DOMAIN store
      BY <2>1, <3>1, <3>2 DEF CoveredInv
    <3> QED BY <1>4, <3>1, <3>3
  <2>2. \A name \in TimedEndpoints : covered[name].last <= clock'
    BY <1>1, <1>2
  <2> QED BY <1>2, <1>5, <2>1, <2>2 DEF CoveredInv
<1>6. CASE Write
  <2>1. /\ result # NoResult /\ round # NoRound
        /\ UNCHANGED <<clock, jobs, backups>>
        /\ covered' = [name \in TimedEndpoints |->
                          IF Answered(name) THEN Extended(covered[name], name) ELSE covered[name]]
    BY <1>6 DEF Write, ResultInv, servervars
  <2>2. round.windowEnd \in Nat /\ round.windowEnd <= clock
    BY <2>1 DEF PlanInv
  <2>3. ASSUME NEW name \in TimedEndpoints
        PROVE  /\ covered'[name] \in [first : Int, last : Int, gap : Int]
               /\ covered'[name].last <= clock
    <3>1. CASE Answered(name)
      <4>1. covered'[name] = Extended(covered[name], name)
        BY <2>1, <3>1
      <4>2. /\ Extended(covered[name], name) \in [first : Int, last : Int, gap : Int]
            /\ Extended(covered[name], name).last = round.windowEnd
        BY <1>2, <2>2, StretchesExtend
      <4> QED BY <2>2, <4>1, <4>2
    <3>2. CASE ~Answered(name)
      BY <1>2, <2>1, <3>2
    <3> QED BY <3>1, <3>2
  <2>4. ASSUME NEW j \in Jobs, jobs[j].end # None, covered'["jobs"].first <= jobs[j].end,
               jobs[j].end < covered'["jobs"].last
        PROVE  RunKey(j) \in DOMAIN store'
    <3>1. CASE covered["jobs"].first <= jobs[j].end /\ jobs[j].end < covered["jobs"].last
      <4>1. RunKey(j) \in DOMAIN store
        BY <2>4, <3>1 DEF CoveredInv
      <4> QED BY <4>1, StoreGrows
    <3>2. CASE ~(covered["jobs"].first <= jobs[j].end /\ jobs[j].end < covered["jobs"].last)
      <4>1. Answered("jobs")
        BY <1>2, <2>1, <2>4, <3>2
      <4>2. covered'["jobs"] = Extended(covered["jobs"], "jobs")
        BY <1>2, <2>1, <4>1
      <4>3. /\ Extended(covered["jobs"], "jobs").last = round.windowEnd
            /\ \A t \in Int : (/\ Extended(covered["jobs"], "jobs").first <= t
                               /\ t < Extended(covered["jobs"], "jobs").last)
                  => \/ covered["jobs"].first <= t /\ t < covered["jobs"].last
                     \/ round.windowEnd - Window["jobs"] <= t
        BY <1>2, <2>2, StretchesExtend
      <4>4. /\ jobs[j].end \in Int /\ jobs[j].end < round.windowEnd
            /\ round.windowEnd - JobsWindow <= jobs[j].end
        BY <1>3, <2>4, <3>2, <4>2, <4>3 DEF Window
      <4>5. j \in EndedIn(round.windowEnd - JobsWindow, round.windowEnd - 1)
        BY <2>2, <2>4, <4>4, WindowAssumption DEF EndedIn
      <4>6. PICK d \in ToSet(Actions(result)) : Key(d) = RunKey(j)
        BY <2>1, <4>1, <4>5, RunsAreSent
      <4> QED BY <1>6, <4>6, StoreGrows
    <3> QED BY <3>1, <3>2
  <2>5. ASSUME NEW j \in Jobs, jobs'[j].end # None, covered'["jobs"].first <= jobs'[j].end,
               jobs'[j].end < covered'["jobs"].last
        PROVE  RunKey(j)' \in DOMAIN store'
    <3>1. jobs[j].end # None /\ RunKey(j) \in DOMAIN store'
      BY <2>1, <2>4, <2>5
    <3> QED BY <1>1, <3>1, RunKeysStay
  <2>6. covered' \in [TimedEndpoints -> [first : Int, last : Int, gap : Int]]
    BY <2>1, <2>3
  <2>7. \A name \in TimedEndpoints : covered'[name].last <= clock'
    BY <2>1, <2>3
  <2> QED BY <2>5, <2>6, <2>7 DEF CoveredInv
<1>7. covered' = covered \/ Write
  BY DEF Next, Process, Begin, SendRequest, AnswerArrives, RequestFails, Retry, FetchUnchanged,
         Collect, CollectRaises, WriteFails, ServerChanges, TimePasses, Restart, vars, history
<1> QED BY <1>5, <1>6, <1>7

-----------------------------------------------------------------------------
(* The count of the current document.                                        *)

\* The count stays true: no job ends in a window that is past.
LEMMA TrueCountsStay ==
    ASSUME TypeInv, Moves, NEW source, CountIsTrue(source)
    PROVE  CountIsTrue(source)'
<1> SUFFICES ASSUME source.ok, source.summary.job_count # Unknown
             PROVE  LET to == source.summary.query_end
                        count == source.summary.job_count
                    IN  /\ to \in Nat /\ to <= clock' /\ count \in Nat
                        /\ Cardinality(EndedIn(to - JobsWindow, to - 1))' <= count
                        /\ count <= Cardinality(EndedIn(to - JobsWindow, to))'
  BY DEF CountIsTrue
<1> DEFINE to == source.summary.query_end
           from == to - JobsWindow
           count == source.summary.job_count
<1>1. /\ to \in Nat /\ to <= clock /\ count \in Nat
      /\ Cardinality(EndedIn(from, to - 1)) <= count
      /\ count <= Cardinality(EndedIn(from, to))
  BY DEF CountIsTrue
<1>2. clock \in Nat /\ clock' \in Nat /\ clock <= clock' /\ from \in Int
  BY <1>1, WindowAssumption DEF Moves, TypeInv, TypeOK, ServerTypeOK
<1>3. PICK t \in Nat : t = to
  BY <1>1
<1>4. PICK f \in Int : f = from
  BY <1>2
<1> HIDE DEF to, from, count
<1>5. /\ EndedIn(f, t - 1)' = EndedIn(f, t - 1)
      /\ Cardinality(EndedIn(f, t)) \in Nat /\ Cardinality(EndedIn(f, t))' \in Nat
      /\ Cardinality(EndedIn(f, t)) <= Cardinality(EndedIn(f, t))'
  BY <1>1, <1>3, EndsStay
<1>6. /\ count <= Cardinality(EndedIn(f, t))'
      /\ Cardinality(EndedIn(f, t - 1))' <= count
      /\ to <= clock'
  BY <1>1, <1>2, <1>3, <1>4, <1>5
<1>7. from = to - JobsWindow
  BY DEF from
<1> QED BY <1>1, <1>3, <1>4, <1>6, <1>7 DEF to, from, count

\* The summary of a result has the count of its answers, and the window they are of.
LEMMA SummariesCount ==
    ASSUME NEW responses, ListsIn(responses), NEW errors, NEW end, NEW summary,
           summary = Over(MarkFailedCounts(ParsePayload(responses).summary, errors),
                          [query_end |-> end])
    PROVE  /\ summary.query_end = end
           /\ "jobs" \in errors => summary.job_count = Unknown
           /\ ("jobs" \notin errors /\ "jobs" \in DOMAIN responses)
                 => summary.job_count = Len(responses["jobs"])
<1> DEFINE parsed == ParsePayload(responses)
           marked == MarkFailedCounts(parsed.summary, errors)
           fields == DOMAIN parsed.summary
<1>1. /\ parsed.summary.job_count = Len(parsed.jobs)
      /\ "job_count" \in fields /\ "backup_count" \in fields /\ "query_end" \notin fields
  BY DEF ParsePayload, BuildSummary
<1>2. PICK n : n = Len(parsed.jobs)
  OBVIOUS
<1>3. "jobs" \in DOMAIN responses => n = Len(responses["jobs"])
  <2> SUFFICES ASSUME "jobs" \in DOMAIN responses
               PROVE  n = Len(responses["jobs"])
    OBVIOUS
  <2>1. Items(responses, "jobs") = responses["jobs"]
    BY DEF Items
  <2>2. /\ parsed.jobs \in Seq(ToSet(parsed.jobs))
        /\ DOMAIN parsed.jobs = DOMAIN responses["jobs"]
    BY <2>1, PayloadsAreLists
  <2>3. responses["jobs"] \in Seq(ToSet(responses["jobs"]))
    BY DEF ListsIn
  <2>4. PICK s : s = parsed.jobs
    OBVIOUS
  <2>5. PICK t : t = responses["jobs"]
    OBVIOUS
  <2> HIDE DEF parsed
  <2>6. s \in Seq(ToSet(s)) /\ t \in Seq(ToSet(t)) /\ DOMAIN s = DOMAIN t
    BY <2>2, <2>3, <2>4, <2>5
  <2>7. Cardinality(DOMAIN s) = Len(s) /\ Cardinality(DOMAIN t) = Len(t)
    BY <2>6, ListsAreNumbered
  <2>8. Len(s) = Len(t)
    BY <2>6, <2>7
  <2> QED BY <1>2, <2>4, <2>5, <2>8
<1> HIDE DEF parsed
<1>4. /\ DOMAIN marked = fields
      /\ marked.job_count = IF "jobs" \in errors THEN Unknown ELSE parsed.summary.job_count
  BY <1>1 DEF MarkFailedCounts
<1> HIDE DEF marked
<1>5. summary = Over(marked, [query_end |-> end])
  BY DEF marked, parsed
<1>6. summary.query_end = end /\ summary.job_count = marked.job_count
  BY <1>1, <1>4, <1>5 DEF Over
<1> QED BY <1>1, <1>2, <1>3, <1>4, <1>6

\* The current document that a result makes is true, when jobs are an endpoint.
LEMMA CurrentIsTrue ==
    ASSUME TypeInv, PlanInv, AnswersInv, ResultInv, "jobs" \in ToSet(Endpoints),
           result # NoResult, NEW d \in ToSet(CurrentDocuments(result))
    PROVE  CountIsTrue(d.source)
<1> DEFINE source == [ok |-> result.ok, status |-> result.status,
                      summary |-> IF result.ok THEN StatusFields(result.summary) ELSE <<>>]
           to == round.windowEnd
<1>1. d = Document(CurrentKey[1], CurrentKey[2], source) /\ result.class \in {"fast", "jobs"}
  BY DEF CurrentDocuments, ToSet
<1>2. d.source = source
  BY <1>1 DEF Document
<1> SUFFICES ASSUME result.ok, source.summary.job_count # Unknown
             PROVE  LET count == source.summary.job_count
                    IN  /\ source.summary.query_end = to
                        /\ to \in Nat /\ to <= clock /\ count \in Nat
                        /\ Cardinality(EndedIn(to - JobsWindow, to - 1)) <= count
                        /\ count <= Cardinality(EndedIn(to - JobsWindow, to))
  BY <1>2 DEF CountIsTrue
<1>3. source.summary = StatusFields(result.summary)
  OBVIOUS
<1> HIDE DEF source
<1>4. /\ source.summary.query_end = result.summary.query_end
      /\ source.summary.job_count = result.summary.job_count
  BY <1>3 DEF StatusFields
<1>5. /\ round # NoRound /\ ListsIn(round.responses)
      /\ result.summary = Over(MarkFailedCounts(ParsePayload(round.responses).summary,
                                                round.errors),
                               [query_end |-> to])
  BY DEF ResultInv, AnswersInv
<1>6. /\ result.summary.query_end = to
      /\ "jobs" \in round.errors => result.summary.job_count = Unknown
      /\ ("jobs" \notin round.errors /\ "jobs" \in DOMAIN round.responses)
            => result.summary.job_count = Len(round.responses["jobs"])
  BY <1>5, SummariesCount
<1>7. "jobs" \notin round.errors
  BY <1>4, <1>6
<1>8. "jobs" \in DOMAIN round.responses
  <2>1. Fetched /\ result.class = round.class /\ RoundInv
    BY DEF TypeInv, TypeOK
  <2>2. DOMAIN round.responses \cup round.errors = {round.plan[i].name : i \in DOMAIN round.plan}
    BY <1>5, <2>1 DEF RoundInv, Fetched
  <2>3. \E i \in DOMAIN round.plan : round.plan[i].name = "jobs"
    BY <1>1, <1>5, <2>1 DEF PlanInv
  <2> QED BY <1>7, <2>2, <2>3
<1>9. JobsAnswered(round.responses["jobs"], to) /\ Len(round.responses["jobs"]) \in Nat
  <2>1. round.responses["jobs"] \in Seq(ToSet(round.responses["jobs"]))
    BY <1>5, <1>8 DEF ListsIn
  <2>2. Len(round.responses["jobs"]) \in Nat
    BY <2>1, ListsAreNumbered
  <2> QED BY <1>5, <1>8, <2>2 DEF AnswersInv
<1>10. to \in Nat /\ to <= clock
  BY <1>5 DEF PlanInv
<1> QED BY <1>4, <1>6, <1>7, <1>8, <1>9, <1>10 DEF JobsAnswered

\* The count of the current document stays that of its window.
LEMMA CurrentNext ==
    ASSUME "jobs" \in ToSet(Endpoints), TypeInv, ServerInv, PlanInv, AnswersInv, ResultInv,
           CurrentInv, [Next]_vars
    PROVE  CurrentInv'
<1>1. Moves
  BY StepsMove
<1>2. CurrentKey \in DOMAIN store => CountIsTrue(store[CurrentKey])
  BY DEF CurrentInv
<1>3. ASSUME CurrentKey \in DOMAIN store'
      PROVE  CountIsTrue(store'[CurrentKey])
  <2>1. CASE store' = store
    BY <1>2, <1>3, <2>1
  <2>2. CASE Write \/ WriteFails
    <3>1. PICK sent : /\ sent \in Seq(ToSet(sent))
                      /\ ToSet(sent) \in SUBSET ToSet(Actions(result))
                      /\ store' = Stored(store, sent)
      BY <2>2, WritesAreStored
    <3>2. PICK after : after = Stored(store, sent)
      OBVIOUS
    <3>3. PICK k : k = CurrentKey
      OBVIOUS
    <3>4. store' = after /\ k \in DOMAIN after
      BY <1>3, <3>1, <3>2, <3>3
    <3>5. \/ \E d \in ToSet(sent) : Key(d) = k /\ after[k] = d.source
          \/ k \in DOMAIN store /\ after[k] = store[k]
      BY <3>1, <3>2, <3>4, StoredDocuments
    <3>6. CASE k \in DOMAIN store /\ after[k] = store[k]
      BY <1>2, <3>3, <3>4, <3>6
    <3>7. ASSUME NEW d \in ToSet(sent), Key(d) = k, after[k] = d.source
          PROVE  CountIsTrue(store'[CurrentKey])
      <4>1. d.index[1] = "current"
        <5>1. d.index = CurrentKey[1]
          BY <3>3, <3>7, KeysTellIndexes
        <5> QED BY <5>1 DEF CurrentKey
      <4>2. /\ result # NoResult /\ round # NoRound /\ result.ok \in BOOLEAN
            /\ ListsIn(round.responses)
            /\ result.ok => result.payload = ParsePayload(round.responses)
        BY <2>2 DEF ResultInv, AnswersInv, Write, WriteFails
      <4>3. {x \in ToSet(Actions(result)) : x.index[1] = "current"}
               = ToSet(CurrentDocuments(result))
        BY <4>2, ActionsAreLists
      <4>4. d \in ToSet(CurrentDocuments(result))
        BY <3>1, <4>1, <4>3
      <4>5. CountIsTrue(d.source)
        BY <4>2, <4>4, CurrentIsTrue
      <4> QED BY <3>3, <3>4, <3>7, <4>5
    <3> QED BY <3>5, <3>6, <3>7
  <2> QED BY <2>1, <2>2, StoreChanges
<1>4. ASSUME NEW source \in {store'[k] : k \in DOMAIN store' \cap {CurrentKey}}
      PROVE  CountIsTrue(source)'
  <2>1. CountIsTrue(source)
    BY <1>3
  <2> QED BY <1>1, <2>1, TrueCountsStay
<1>5. CurrentKey' = CurrentKey
  BY DEF CurrentKey
<1> QED BY <1>4, <1>5 DEF CurrentInv

-----------------------------------------------------------------------------
(* The save sets in the store.                                               *)

\* The identity under which a save set is stored, and the key: by the month of its completion,
\* or of its beginning while it is written.
BackupId(b, completion) ==
    IF BackupInfo[b].id # "" THEN <<BackupInfo[b].id>>
    ELSE IF completion = None THEN NoIdentity
    ELSE <<BackupInfo[b].client, BackupInfo[b].name, completion>>
BackupKey(b, save, completion) ==
    <<<<"backup", Month(OrTime(completion, save))>>, <<"backup", BackupId(b, completion)>>>>

\* An id belongs to one save set.
LEMMA IdsTellBackups ==
    ASSUME NEW b \in Backups, NEW c \in Backups, NEW t, NEW u, BackupInfo[b].id # "",
           BackupId(b, t) = BackupId(c, u)
    PROVE  b = c
<1>1. \A x, y, z, v : <<x>> # <<y, z, v>> /\ <<x>> # <<>>
  OBVIOUS
<1>2. \A x, y : <<x>> = <<y>> => x = y
  OBVIOUS
<1>3. BackupId(b, t) = <<BackupInfo[b].id>>
  BY DEF BackupId
<1>4. BackupInfo[c].id # ""
  BY <1>1, <1>3 DEF BackupId, NoIdentity
<1>5. BackupId(c, u) = <<BackupInfo[c].id>>
  BY <1>4 DEF BackupId
<1>6. BackupInfo[c].id = BackupInfo[b].id
  BY <1>2, <1>3, <1>5
<1> QED BY <1>6, BackupsAssumption

\* The names of a save set without an id are stored with the time of its completion.
LEMMA IdsTellNames ==
    ASSUME NEW b \in Backups, NEW c \in Backups, NEW t, NEW u, BackupInfo[b].id = "",
           BackupId(b, t) # NoIdentity, BackupId(b, t) = BackupId(c, u)
    PROVE  /\ BackupInfo[b].client = BackupInfo[c].client
           /\ BackupInfo[b].name = BackupInfo[c].name
<1>1. \A x, y, z, v : <<x>> # <<y, z, v>> /\ <<y, z, v>> # <<>>
  OBVIOUS
<1>2. \A x, y, z, v, w, q : <<x, y, z>> = <<v, w, q>> => x = v /\ y = w /\ z = q
  OBVIOUS
<1>3. BackupId(b, t) = <<BackupInfo[b].client, BackupInfo[b].name, t>>
  BY DEF BackupId
<1>4. BackupId(c, u) = <<BackupInfo[c].client, BackupInfo[c].name, u>>
  BY <1>1, <1>3 DEF BackupId
<1>5. <<BackupInfo[b].client, BackupInfo[b].name, t>>
         = <<BackupInfo[c].client, BackupInfo[c].name, u>>
  BY <1>3, <1>4
<1> QED BY <1>2, <1>5, Zenon

\* So are the times: without an id, one identity is of one completion.
LEMMA IdsTellTimes ==
    ASSUME NEW b \in Backups, NEW c \in Backups, NEW t, NEW u, BackupInfo[b].id = "",
           BackupId(b, t) # NoIdentity, BackupId(b, t) = BackupId(c, u)
    PROVE  t = u
<1>1. \A x, y, z, v : <<x>> # <<y, z, v>> /\ <<y, z, v>> # <<>>
  OBVIOUS
<1>2. \A x, y, z, v, w, q : <<x, y, z>> = <<v, w, q>> => x = v /\ y = w /\ z = q
  OBVIOUS
<1>3. BackupId(b, t) = <<BackupInfo[b].client, BackupInfo[b].name, t>>
  BY DEF BackupId
<1>4. BackupId(c, u) = <<BackupInfo[c].client, BackupInfo[c].name, u>>
  BY <1>1, <1>3 DEF BackupId
<1>5. <<BackupInfo[b].client, BackupInfo[b].name, t>>
         = <<BackupInfo[c].client, BackupInfo[c].name, u>>
  BY <1>3, <1>4
<1> QED BY <1>2, <1>5, Zenon

\* What the server says of a save set, completed or not.
LEMMA ItemsShowBackups ==
    ASSUME TypeInv, NEW b \in Backups, NEW x, x = OpenItem(b) \/ x = BackupItem(b)
    PROVE  /\ x.id = BackupInfo[b].id /\ x.client = BackupInfo[b].client
           /\ x.name = BackupInfo[b].name /\ x.save = backups[b].save
           /\ x = OpenItem(b) => x.completion = None
           /\ x = BackupItem(b) => x.completion = backups[b].completion
<1> DEFINE info == BackupInfo[b]
<1>1. backups[b] = [save |-> backups[b].save, completion |-> backups[b].completion]
  BY DEF TypeInv, TypeOK, ServerTypeOK
<1>2. /\ "id" \in DOMAIN info /\ "client" \in DOMAIN info /\ "name" \in DOMAIN info
      /\ info.id # "" \/ (info.client # "" /\ info.name # "")
  BY BackupsAssumption
<1>3. /\ x.id = info.id /\ x.client = info.client /\ x.name = info.name
      /\ x.save = backups[b].save
      /\ x = OpenItem(b) => x.completion = None
      /\ x = BackupItem(b) => x.completion = backups[b].completion
  <2>1. ASSUME NEW given, NEW save, NEW completion, given = [save |-> save, completion |-> completion]
        PROVE  /\ Over(given, info).id = info.id /\ Over(given, info).client = info.client
               /\ Over(given, info).name = info.name /\ Over(given, info).save = save
               /\ Over(given, info).completion = completion
    BY <1>2, <2>1 DEF Over
  <2>2. CASE x = OpenItem(b)
    <3>1. PICK given : given = [save |-> backups[b].save, completion |-> None]
      OBVIOUS
    <3>2. x = Over(given, info)
      BY <2>2, <3>1 DEF OpenItem
    <3>3. /\ x.id = info.id /\ x.client = info.client /\ x.name = info.name
          /\ x.save = backups[b].save /\ x.completion = None
      BY <2>1, <3>1, <3>2
    <3>4. x = BackupItem(b) => x.completion = backups[b].completion
      <4>1. Over(backups[b], info).completion = backups[b].completion
        BY <1>1, <2>1
      <4> QED BY <4>1 DEF BackupItem
    <3> QED BY <3>3, <3>4
  <2>3. CASE x = BackupItem(b)
    <3>1. x = Over(backups[b], info)
      BY <2>3 DEF BackupItem
    <3>2. /\ x.id = info.id /\ x.client = info.client /\ x.name = info.name
          /\ x.save = backups[b].save /\ x.completion = backups[b].completion
      BY <1>1, <2>1, <3>1
    <3>3. x = OpenItem(b) => x.completion = None
      <4>1. PICK given : given = [save |-> backups[b].save, completion |-> None]
        OBVIOUS
      <4>2. Over(given, info).completion = None
        BY <2>1, <4>1
      <4> QED BY <4>1, <4>2 DEF OpenItem
    <3> QED BY <3>2, <3>3
  <2> QED BY <2>2, <2>3
<1> QED BY <1>3

\* What the document of an answered save set shows, and under which key.
LEMMA BackupsAreKeyed ==
    ASSUME TypeInv, NEW b \in Backups, NEW x, NEW collected,
           x = OpenItem(b) \/ x = BackupItem(b)
    PROVE  LET r == NormalizeBackup(x)
               d == BackupDocument(r, collected)
           IN  /\ x.id = BackupInfo[b].id
               /\ x = OpenItem(b) => x.completion = None
               /\ x = BackupItem(b) => x.completion = backups[b].completion
               /\ Key(d) = BackupKey(b, backups[b].save, x.completion)
               /\ d.index[1] = "backup"
               /\ d.source.client = BackupInfo[b].client
               /\ d.source.save_set = BackupInfo[b].name
               /\ d.source.completion = x.completion
               /\ IsStoredBackup(r) <=> /\ BackupId(b, x.completion) # NoIdentity
                                        /\ OrTime(x.completion, backups[b].save) # None
<1> DEFINE r == NormalizeBackup(x)
           d == BackupDocument(r, collected)
           info == BackupInfo[b]
<1>2. info.id # "" \/ (info.client # "" /\ info.name # "")
  BY BackupsAssumption
<1>3. /\ x.id = info.id /\ x.client = info.client /\ x.name = info.name
      /\ x.save = backups[b].save
      /\ x = OpenItem(b) => x.completion = None
      /\ x = BackupItem(b) => x.completion = backups[b].completion
  BY ItemsShowBackups
<1>4. /\ r.backup_id = info.id /\ r.client = info.client /\ r.save_set = info.name
      /\ r.save = backups[b].save /\ r.completion = x.completion
      /\ {"client", "save_set", "completion"} \subseteq DOMAIN r /\ "event" \notin DOMAIN r
  BY <1>3 DEF NormalizeBackup
<1> HIDE DEF r
<1>5. BackupIdentity(r) = BackupId(b, x.completion)
  BY <1>2, <1>4 DEF BackupIdentity, BackupId, Nothing, None
<1>6. BackupEvent(r) = OrTime(x.completion, backups[b].save)
  BY <1>4 DEF BackupEvent
<1>7. /\ d.index = <<"backup", BackupMonth(r, collected)>> /\ d.id = <<"backup", BackupIdentity(r)>>
      /\ d.source = Over(r, [event |-> BackupEvent(r)])
  BY DEF BackupDocument, Document
<1> HIDE DEF d
<1>8. Key(d) = BackupKey(b, backups[b].save, x.completion)
  BY <1>5, <1>6, <1>7 DEF Key, BackupKey, BackupMonth
<1>9. d.index[1] = "backup"
  BY <1>7
<1>10. /\ d.source.client = r.client /\ d.source.save_set = r.save_set
       /\ d.source.completion = r.completion
  BY <1>4, <1>7 DEF Over
<1>11. IsStoredBackup(r) <=> /\ BackupId(b, x.completion) # NoIdentity
                             /\ OrTime(x.completion, backups[b].save) # None
  BY <1>5, <1>6 DEF IsStoredBackup, Nothing, None
<1> QED BY <1>3, <1>4, <1>8, <1>9, <1>10, <1>11 DEF d, r

\* A save set that is sent is one of the answer, and all of the answer that can be are sent.
LEMMA BackupsAreSent ==
    ASSUME AnswersInv, ResultInv, result # NoResult
    PROVE  /\ \A d \in ToSet(Actions(result)) : d.index[1] = "backup" =>
                 /\ "backups" \in DOMAIN round.responses
                 /\ \E x \in ToSet(round.responses["backups"]) :
                       /\ IsStoredBackup(NormalizeBackup(x))
                       /\ d = BackupDocument(NormalizeBackup(x), result.collected)
           /\ Answered("backups") =>
                 \A x \in ToSet(round.responses["backups"]) :
                     IsStoredBackup(NormalizeBackup(x)) =>
                         BackupDocument(NormalizeBackup(x), result.collected)
                            \in ToSet(Actions(result))
<1> DEFINE responses == round.responses
           records == result.payload.backups
           items == Items(responses, "backups")
           sent == {d \in ToSet(Actions(result)) : d.index[1] = "backup"}
<1>1. /\ round # NoRound /\ result.ok \in BOOLEAN /\ ListsIn(responses)
      /\ result.ok => result.payload = ParsePayload(responses)
  BY DEF ResultInv, AnswersInv
<1>2. sent = IF result.ok THEN ToSet(BackupDocuments(records, result.collected)) ELSE {}
  BY <1>1, ActionsAreLists
<1>3. CASE ~result.ok
  <2>1. sent = {} /\ ~Answered("backups")
    BY <1>2, <1>3 DEF Answered
  <2> QED BY <2>1
<1>4. CASE result.ok
  <2>1. /\ records \in Seq(ToSet(records)) /\ DOMAIN records = DOMAIN items
        /\ \A i \in DOMAIN items : records[i] = NormalizeBackup(items[i])
    BY <1>1, <1>4, PayloadsAreLists
  <2>2. sent = {BackupDocument(records[i], result.collected) :
                  i \in {n \in DOMAIN records : IsStoredBackup(records[n])}}
    BY <1>2, <1>4, <2>1, BackupDocumentsAreLists
  <2>3. CASE "backups" \notin DOMAIN responses
    <3>1. DOMAIN items = {}
      BY <2>3 DEF Items
    <3>2. sent = {}
      BY <2>1, <2>2, <3>1
    <3> QED BY <2>3, <3>2 DEF Answered
  <2>4. CASE "backups" \in DOMAIN responses
    <3>1. items = responses["backups"]
      BY <2>4 DEF Items
    <3>2. ASSUME NEW d \in sent
          PROVE  \E x \in ToSet(responses["backups"]) :
                    /\ IsStoredBackup(NormalizeBackup(x))
                    /\ d = BackupDocument(NormalizeBackup(x), result.collected)
      <4>1. PICK i \in DOMAIN items : /\ IsStoredBackup(NormalizeBackup(items[i]))
                                      /\ d = BackupDocument(NormalizeBackup(items[i]), result.collected)
        BY <2>1, <2>2
      <4> QED BY <3>1, <4>1 DEF ToSet
    <3>3. ASSUME NEW x \in ToSet(responses["backups"]), IsStoredBackup(NormalizeBackup(x))
          PROVE  BackupDocument(NormalizeBackup(x), result.collected) \in ToSet(Actions(result))
      <4>1. PICK i \in DOMAIN items : items[i] = x
        BY <3>1 DEF ToSet
      <4>2. BackupDocument(NormalizeBackup(x), result.collected) \in sent
        BY <2>1, <2>2, <3>3, <4>1
      <4> QED BY <4>2
    <3> QED BY <2>4, <3>2, <3>3
  <2> QED BY <2>3, <2>4
<1> QED BY <1>1, <1>3, <1>4

\* A document that shows a save set: while it is written, or complete.
ShowsBackup(k, source) ==
    \E b \in Backups :
        /\ source.client = BackupInfo[b].client /\ source.save_set = BackupInfo[b].name
        /\ \/ /\ backups[b].save # None /\ BackupInfo[b].id # ""
              /\ k = BackupKey(b, backups[b].save, None) /\ source.completion = None
           \/ /\ backups[b].completion # None
              /\ k = BackupKey(b, backups[b].save, backups[b].completion)
              /\ source.completion = backups[b].completion

BackupsInv ==
    \A k \in DOMAIN store : k[1][1] = "backup" => \A source \in {store[k]} : ShowsBackup(k, source)

\* A save set is stored as it was completed.
DoneKey(b) == BackupKey(b, backups[b].save, backups[b].completion)
IsDone(b) ==
    /\ backups[b].completion # None
    /\ DoneKey(b) \in DOMAIN store
    /\ store[DoneKey(b)].completion = backups[b].completion

\* An answer does not say of a save set that it is still written when its completion is
\* stored, or lies before the window's end: what is stored is not taken back.
FreshInv ==
    (round # NoRound /\ "backups" \in DOMAIN round.responses) =>
        \A x \in ToSet(round.responses["backups"]), b \in Backups :
            (/\ BackupInfo[b].id # "" /\ x.id = BackupInfo[b].id
             /\ backups[b].completion # None
             /\ IsDone(b) \/ backups[b].completion < round.windowEnd)
                => x.completion # None

\* Every save set of the stretch of stored rounds that was written fast enough is stored.
CompletedInv ==
    LET stretch == covered["backups"]
    IN  \A b \in Backups :
            (/\ backups[b].completion # None
             /\ stretch.first <= backups[b].save /\ backups[b].completion < stretch.last
             /\ backups[b].completion - backups[b].save + stretch.gap <= BackupsWindow)
                => IsDone(b)

\* The key of a save set tells what is stored, and under which identity.
LEMMA KeysTellIds ==
    ASSUME NEW b, NEW save, NEW completion
    PROVE  /\ BackupKey(b, save, completion)[1][1] = "backup"
           /\ BackupKey(b, save, completion)[2] = <<"backup", BackupId(b, completion)>>
BY DEF BackupKey

\* Equal keys are of equal identities.
LEMMA EqualKeys ==
    ASSUME NEW b, NEW save, NEW completion, NEW c, NEW s, NEW t,
           BackupKey(b, save, completion) = BackupKey(c, s, t)
    PROVE  BackupId(b, completion) = BackupId(c, t)
<1>1. \A x, y : <<"backup", x>> = <<"backup", y>> => x = y
  OBVIOUS
<1>2. <<"backup", BackupId(b, completion)>> = <<"backup", BackupId(c, t)>>
  BY KeysTellIds
<1> QED BY <1>1, <1>2

\* A save set that is sent, by the save set of the server that it shows.
LEMMA SentBackups ==
    ASSUME TypeInv, ServerInv, AnswersInv, ResultInv, result # NoResult,
           NEW d \in ToSet(Actions(result)), d.index[1] = "backup"
    PROVE  /\ round # NoRound /\ "backups" \in DOMAIN round.responses
           /\ \E b \in Backups, x \in ToSet(round.responses["backups"]) :
                 /\ x = OpenItem(b) \/ (backups[b].completion # None /\ x = BackupItem(b))
                 /\ x.id = BackupInfo[b].id
                 /\ BackupId(b, x.completion) # NoIdentity
                 /\ Key(d) = BackupKey(b, backups[b].save, x.completion)
                 /\ x = OpenItem(b) => x.completion = None
                 /\ x = BackupItem(b) => x.completion = backups[b].completion
                 /\ d.source.client = BackupInfo[b].client
                 /\ d.source.save_set = BackupInfo[b].name
                 /\ d.source.completion = x.completion
                 /\ backups[b].save # None
<1>1. round # NoRound
  BY DEF ResultInv
<1>2. "backups" \in DOMAIN round.responses
  BY BackupsAreSent
<1>3. PICK x \in ToSet(round.responses["backups"]) :
         /\ IsStoredBackup(NormalizeBackup(x))
         /\ d = BackupDocument(NormalizeBackup(x), result.collected)
  BY BackupsAreSent
<1>4. PICK b \in Backups :
         /\ backups[b].save # None
         /\ x = OpenItem(b) \/ (backups[b].completion # None /\ x = BackupItem(b))
  BY <1>1, <1>2, <1>3 DEF AnswersInv, BackupsAnswered
<1>5. /\ x.id = BackupInfo[b].id
      /\ BackupId(b, x.completion) # NoIdentity
      /\ Key(d) = BackupKey(b, backups[b].save, x.completion)
      /\ x = OpenItem(b) => x.completion = None
      /\ x = BackupItem(b) => x.completion = backups[b].completion
      /\ d.source.client = BackupInfo[b].client
      /\ d.source.save_set = BackupInfo[b].name
      /\ d.source.completion = x.completion
  BY <1>3, <1>4, BackupsAreKeyed
<1> QED BY <1>1, <1>2, <1>4, <1>5

\* What shows a save set goes on showing it.
LEMMA ShownBackupsStay ==
    ASSUME Moves, ServerInv, NEW k, NEW source, ShowsBackup(k, source)
    PROVE  ShowsBackup(k, source)'
<1>1. PICK b \in Backups :
        /\ source.client = BackupInfo[b].client /\ source.save_set = BackupInfo[b].name
        /\ \/ /\ backups[b].save # None /\ BackupInfo[b].id # ""
              /\ k = BackupKey(b, backups[b].save, None) /\ source.completion = None
           \/ /\ backups[b].completion # None
              /\ k = BackupKey(b, backups[b].save, backups[b].completion)
              /\ source.completion = backups[b].completion
  BY DEF ShowsBackup
<1>2. /\ backups[b].save # None => backups'[b].save = backups[b].save
      /\ backups[b].completion # None => backups'[b] = backups[b]
  BY DEF Moves
<1>3. \/ /\ backups'[b].save # None /\ BackupInfo[b].id # ""
         /\ k = BackupKey(b, backups'[b].save, None) /\ source.completion = None
      \/ /\ backups'[b].completion # None
         /\ k = BackupKey(b, backups'[b].save, backups'[b].completion)
         /\ source.completion = backups'[b].completion
  BY <1>1, <1>2
<1> QED BY <1>1, <1>3 DEF ShowsBackup, BackupKey, BackupId

\* Every stored save set stays that of the server.
LEMMA BackupsNext ==
    TypeInv /\ ServerInv /\ AnswersInv /\ ResultInv /\ BackupsInv /\ [Next]_vars => BackupsInv'
<1> SUFFICES ASSUME TypeInv, ServerInv, AnswersInv, ResultInv, BackupsInv, [Next]_vars,
                    NEW k \in DOMAIN store', k[1][1] = "backup",
                    NEW source \in {store'[k]}
             PROVE  ShowsBackup(k, source)'
  BY DEF BackupsInv
<1>1. Moves
  BY StepsMove
<1>2. ShowsBackup(k, source)
  <2>1. CASE store' = store
    BY <2>1 DEF BackupsInv
  <2>2. CASE Write \/ WriteFails
    <3>1. PICK sent : /\ sent \in Seq(ToSet(sent))
                      /\ ToSet(sent) \in SUBSET ToSet(Actions(result))
                      /\ store' = Stored(store, sent)
      BY <2>2, WritesAreStored
    <3>2. PICK after : after = Stored(store, sent)
      OBVIOUS
    <3>3. store' = after /\ k \in DOMAIN after
      BY <3>1, <3>2
    <3>4. \/ \E d \in ToSet(sent) : Key(d) = k /\ after[k] = d.source
          \/ k \in DOMAIN store /\ after[k] = store[k]
      BY <3>1, <3>2, <3>3, StoredDocuments
    <3>5. CASE k \in DOMAIN store /\ after[k] = store[k]
      BY <3>3, <3>5 DEF BackupsInv
    <3>6. ASSUME NEW d \in ToSet(sent), Key(d) = k, after[k] = d.source
          PROVE  ShowsBackup(k, source)
      <4>1. d.index[1] = "backup" /\ d \in ToSet(Actions(result)) /\ result # NoResult
        BY <2>2, <3>1, <3>6, KeysTellIndexes DEF Write, WriteFails
      <4>2. PICK b \in Backups, x \in ToSet(round.responses["backups"]) :
                 /\ x = OpenItem(b) \/ (backups[b].completion # None /\ x = BackupItem(b))
                 /\ x.id = BackupInfo[b].id
                 /\ BackupId(b, x.completion) # NoIdentity
                 /\ Key(d) = BackupKey(b, backups[b].save, x.completion)
                 /\ x = OpenItem(b) => x.completion = None
                 /\ x = BackupItem(b) => x.completion = backups[b].completion
                 /\ d.source.client = BackupInfo[b].client
                 /\ d.source.save_set = BackupInfo[b].name
                 /\ d.source.completion = x.completion
                 /\ backups[b].save # None
        BY <4>1, SentBackups
      <4>3. source = d.source
        BY <3>3, <3>6
      <4>4. CASE x = OpenItem(b)
        <5>1. x.completion = None /\ BackupInfo[b].id # ""
          BY <4>2, <4>4 DEF BackupId
        <5> QED BY <3>6, <4>2, <4>3, <5>1 DEF ShowsBackup
      <4>5. CASE backups[b].completion # None /\ x = BackupItem(b)
        BY <3>6, <4>2, <4>3, <4>5 DEF ShowsBackup
      <4> QED BY <4>2, <4>4, <4>5
    <3> QED BY <3>4, <3>5, <3>6
  <2> QED BY <2>1, <2>2, StoreChanges
<1> QED BY <1>1, <1>2, ShownBackupsStay

\* A completion that is sent under the key of a save set is that of the save set.
LEMMA SentCompletions ==
    ASSUME TypeInv, ServerInv, AnswersInv, ResultInv, FreshInv, result # NoResult,
           NEW d \in ToSet(Actions(result)), NEW b \in Backups, Key(d) = DoneKey(b),
           backups[b].completion # None,
           IsDone(b) \/ backups[b].completion < round.windowEnd
    PROVE  d.source.completion = backups[b].completion
<1>1. d.index[1] = "backup"
  BY KeysTellIds, KeysTellIndexes DEF DoneKey
<1>2. /\ round # NoRound /\ "backups" \in DOMAIN round.responses
      /\ \E c \in Backups, x \in ToSet(round.responses["backups"]) :
            /\ x = OpenItem(c) \/ (backups[c].completion # None /\ x = BackupItem(c))
            /\ x.id = BackupInfo[c].id
            /\ Key(d) = BackupKey(c, backups[c].save, x.completion)
            /\ x = OpenItem(c) => x.completion = None
            /\ x = BackupItem(c) => x.completion = backups[c].completion
            /\ d.source.completion = x.completion
  BY <1>1, SentBackups
<1>3. PICK c \in Backups, x \in ToSet(round.responses["backups"]) :
            /\ x = OpenItem(c) \/ (backups[c].completion # None /\ x = BackupItem(c))
            /\ x.id = BackupInfo[c].id
            /\ Key(d) = BackupKey(c, backups[c].save, x.completion)
            /\ x = OpenItem(c) => x.completion = None
            /\ x = BackupItem(c) => x.completion = backups[c].completion
            /\ d.source.completion = x.completion
  BY <1>2
<1>4. BackupId(b, backups[b].completion) = BackupId(c, x.completion)
  <2>1. BackupKey(b, backups[b].save, backups[b].completion)
           = BackupKey(c, backups[c].save, x.completion)
    BY <1>3 DEF DoneKey
  <2> QED BY <2>1, EqualKeys
<1>5. BackupId(b, backups[b].completion) # NoIdentity
  BY DEF BackupId, NoIdentity
<1>6. /\ BackupInfo[b].id # "" => b = c
      /\ BackupInfo[b].id = "" => backups[b].completion = x.completion
  <2>1. PICK t : t = backups[b].completion
    OBVIOUS
  <2>2. PICK u : u = x.completion
    OBVIOUS
  <2>3. BackupId(b, t) = BackupId(c, u) /\ BackupId(b, t) # NoIdentity
    BY <1>4, <1>5, <2>1, <2>2
  <2>4. ASSUME BackupInfo[b].id # ""
        PROVE  b = c
    BY <2>3, <2>4, IdsTellBackups
  <2>5. ASSUME BackupInfo[b].id = ""
        PROVE  t = u
    BY <2>3, <2>5, IdsTellTimes
  <2> QED BY <2>1, <2>2, <2>4, <2>5
<1>7. CASE BackupInfo[b].id = ""
  BY <1>3, <1>6, <1>7
<1>8. CASE BackupInfo[b].id # ""
  <2>1. b = c
    BY <1>6, <1>8
  <2>2. x.completion # None
    BY <1>2, <1>3, <1>8, <2>1 DEF FreshInv
  <2> QED BY <1>3, <2>1, <2>2
<1> QED BY <1>7, <1>8

\* A save set that is done is done for ever.
LEMMA DoneStays ==
    ASSUME TypeInv, ServerInv, AnswersInv, ResultInv, FreshInv, [Next]_vars,
           NEW b \in Backups, IsDone(b)
    PROVE  IsDone(b)'
<1>1. backups[b].completion # None /\ backups'[b] = backups[b]
  BY StepsMove DEF IsDone, Moves
<1>2. PICK k : k = DoneKey(b)
  OBVIOUS
<1>3. k \in DOMAIN store /\ store[k].completion = backups[b].completion
  BY <1>2 DEF IsDone
<1>4. k \in DOMAIN store' /\ store'[k].completion = backups[b].completion
  <2>1. CASE store' = store
    BY <1>3, <2>1
  <2>2. CASE Write \/ WriteFails
    <3>1. PICK sent : /\ sent \in Seq(ToSet(sent))
                      /\ ToSet(sent) \in SUBSET ToSet(Actions(result))
                      /\ store' = Stored(store, sent)
      BY <2>2, WritesAreStored
    <3>2. PICK after : after = Stored(store, sent)
      OBVIOUS
    <3>3. k \in DOMAIN after
      BY <1>3, <3>1, <3>2, StoredDocuments
    <3>4. \/ \E d \in ToSet(sent) : Key(d) = k /\ after[k] = d.source
          \/ after[k] = store[k]
      BY <3>1, <3>2, <3>3, StoredDocuments
    <3>5. result # NoResult
      BY <2>2 DEF Write, WriteFails
    <3>6. \A d \in ToSet(sent) : Key(d) = k => d.source.completion = backups[b].completion
      BY <1>1, <1>2, <3>1, <3>5, SentCompletions
    <3>7. after[k].completion = backups[b].completion
      BY <1>3, <3>4, <3>6
    <3> QED BY <3>1, <3>2, <3>3, <3>7
  <2> QED BY <2>1, <2>2, StoreChanges
<1>5. DoneKey(b)' = k
  BY <1>1, <1>2 DEF DoneKey, BackupKey, BackupId
<1> QED BY <1>1, <1>4, <1>5 DEF IsDone

\* What an answer of the round may say of a save set.
FreshIn(items, end) ==
    \A x \in ToSet(items), b \in Backups :
        (/\ BackupInfo[b].id # "" /\ x.id = BackupInfo[b].id
         /\ backups[b].completion # None
         /\ IsDone(b) \/ backups[b].completion < end)
            => x.completion # None

\* Of a round that goes on, the answer to "backups" stays fresh.
LEMMA FreshStays ==
    ASSUME TypeInv, ServerInv, BackupsInv, [Next]_vars, store' = store,
           NEW items, NEW end \in Nat, end <= clock, FreshIn(items, end)
    PROVE  FreshIn(items, end)'
<1>1. Moves /\ clock \in Nat
  BY StepsMove DEF TypeInv, TypeOK, ServerTypeOK
<1>2. ASSUME NEW x \in ToSet(items), NEW b \in Backups,
             BackupInfo[b].id # "", x.id = BackupInfo[b].id, backups'[b].completion # None,
             IsDone(b)' \/ backups'[b].completion < end
      PROVE  x.completion # None
  <2>1. CASE backups[b].completion # None
    <3>1. backups'[b] = backups[b]
      BY <1>1, <2>1 DEF Moves
    <3>2. IsDone(b)' => IsDone(b)
      BY <3>1 DEF IsDone, DoneKey, BackupKey, BackupId
    <3> QED BY <1>2, <2>1, <3>1, <3>2 DEF FreshIn
  <2>2. CASE backups[b].completion = None
    <3>1. backups'[b].completion = clock
      BY <1>1, <1>2, <2>2 DEF Moves
    <3>2. IsDone(b)'
      <4>1. ~(backups'[b].completion < end)
        BY <1>1, <3>1
      <4> QED BY <1>2, <4>1, Zenon
    <3>3. PICK k : k = BackupKey(b, backups'[b].save, clock)
      OBVIOUS
    <3>4. k \in DOMAIN store /\ store[k].completion = clock
      BY <3>1, <3>2, <3>3 DEF IsDone, DoneKey, BackupKey, BackupId
    <3>5. ShowsBackup(k, store[k])
      BY <3>3, <3>4, KeysTellIds DEF BackupsInv
    <3>6. clock # None
      BY <1>1 DEF None
    <3>7. PICK c \in Backups : /\ backups[c].completion # None
                               /\ k = BackupKey(c, backups[c].save, backups[c].completion)
      BY <3>4, <3>5, <3>6 DEF ShowsBackup
    <3>8. BackupId(b, clock) = BackupId(c, backups[c].completion)
      <4>1. PICK s, t : s = backups'[b].save /\ t = clock
        OBVIOUS
      <4>2. PICK v, u : v = backups[c].save /\ u = backups[c].completion
        OBVIOUS
      <4>3. BackupKey(b, s, t) = BackupKey(c, v, u)
        BY <3>3, <3>7, <4>1, <4>2
      <4>4. BackupId(b, t) = BackupId(c, u)
        BY <4>3, EqualKeys
      <4> QED BY <4>1, <4>2, <4>4
    <3>9. BackupId(b, clock) # NoIdentity
      BY <1>2 DEF BackupId, NoIdentity
    <3>10. b = c
      <4>1. PICK t : t = clock
        OBVIOUS
      <4>2. PICK u : u = backups[c].completion
        OBVIOUS
      <4>3. BackupId(b, t) = BackupId(c, u) /\ BackupId(b, t) # NoIdentity
        BY <3>8, <3>9, <4>1, <4>2
      <4>4. BackupInfo[b].id # "" => b = c
        BY <4>3, IdsTellBackups
      <4> QED BY <1>2, <4>4
    <3> QED BY <2>2, <3>7, <3>10
  <2> QED BY <2>1, <2>2
<1>3. ToSet(items)' = ToSet(items)
  BY DEF ToSet
<1> QED BY <1>2, <1>3 DEF FreshIn

\* An answer says what the server knows when it is given.
LEMMA FreshAnswers ==
    ASSUME TypeInv, NEW items, NEW end,
           \A x \in ToSet(items) : \E b \in Backups : x = BackupItem(b)
    PROVE  FreshIn(items, end)
<1> SUFFICES ASSUME NEW x \in ToSet(items), NEW b \in Backups, BackupInfo[b].id # "",
                    x.id = BackupInfo[b].id, backups[b].completion # None
             PROVE  x.completion # None
  BY DEF FreshIn
<1>1. PICK c \in Backups : x = BackupItem(c)
  OBVIOUS
<1>2. x.id = BackupInfo[c].id /\ x.completion = backups[c].completion
  BY <1>1, ItemsShowBackups
<1>3. b = c
  BY <1>2, BackupsAssumption
<1> QED BY <1>2, <1>3

\* The answers of a round stay fresh until they are written.
LEMMA FreshNext ==
    TypeInv /\ ServerInv /\ PlanInv /\ BackupsInv /\ FreshInv /\ [Next]_vars => FreshInv'
<1> SUFFICES ASSUME TypeInv, ServerInv, PlanInv, BackupsInv, FreshInv, [Next]_vars
             PROVE  FreshInv'
  OBVIOUS
<1>1. ASSUME round' = NoRound
      PROVE  FreshInv'
  BY <1>1 DEF FreshInv
<1>2. ASSUME NEW class \in schedules, Begin(class)
      PROVE  FreshInv'
  <2>1. round'.responses = <<>>
    BY <1>2, BeginFields
  <2>2. DOMAIN round'.responses = {}
    BY <2>1
  <2> QED BY <2>2 DEF FreshInv
<1>3. (round # NoRound /\ "backups" \in DOMAIN round.responses)
         => FreshIn(round.responses["backups"], round.windowEnd)
  BY DEF FreshInv, FreshIn
<1>4. ASSUME round # NoRound, store' = store, round'.windowEnd = round.windowEnd,
             "backups" \in DOMAIN round'.responses =>
                /\ "backups" \in DOMAIN round.responses
                /\ round'.responses["backups"] = round.responses["backups"]
      PROVE  FreshInv'
  <2> SUFFICES ASSUME "backups" \in DOMAIN round'.responses,
                      NEW items, items = round.responses["backups"],
                      NEW end, end = round.windowEnd
               PROVE  FreshIn(items, end)'
    BY <1>4 DEF FreshInv, FreshIn
  <2>1. end \in Nat /\ end <= clock
    BY <1>4 DEF PlanInv
  <2>2. FreshIn(items, end)
    BY <1>3, <1>4
  <2> QED BY <1>4, <2>1, <2>2, FreshStays
<1>5. CASE Process
  <2>1. CASE \E class \in schedules : Begin(class)
    BY <1>2, <2>1
  <2>2. CASE SendRequest \/ RequestFails \/ Retry
    <3>1. store' = store
      BY <2>2 DEF SendRequest, RequestFails, Retry, FetchUnchanged
    <3> QED BY <1>4, <2>2, <3>1, FetchFields DEF TypeInv
  <2>3. CASE AnswerArrives
    <3>1. /\ RoundInv /\ round # NoRound /\ round' # NoRound
          /\ round'.windowEnd = round.windowEnd /\ round.phase = "sent"
          /\ UNCHANGED <<clock, servervars, store>>
      BY <2>3, FetchFields DEF TypeInv, AnswerArrives, FetchUnchanged
    <3>2. round.next <= Len(round.plan)
      BY <3>1 DEF RoundInv
    <3>3. PICK answer \in AnswersTo(Request) :
             round'.responses = Over([n \in {Request.name} |-> answer], round.responses)
      BY <2>3, FetchFields DEF TypeInv
    <3>4. /\ Request.name = "backups" => round'.responses["backups"] = answer
          /\ Request.name # "backups" =>
                ("backups" \in DOMAIN round'.responses =>
                    /\ "backups" \in DOMAIN round.responses
                    /\ round'.responses["backups"] = round.responses["backups"])
      <4>1. PICK name : name = Request.name
        OBVIOUS
      <4> QED BY <3>3, <4>1 DEF Over
    <3>5. CASE Request.name # "backups"
      BY <1>4, <3>1, <3>4, <3>5
    <3>6. CASE Request.name = "backups"
      <4>1. \A x \in ToSet(answer) : \E b \in Backups : x = BackupItem(b)
        BY <3>1, <3>2, <3>6, BackupsAreAnswered
      <4>2. FreshIn(answer, round.windowEnd)
        BY <4>1, FreshAnswers
      <4>3. PICK end : end = round.windowEnd
        OBVIOUS
      <4>4. backups' = backups /\ store' = store
        BY <3>1 DEF servervars
      <4>5. FreshIn(answer, end)'
        BY <4>2, <4>3, <4>4 DEF FreshIn, IsDone, DoneKey, BackupKey, BackupId, ToSet
      <4> QED BY <3>1, <3>4, <3>6, <4>3, <4>5 DEF FreshInv, FreshIn
    <3> QED BY <3>5, <3>6
  <2>4. CASE Collect \/ CollectRaises
    <3>1. round' = round /\ store' = store /\ round # NoRound
      BY <2>4 DEF Collect, CollectRaises, clientvars, Fetched
    <3> QED BY <1>4, <3>1
  <2>5. CASE Write \/ WriteFails
    BY <1>1, <2>5 DEF Write, WriteFails
  <2> QED BY <1>5, <2>1, <2>2, <2>3, <2>4, <2>5 DEF Process
<1>6. CASE ServerChanges \/ TimePasses \/ UNCHANGED vars
  <2>1. round' = round /\ store' = store
    BY <1>6 DEF ServerChanges, TimePasses, Tick, vars, clientvars
  <2> QED BY <1>1, <1>4, <2>1
<1>7. CASE Restart
  BY <1>1, <1>7 DEF Restart
<1> QED BY <1>5, <1>6, <1>7 DEF Next

\* A save set that was begun in the window of a round, and complete before its end, is
\* done when the round is stored.
LEMMA AnsweredIsDone ==
    ASSUME TypeInv, ServerInv, AnswersInv, ResultInv, FreshInv, Write, Answered("backups"),
           NEW b \in Backups, backups[b].completion # None,
           backups[b].completion < round.windowEnd,
           round.windowEnd - BackupsWindow <= backups[b].save
    PROVE  IsDone(b)'
<1>1. /\ result # NoResult /\ round # NoRound /\ backups' = backups
      /\ "backups" \in DOMAIN round.responses
  BY DEF Write, servervars, Answered, ResultInv
<1>2. BackupItem(b) \in ToSet(round.responses["backups"])
  BY <1>1 DEF AnswersInv, BackupsAnswered
<1> DEFINE r == NormalizeBackup(BackupItem(b))
           d == BackupDocument(r, result.collected)
<1>3. /\ Key(d) = BackupKey(b, backups[b].save, BackupItem(b).completion)
      /\ BackupItem(b).completion = backups[b].completion
      /\ IsStoredBackup(r) <=> /\ BackupId(b, BackupItem(b).completion) # NoIdentity
                               /\ OrTime(BackupItem(b).completion, backups[b].save) # None
  BY BackupsAreKeyed
<1>4. BackupId(b, backups[b].completion) # NoIdentity
  BY DEF BackupId, NoIdentity
<1>5. OrTime(backups[b].completion, backups[b].save) # None
  BY DEF OrTime, None, Nothing
<1>6. IsStoredBackup(r) /\ Key(d) = DoneKey(b)
  BY <1>3, <1>4, <1>5 DEF DoneKey
<1>7. d \in ToSet(Actions(result))
  BY <1>1, <1>2, <1>6, BackupsAreSent
<1> HIDE DEF r, d
<1>8. PICK k : k = DoneKey(b)
  OBVIOUS
<1>9. PICK after : after = Stored(store, Actions(result))
  OBVIOUS
<1>10. Actions(result) \in Seq(ToSet(Actions(result))) /\ store' = after
  BY <1>9, WritesAreStored DEF Write
<1>11. k \in DOMAIN after
  BY <1>6, <1>7, <1>8, <1>9, <1>10, StoredDocuments
<1>12. \/ \E x \in ToSet(Actions(result)) : Key(x) = k /\ after[k] = x.source
       \/ \A x \in ToSet(Actions(result)) : Key(x) # k
  BY <1>9, <1>10, <1>11, StoredDocuments
<1>13. PICK x \in ToSet(Actions(result)) : Key(x) = k /\ after[k] = x.source
  BY <1>6, <1>7, <1>8, <1>12
<1>14. x.source.completion = backups[b].completion
  BY <1>1, <1>8, <1>13, SentCompletions
<1>15. k \in DOMAIN store' /\ store'[k].completion = backups[b].completion
  BY <1>10, <1>11, <1>13, <1>14
<1>16. DoneKey(b)' = k
  BY <1>1, <1>8 DEF DoneKey, BackupKey, BackupId
<1> QED BY <1>1, <1>15, <1>16 DEF IsDone

\* A stretch that a round extends, and what can have begun in it in time.
LEMMA GapsGrow ==
    ASSUME NEW stretch \in [first : Int, last : Int, gap : Int], round.windowEnd \in Nat,
           NEW save \in Int, NEW completion \in Int,
           Extended(stretch, "backups").first <= save, completion < round.windowEnd,
           completion - save + Extended(stretch, "backups").gap <= BackupsWindow
    PROVE  \/ /\ stretch.first <= save /\ completion < stretch.last
              /\ completion - save + stretch.gap <= BackupsWindow
           \/ round.windowEnd - BackupsWindow <= save
<1>1. PICK end \in Nat : end = round.windowEnd
  OBVIOUS
<1>2. Window["backups"] = BackupsWindow /\ BackupsWindow \in Nat
  BY WindowAssumption DEF Window
<1> DEFINE gap == IF end - stretch.last > stretch.gap THEN end - stretch.last ELSE stretch.gap
<1>3. CASE stretch.last # None /\ end - BackupsWindow <= stretch.last
  <2>1. Extended(stretch, "backups") = [stretch EXCEPT !.last = end, !.gap = gap]
    BY <1>1, <1>2, <1>3 DEF Extended
  <2>2. gap \in Int /\ gap >= stretch.gap /\ gap >= end - stretch.last
    OBVIOUS
  <2> HIDE DEF gap
  <2>3. /\ Extended(stretch, "backups").first = stretch.first
        /\ Extended(stretch, "backups").gap = gap
    BY <2>1
  <2>4. stretch.first <= save /\ completion - save + gap <= BackupsWindow
    BY <2>3
  <2>5. CASE completion < stretch.last
    BY <1>2, <2>2, <2>4, <2>5
  <2>6. CASE ~(completion < stretch.last)
    <3>1. completion - save + (end - stretch.last) <= BackupsWindow
      BY <1>2, <2>2, <2>4
    <3> QED BY <1>1, <1>2, <2>6, <3>1
  <2> QED BY <2>5, <2>6
<1>4. CASE ~(stretch.last # None /\ end - BackupsWindow <= stretch.last)
  <2>1. Extended(stretch, "backups")
          = [first |-> end - BackupsWindow, last |-> end, gap |-> 0]
    BY <1>1, <1>2, <1>4 DEF Extended
  <2> QED BY <1>1, <2>1
<1> QED BY <1>3, <1>4

\* The stored stretch of save sets has all that were written in it fast enough.
LEMMA CompletedNext ==
    ASSUME TypeInv, ServerInv, PlanInv, AnswersInv, ResultInv, CoveredInv, FreshInv, CompletedInv,
           [Next]_vars
    PROVE  CompletedInv'
<1> DEFINE before == covered["backups"]
           after == covered'["backups"]
<1>1. Moves /\ clock \in Nat
  BY StepsMove DEF TypeInv, TypeOK, ServerTypeOK
<1>2. /\ covered \in [TimedEndpoints -> [first : Int, last : Int, gap : Int]]
      /\ before \in [first : Int, last : Int, gap : Int] /\ before.last <= clock
      /\ "backups" \in TimedEndpoints
  BY DEF CoveredInv, TimedEndpoints
<1>3. \A b \in Backups : /\ backups[b].save \in Int /\ backups[b].completion \in Int
  BY DEF TypeInv, TypeOK, ServerTypeOK, Times, None
<1> SUFFICES ASSUME NEW b \in Backups, backups'[b].completion # None,
                    after.first <= backups'[b].save, backups'[b].completion < after.last,
                    backups'[b].completion - backups'[b].save + after.gap <= BackupsWindow
             PROVE  IsDone(b)'
  BY DEF CompletedInv
<1>4. /\ backups[b].completion # None => backups'[b] = backups[b]
      /\ backups[b].completion = None => backups'[b].completion = clock
  BY <1>1 DEF Moves
<1>5. ASSUME backups[b].completion # None, before.first <= backups[b].save,
             backups[b].completion < before.last,
             backups[b].completion - backups[b].save + before.gap <= BackupsWindow
      PROVE  IsDone(b)'
  <2>1. IsDone(b)
    BY <1>5 DEF CompletedInv
  <2> QED BY <2>1, DoneStays
<1>6. CASE covered' = covered
  <2>1. backups[b].completion # None
    BY <1>1, <1>2, <1>4, <1>6
  <2> QED BY <1>4, <1>5, <1>6, <2>1
<1>7. CASE Write
  <2>1. /\ result # NoResult /\ round # NoRound /\ backups' = backups
        /\ after = IF Answered("backups") THEN Extended(before, "backups") ELSE before
    BY <1>2, <1>7 DEF Write, ResultInv, servervars
  <2>2. round.windowEnd \in Nat /\ round.windowEnd <= clock
    BY <2>1 DEF PlanInv
  <2>3. CASE ~Answered("backups")
    BY <1>5, <2>1, <2>3
  <2>4. CASE Answered("backups")
    <3> DEFINE longer == Extended(before, "backups")
    <3>1. after = longer
      BY <2>1, <2>4
    <3>2. longer.last = round.windowEnd
      BY <1>2, <2>2, StretchesExtend
    <3>3. backups[b].completion < round.windowEnd
      BY <2>1, <3>1, <3>2
    <3>4. \/ /\ before.first <= backups[b].save /\ backups[b].completion < before.last
             /\ backups[b].completion - backups[b].save + before.gap <= BackupsWindow
          \/ round.windowEnd - BackupsWindow <= backups[b].save
      <4>1. PICK save \in Int : save = backups[b].save
        BY <1>3
      <4>2. PICK completion \in Int : completion = backups[b].completion
        BY <1>3
      <4>3. longer.first <= save /\ completion - save + longer.gap <= BackupsWindow
            /\ completion < round.windowEnd
        BY <2>1, <3>1, <3>3, <4>1, <4>2
      <4> QED BY <1>2, <2>2, <4>1, <4>2, <4>3, GapsGrow
    <3> QED BY <1>5, <1>7, <2>1, <2>4, <3>3, <3>4, AnsweredIsDone
  <2> QED BY <2>3, <2>4
<1>8. covered' = covered \/ Write
  BY DEF Next, Process, Begin, SendRequest, AnswerArrives, RequestFails, Retry, FetchUnchanged,
         Collect, CollectRaises, WriteFails, ServerChanges, TimePasses, Restart, vars, history
<1> QED BY <1>6, <1>7, <1>8

-----------------------------------------------------------------------------
(* The store.                                                                *)

StoreInv ==
    /\ TypeInv /\ ServerInv /\ PlanInv /\ AnswersInv /\ ResultInv
    /\ RunsInv /\ CoveredInv
    /\ BackupsInv /\ FreshInv /\ CompletedInv

\* StoreInv holds before the first round.
LEMMA StoreInit == Init => StoreInv
<1> SUFFICES ASSUME Init
             PROVE  StoreInv
  OBVIOUS
<1>1. TypeInv
  BY TypeInit
<1>2. /\ round = NoRound /\ result = NoResult /\ store = <<>> /\ clock = 0
      /\ covered = [name \in TimedEndpoints |-> NoStretch]
      /\ \A j \in Jobs : jobs[j].end = None
      /\ \A b \in Backups : backups[b].save = None /\ backups[b].completion = None
  BY DEF Init, ServerInit
<1>3. ServerInv
  BY <1>2 DEF ServerInv
<1>4. PlanInv /\ AnswersInv /\ FreshInv
  BY <1>2 DEF PlanInv, AnswersInv, FreshInv
<1>5. ResultInv
  BY <1>2 DEF ResultInv
<1>6. DOMAIN store = {}
  BY <1>2
<1>7. RunsInv /\ BackupsInv
  BY <1>6 DEF RunsInv, BackupsInv
<1>8. CoveredInv
  <2>1. NoStretch \in [first : Int, last : Int, gap : Int] /\ NoStretch.last <= clock
    BY <1>2 DEF NoStretch, None
  <2> HIDE DEF NoStretch
  <2> QED BY <1>2, <2>1 DEF CoveredInv
<1>9. CompletedInv
  BY <1>2 DEF CompletedInv
<1> QED BY <1>1, <1>3, <1>4, <1>5, <1>7, <1>8, <1>9 DEF StoreInv

\* And every step keeps it.
LEMMA StoreNext == StoreInv /\ [Next]_vars => StoreInv'
<1> SUFFICES ASSUME StoreInv, [Next]_vars
             PROVE  StoreInv'
  OBVIOUS
<1> USE DEF StoreInv
<1>1. TypeInv'
  BY TypeNext
<1>2. ServerInv'
  BY StepsMove, ServerNext
<1>3. PlanInv'
  BY PlanNext
<1>4. AnswersInv'
  BY AnswersNext
<1>5. ResultInv'
  BY ResultNext
<1>6. RunsInv'
  BY RunsNext
<1>7. CoveredInv'
  BY CoveredNext
<1>8. BackupsInv'
  BY BackupsNext
<1>9. FreshInv'
  BY FreshNext
<1>10. CompletedInv'
  BY CompletedNext
<1> QED BY <1>1, <1>2, <1>3, <1>4, <1>5, <1>6, <1>7, <1>8, <1>9, <1>10

\* StoreInv is an invariant.
LEMMA StoreHolds == Spec => []StoreInv
BY StoreInit, StoreNext, PTL DEF Spec

\* The run of a job has one key, whatever the job and the round.
LEMMA OneRunKey ==
    ASSUME RunsInv, NEW j \in Jobs, NEW k \in RunKeys(j)
    PROVE  /\ k = RunKey(j) /\ jobs[j].end # None /\ store[k] = RunSource(j)
           /\ store[k].end = jobs[j].end
           /\ store[k].status = JobStatus(jobs[j].outcome.completion, jobs[j].outcome.state,
                                          jobs[j].outcome.exit)
<1>1. k \in DOMAIN store /\ k[1][1] = "job-run" /\ k[2] = <<"job", j>>
  BY DEF RunKeys
<1>2. ShowsRun(k, store[k])
  BY <1>1 DEF RunsInv
<1>3. PICK i \in Jobs :
         /\ jobs[i].end # None /\ k = RunKey(i) /\ k[2] = <<"job", i>>
         /\ store[k] = RunSource(i)
         /\ store[k].end = jobs[i].end
         /\ store[k].status = JobStatus(jobs[i].outcome.completion, jobs[i].outcome.state,
                                        jobs[i].outcome.exit)
  BY <1>2 DEF ShowsRun
<1>4. \A x, y : <<"job", x>> = <<"job", y>> => x = y
  OBVIOUS
<1>5. i = j
  <2>1. <<"job", i>> = <<"job", j>>
    BY <1>1, <1>3
  <2> QED BY <1>4, <2>1
<1> QED BY <1>3, <1>5

\* Overlapping windows and collections on both sides of a month's end leave one
\* document of a run (job_run_month and the id of _iter_job_run_documents).
THEOREM JobRunsAreStoredOnce == Spec => []JobRunStoredOnce
<1>1. ASSUME StoreInv
      PROVE  JobRunStoredOnce
  <2> SUFFICES ASSUME NEW j \in Jobs
               PROVE  Cardinality(RunKeys(j)) <= 1
    BY DEF JobRunStoredOnce
  <2>1. RunKeys(j) \in SUBSET {RunKey(j)}
    BY <1>1, OneRunKey DEF StoreInv
  <2>2. IsFiniteSet({RunKey(j)}) /\ Cardinality({RunKey(j)}) = 1
    BY FS_Singleton
  <2> QED BY <2>1, <2>2, FS_Subset
<1> QED BY <1>1, StoreHolds, PTL

\* No job is lost that ended in the stretch of stored rounds: the queries of two rounds
\* overlap, and what ends after an answer ends after its window.
THEOREM EndedJobsAreStored == Spec => []EndedJobsAreRecorded
<1>1. ASSUME StoreInv
      PROVE  EndedJobsAreRecorded
  <2> SUFFICES ASSUME NEW j \in Jobs, jobs[j].end # None,
                      covered["jobs"].first <= jobs[j].end, jobs[j].end < covered["jobs"].last
               PROVE  \E k \in RunKeys(j) :
                         /\ store[k].end = jobs[j].end
                         /\ store[k].status = JobStatus(jobs[j].outcome.completion,
                                                        jobs[j].outcome.state,
                                                        jobs[j].outcome.exit)
    BY DEF EndedJobsAreRecorded
  <2>1. RunKey(j) \in DOMAIN store
    BY <1>1 DEF StoreInv, CoveredInv
  <2>2. RunKey(j)[1][1] = "job-run" /\ RunKey(j)[2] = <<"job", j>>
    <3>1. PICK d : d = RunDocument(NormalizeJob(JobItem(j)), clock)
      OBVIOUS
    <3>2. Key(d) = RunKey(j) /\ Key(d)[2] = <<"job", j>> /\ d.index[1] = "job-run"
      BY <3>1, RunsAreTrue
    <3> QED BY <3>2, KeysTellIndexes
  <2>3. RunKey(j) \in RunKeys(j)
    BY <2>1, <2>2 DEF RunKeys
  <2> QED BY <1>1, <2>3, OneRunKey DEF StoreInv
<1> QED BY <1>1, StoreHolds, PTL

\* No completed save set is lost that was written fast enough for the queries to see it
\* both begun and complete.
THEOREM CompletedBackupsAreStored == Spec => []CompletedBackupsAreRecorded
<1>1. ASSUME StoreInv
      PROVE  CompletedBackupsAreRecorded
  <2> SUFFICES ASSUME NEW b \in Backups, backups[b].completion # None,
                      covered["backups"].first <= backups[b].save,
                      backups[b].completion < covered["backups"].last,
                      backups[b].completion - backups[b].save + covered["backups"].gap
                         <= BackupsWindow
               PROVE  \E k \in BackupKeys(b) : store[k].completion = backups[b].completion
    BY DEF CompletedBackupsAreRecorded
  <2>1. IsDone(b)
    BY <1>1 DEF StoreInv, CompletedInv
  <2>2. PICK k : k = DoneKey(b)
    OBVIOUS
  <2>3. /\ k \in DOMAIN store /\ store[k].completion = backups[b].completion
        /\ k[1][1] = "backup"
    BY <2>1, <2>2, KeysTellIds DEF IsDone, DoneKey
  <2>4. ShowsBackup(k, store[k])
    BY <1>1, <2>3 DEF StoreInv, BackupsInv
  <2>5. PICK c \in Backups :
           /\ store[k].client = BackupInfo[c].client /\ store[k].save_set = BackupInfo[c].name
           /\ k = BackupKey(c, backups[c].save, backups[c].completion)
    BY <2>3, <2>4 DEF ShowsBackup
  <2>6. PICK t : t = backups[b].completion
    OBVIOUS
  <2>7. PICK u : u = backups[c].completion
    OBVIOUS
  <2>8. BackupId(b, t) = BackupId(c, u) /\ BackupId(b, t) # NoIdentity
    <3>1. BackupKey(b, backups[b].save, t) = BackupKey(c, backups[c].save, u)
      BY <2>2, <2>5, <2>6, <2>7 DEF DoneKey
    <3>2. BackupId(b, t) # NoIdentity
      BY <2>6 DEF BackupId, NoIdentity
    <3> QED BY <3>1, <3>2, EqualKeys
  <2>9. BackupInfo[b].client = BackupInfo[c].client /\ BackupInfo[b].name = BackupInfo[c].name
    <3>1. CASE BackupInfo[b].id = ""
      BY <2>8, <3>1, IdsTellNames
    <3>2. CASE BackupInfo[b].id # ""
      <4>1. b = c
        BY <2>8, <3>2, IdsTellBackups
      <4> QED BY <4>1
    <3> QED BY <3>1, <3>2
  <2>10. k \in BackupKeys(b)
    BY <2>3, <2>5, <2>9 DEF BackupKeys
  <2> QED BY <2>3, <2>10
<1> QED BY <1>1, StoreHolds, PTL

\* A later time is in a later month, or in the same.
LEMMA MonthsFollow ==
    ASSUME NEW s \in Nat, NEW t \in Nat, s <= t
    PROVE  Month(s) \in Nat /\ Month(t) \in Nat /\ Month(s) <= Month(t)
<1>1. PICK n \in Nat \ {0} : n = MonthLength
  BY MonthAssumption
<1>2. PICK p \in Nat : p = s \div n /\ n * p <= s
  OBVIOUS
<1>3. PICK q \in Nat : q = t \div n /\ t < n * q + n
  OBVIOUS
<1>4. ASSUME q < p
      PROVE  FALSE
  <2>1. (q + 1) * n <= p * n
    BY <1>4, Products
  <2>2. (q + 1) * n = n * q + n /\ p * n = n * p
    OBVIOUS
  <2> QED BY <1>2, <1>3, <2>1, <2>2
<1> QED BY <1>1, <1>2, <1>3, <1>4 DEF Month

\* Where the names tell the save sets apart, one is stored twice only if it has an id and
\* was written across the end of a month (BackupMonth and BackupIdentity of one answer and
\* of a later one).
THEOREM BackupsMoveAtMonthEnds ==
    ASSUME \A b, c \in Backups : (/\ BackupInfo[b].client = BackupInfo[c].client
                                  /\ BackupInfo[b].name = BackupInfo[c].name) => b = c
    PROVE  Spec => []BackupsMoveAtMonthEndOnly
<1>1. ASSUME StoreInv
      PROVE  BackupsMoveAtMonthEndOnly
  <2> SUFFICES ASSUME NEW b \in Backups, Cardinality(BackupKeys(b)) > 1
               PROVE  /\ BackupInfo[b].id # ""
                      /\ Month(backups[b].save) < Month(backups[b].completion)
                      /\ Cardinality(BackupKeys(b)) = 2
                      /\ \E k \in BackupKeys(b) : store[k].completion = None
    BY DEF BackupsMoveAtMonthEndOnly
  <2> DEFINE open == BackupKey(b, backups[b].save, None)
             done == BackupKey(b, backups[b].save, backups[b].completion)
             keys == BackupKeys(b)
  <2>1. ASSUME NEW k \in keys
        PROVE  \/ /\ backups[b].save # None /\ BackupInfo[b].id # ""
                  /\ k = open /\ store[k].completion = None
               \/ /\ backups[b].completion # None /\ k = done
    <3>1. /\ k \in DOMAIN store /\ k[1][1] = "backup"
          /\ store[k].client = BackupInfo[b].client /\ store[k].save_set = BackupInfo[b].name
      BY DEF BackupKeys
    <3>2. ShowsBackup(k, store[k])
      BY <1>1, <3>1 DEF StoreInv, BackupsInv
    <3>3. PICK c \in Backups :
             /\ store[k].client = BackupInfo[c].client /\ store[k].save_set = BackupInfo[c].name
             /\ \/ /\ backups[c].save # None /\ BackupInfo[c].id # ""
                   /\ k = BackupKey(c, backups[c].save, None) /\ store[k].completion = None
                \/ /\ backups[c].completion # None
                   /\ k = BackupKey(c, backups[c].save, backups[c].completion)
      BY <3>2 DEF ShowsBackup
    <3>4. c = b
      BY <3>1, <3>3
    <3> QED BY <3>3, <3>4
  <2> HIDE DEF open, done, keys
  <2>2. keys \in SUBSET {open, done} /\ Cardinality(keys) > 1
    BY <2>1 DEF keys
  <2>3. /\ IsFiniteSet({open, done}) /\ IsFiniteSet({done}) /\ Cardinality({done}) = 1
        /\ IsFiniteSet({open}) /\ Cardinality({open}) = 1
    <3>1. /\ IsFiniteSet({done}) /\ Cardinality({done}) = 1
          /\ IsFiniteSet({open}) /\ Cardinality({open}) = 1
      BY FS_Singleton
    <3>2. IsFiniteSet({open} \cup {done})
      BY <3>1, FS_Union
    <3>3. {open, done} = {open} \cup {done}
      OBVIOUS
    <3> QED BY <3>1, <3>2, <3>3
  <2>4. Cardinality(keys) <= Cardinality({open, done}) /\ Cardinality(keys) \in Nat
    BY <2>2, <2>3, FS_Subset, FS_CardinalityType
  <2>5. ~(keys \in SUBSET {open}) /\ ~(keys \in SUBSET {done})
    BY <2>2, <2>3, <2>4, FS_Subset
  <2>6. open \in keys /\ done \in keys /\ open # done
    BY <2>2, <2>5
  <2>7. Cardinality({open, done}) = 2
    <3>1. Cardinality({open} \cup {done}) = Cardinality({open}) + 1
      BY <2>3, <2>6, FS_AddElement
    <3>2. {open, done} = {open} \cup {done}
      OBVIOUS
    <3>3. Cardinality({open, done}) = Cardinality({open}) + 1
      BY <3>1, <3>2
    <3>4. PICK n : n = Cardinality({open, done})
      OBVIOUS
    <3>5. PICK m : m = Cardinality({open})
      OBVIOUS
    <3>6. m = 1 /\ n = m + 1
      BY <2>3, <3>3, <3>4, <3>5
    <3>7. n = 2
      BY <3>6
    <3> QED BY <3>4, <3>7
  <2>8. Cardinality(keys) = 2
    BY <2>2, <2>4, <2>7
  <2>9. /\ backups[b].save # None /\ BackupInfo[b].id # "" /\ store[open].completion = None
        /\ backups[b].completion # None
    BY <2>1, <2>6
  <2>10. /\ backups[b].save \in Nat /\ backups[b].completion \in Nat
         /\ backups[b].save <= backups[b].completion
    <3>1. backups \in [Backups -> [save : {None} \cup Times, completion : {None} \cup Times]]
      BY <1>1 DEF StoreInv, TypeInv, TypeOK, ServerTypeOK
    <3>2. backups[b].save \in Times /\ backups[b].completion \in Times
      BY <2>9, <3>1
    <3>3. backups[b].save <= backups[b].completion
      BY <1>1, <2>9 DEF StoreInv, ServerInv
    <3> QED BY <3>2, <3>3, HorizonAssumption DEF Times
  <2>11. Month(backups[b].save) # Month(backups[b].completion)
    <3>1. BackupId(b, None) = BackupId(b, backups[b].completion)
      BY <2>9 DEF BackupId
    <3>2. /\ OrTime(None, backups[b].save) = backups[b].save
          /\ OrTime(backups[b].completion, backups[b].save) = backups[b].completion
      BY <2>9 DEF OrTime, Nothing, None
    <3> QED BY <2>6, <3>1, <3>2 DEF BackupKey, open, done
  <2>12. Month(backups[b].save) < Month(backups[b].completion)
    BY <2>10, <2>11, MonthsFollow
  <2> QED BY <2>6, <2>8, <2>9, <2>12 DEF keys
<1> QED BY <1>1, StoreHolds, PTL

\* Where the collector asks for the jobs, the stored count is that of the server in the
\* window of the stored round, the last second perhaps excepted, or not known: neither a
\* failed query (_mark_failed_endpoint_counts_unknown) nor an error shows as "no jobs".
THEOREM StoredCountsAreTrue ==
    ASSUME "jobs" \in ToSet(Endpoints)
    PROVE  Spec => []CurrentCountIsTheServers
<1> DEFINE Inv == StoreInv /\ CurrentInv
<1>1. Init => Inv
  <2>1. Init => DOMAIN store = {}
    BY DEF Init
  <2>2. Init => CurrentInv
    BY <2>1 DEF CurrentInv
  <2> QED BY <2>2, StoreInit
<1>2. Inv /\ [Next]_vars => Inv'
  <2>1. StoreInv /\ CurrentInv /\ [Next]_vars => CurrentInv'
    BY CurrentNext DEF StoreInv
  <2> QED BY <2>1, StoreNext
<1>3. ASSUME Inv
      PROVE  CurrentCountIsTheServers
  <2> SUFFICES ASSUME CurrentKey \in DOMAIN store, NEW source, source = store[CurrentKey],
                      source.ok, source.summary.job_count # Unknown
               PROVE  LET to == source.summary.query_end
                      IN  source.summary.job_count \in
                             Cardinality(EndedIn(to - JobsWindow, to - 1))
                                ..Cardinality(EndedIn(to - JobsWindow, to))
    BY DEF CurrentCountIsTheServers, EndedIn
  <2> DEFINE to == source.summary.query_end
             early == EndedIn(to - JobsWindow, to - 1)
             all == EndedIn(to - JobsWindow, to)
  <2>1. CountIsTrue(source)
    BY <1>3 DEF CurrentInv
  <2>2. /\ source.summary.job_count \in Nat
        /\ Cardinality(early) <= source.summary.job_count
        /\ source.summary.job_count <= Cardinality(all)
    BY <2>1 DEF CountIsTrue
  <2>3. early \in SUBSET Jobs /\ all \in SUBSET Jobs
    BY DEF EndedIn
  <2> HIDE DEF early, all
  <2>4. Cardinality(early) \in Nat /\ Cardinality(all) \in Nat
    BY <2>3, ServerAssumption, FS_Subset, FS_CardinalityType
  <2>5. source.summary.job_count \in Cardinality(early)..Cardinality(all)
    BY <2>2, <2>4
  <2> QED BY <2>5 DEF early, all
<1> QED BY <1>1, <1>2, <1>3, PTL DEF Spec

-----------------------------------------------------------------------------
(* The report.                                                             *)

\* What is counted by its key in each of some classes adds up to what there is.
LEMMA ClassesAddUp ==
    ASSUME NEW S, IsFiniteSet(S), NEW K, NEW key \in [S -> K], NEW numbers,
           DOMAIN numbers = K,
           \A x \in K : numbers[x] = Cardinality({s \in S : key[s] = x})
    PROVE  Total(numbers) = Cardinality(S)
<1> DEFINE class(x) == {s \in S : key[s] = x}
           U == Things(numbers)
           numbering == [x \in K |-> CHOOSE f : f \in Bijection(1..numbers[x], class(x))]
           F == [p \in U |-> numbering[p[1]][p[2]]]
<1>1. ASSUME NEW x \in K
      PROVE  \E f : f \in Bijection(1..numbers[x], class(x))
  <2>1. class(x) \in SUBSET S
    OBVIOUS
  <2>2. ExistsBijection(1..Cardinality(class(x)), class(x))
    BY <2>1, FS_Subset, FS_CardinalityType
  <2>3. numbers[x] = Cardinality(class(x))
    OBVIOUS
  <2> QED BY <2>2, <2>3 DEF ExistsBijection
<1>2. ASSUME NEW x \in K
      PROVE  /\ numbering[x] \in [1..numbers[x] -> class(x)]
             /\ \A m, n \in 1..numbers[x] : numbering[x][m] = numbering[x][n] => m = n
             /\ \A s \in class(x) : \E n \in 1..numbers[x] : numbering[x][n] = s
  <2>1. numbering[x] \in Bijection(1..numbers[x], class(x))
    BY <1>1
  <2> HIDE DEF numbering, class
  <2> QED BY <2>1 DEF Bijection, Injection, Surjection, IsInjective
<1>3. \A p : p \in U <=> \E x \in K : \E n \in 1..numbers[x] : p = <<x, n>>
  BY DEF Things
<1>4. \A x \in K : \A n \in 1..numbers[x] : F[<<x, n>>] = numbering[x][n]
  <2>1. \A x \in K : \A n \in 1..numbers[x] : <<x, n>> \in U
    BY <1>3
  <2> HIDE DEF U, numbering
  <2> QED BY <2>1
<1> HIDE DEF U, numbering
<1>5. \A x \in K : \A n \in 1..numbers[x] :
          numbering[x][n] \in S /\ key[numbering[x][n]] = x
  <2> SUFFICES ASSUME NEW x \in K, NEW n \in 1..numbers[x]
               PROVE  numbering[x][n] \in class(x)
    OBVIOUS
  <2> HIDE DEF class
  <2> QED BY <1>2
<1>6. F \in [U -> S] /\ \A p, q \in U : F[p] = F[q] => p = q
  <2>1. ASSUME NEW p \in U
        PROVE  F[p] \in S
    <3>1. PICK x \in K : \E n \in 1..numbers[x] : p = <<x, n>>
      BY <1>3
    <3>2. PICK n \in 1..numbers[x] : p = <<x, n>>
      BY <3>1
    <3>3. F[p] = numbering[x][n]
      BY <1>4, <3>2
    <3> QED BY <1>5, <3>3
  <2>2. ASSUME NEW p \in U, NEW q \in U, F[p] = F[q]
        PROVE  p = q
    <3>1. PICK x \in K : \E n \in 1..numbers[x] : p = <<x, n>>
      BY <1>3
    <3>2. PICK n \in 1..numbers[x] : p = <<x, n>>
      BY <3>1
    <3>3. PICK y \in K : \E m \in 1..numbers[y] : q = <<y, m>>
      BY <1>3
    <3>4. PICK m \in 1..numbers[y] : q = <<y, m>>
      BY <3>3
    <3>5. F[p] = numbering[x][n] /\ F[q] = numbering[y][m]
      BY <1>4, <3>2, <3>4
    <3> HIDE DEF F
    <3>6. key[numbering[x][n]] = x /\ key[numbering[y][m]] = y
      BY <1>5
    <3>7. x = y
      BY <2>2, <3>5, <3>6
    <3>8. n = m
      <4>1. m \in 1..numbers[x] /\ numbering[x][n] = numbering[x][m]
        BY <2>2, <3>5, <3>7
      <4> QED BY <1>2, <4>1
    <3> QED BY <3>2, <3>4, <3>7, <3>8
  <2> QED BY <2>1, <2>2
<1>7. \A s \in S : \E p \in U : F[p] = s
  <2> SUFFICES ASSUME NEW s \in S
               PROVE  \E p \in U : F[p] = s
    OBVIOUS
  <2>1. key[s] \in K /\ s \in class(key[s])
    OBVIOUS
  <2>2. PICK n \in 1..numbers[key[s]] : numbering[key[s]][n] = s
    BY <1>2, <2>1
  <2>3. <<key[s], n>> \in U /\ F[<<key[s], n>>] = s
    BY <1>3, <1>4, <2>1, <2>2
  <2> QED BY <2>3
<1> HIDE DEF F
<1>8. F \in Bijection(U, S)
  BY <1>6, <1>7, Fun_IsBij
<1>9. ExistsBijection(S, U)
  BY <1>8, Fun_ExistsBij, Fun_ExistsBijSymmetric
<1>10. Cardinality(U) = Cardinality(S)
  BY <1>9, FS_Bijection
<1> QED BY <1>10 DEF Total, U

\* Of the policies of some records.
LEMMA PoliciesAddUp ==
    ASSUME NEW records, NEW places, IsFiniteSet(places)
    PROVE  Total(CountByPolicy(records, places)) = Cardinality(places)
<1> DEFINE policies == {Named(records[i].policy) : i \in places}
           policy == [i \in places |-> Named(records[i].policy)]
           numbers == CountByPolicy(records, places)
<1>1. policy \in [places -> policies] /\ DOMAIN numbers = policies
  BY DEF CountByPolicy
<1>2. ASSUME NEW p \in policies
      PROVE  numbers[p] = Cardinality({i \in places : policy[i] = p})
  <2>1. {i \in places : policy[i] = p} = {i \in places : Named(records[i].policy) = p}
    OBVIOUS
  <2>2. numbers[p] = Cardinality({i \in places : Named(records[i].policy) = p})
    BY DEF CountByPolicy
  <2> QED BY <2>1, <2>2
<1> HIDE DEF policies, policy, numbers
<1>3. Total(numbers) = Cardinality(places)
  BY <1>1, <1>2, ClassesAddUp
<1> QED BY <1>3 DEF numbers

\* Of the rows of a report, when every record has its row.
LEMMA RowsAddUp ==
    ASSUME NEW records, NEW places, IsFiniteSet(places),
           NEW keys, \A i \in places : RowKey(records[i]) \in keys
    PROVE  Total([key \in keys |-> Cardinality(AtKey(records, places, key))])
             = Cardinality(places)
<1> DEFINE row == [i \in places |-> RowKey(records[i])]
           numbers == [key \in keys |-> Cardinality(AtKey(records, places, key))]
<1>1. row \in [places -> keys] /\ DOMAIN numbers = keys
  OBVIOUS
<1>2. ASSUME NEW key \in keys
      PROVE  numbers[key] = Cardinality({i \in places : row[i] = key})
  <2>1. {i \in places : row[i] = key} = AtKey(records, places, key)
    BY DEF AtKey
  <2> QED BY <2>1
<1> HIDE DEF row, numbers
<1>3. Total(numbers) = Cardinality(places)
  BY <1>1, <1>2, ClassesAddUp
<1> QED BY <1>3 DEF numbers

\* Of the bytes of the save sets in these rows.
LEMMA BytesAddUp ==
    ASSUME NEW records, NEW places, IsFiniteSet(places),
           \A i \in places : SizeOf(records[i]) \in Nat,
           NEW keys, \A i \in places : RowKey(records[i]) \in keys,
           NEW numbers, DOMAIN numbers = keys,
           \A key \in keys : numbers[key] = BytesOf(records, AtKey(records, places, key))
    PROVE  Total(numbers) = BytesOf(records, places)
<1> DEFINE sizes(some) == [i \in some |-> SizeOf(records[i])]
           bytes == Things(sizes(places))
           row == [u \in bytes |-> RowKey(records[u[1]])]
<1>1. \A u : u \in bytes <=> \E i \in places : \E n \in 1..SizeOf(records[i]) : u = <<i, n>>
  BY DEF Things
<1>2. IsFiniteSet(bytes)
  <2> DEFINE part == [i \in places |-> {i} \X (1..SizeOf(records[i]))]
             parts == {part[i] : i \in places}
  <2>1. part \in Surjection(places, parts)
    <3>1. part \in [places -> parts] /\ \A t \in parts : \E i \in places : part[i] = t
      OBVIOUS
    <3> HIDE DEF part, parts
    <3> QED BY <3>1, Fun_IsSurj
  <2>2. IsFiniteSet(parts)
    BY <2>1, FS_Surjection
  <2>3. ASSUME NEW i \in places
        PROVE  IsFiniteSet(part[i])
    <3>1. IsFiniteSet({i})
      BY FS_Singleton
    <3>2. IsFiniteSet(1..SizeOf(records[i]))
      <4>1. \A n \in Nat : IsFiniteSet(1..n)
        BY FS_Interval
      <4> QED BY <4>1
    <3> QED BY <3>1, <3>2, FS_Product
  <2>4. bytes = UNION parts
    BY DEF Things
  <2> HIDE DEF part, bytes
  <2> QED BY <2>2, <2>3, <2>4, FS_UNION
<1>3. row \in [bytes -> keys]
  <2>1. ASSUME NEW u \in bytes
        PROVE  RowKey(records[u[1]]) \in keys
    <3>1. PICK i \in places : \E n \in 1..SizeOf(records[i]) : u = <<i, n>>
      BY <1>1
    <3>2. u[1] = i
      BY <3>1
    <3> QED BY <3>2
  <2> HIDE DEF bytes
  <2> QED BY <2>1
<1>4. ASSUME NEW key \in keys
      PROVE  numbers[key] = Cardinality({u \in bytes : row[u] = key})
  <2> DEFINE some == AtKey(records, places, key)
  <2>1. \A u : u \in Things(sizes(some))
                 <=> \E i \in some : \E n \in 1..SizeOf(records[i]) : u = <<i, n>>
    BY DEF Things
  <2>2. \A i : i \in some <=> i \in places /\ RowKey(records[i]) = key
    BY DEF AtKey
  <2>3. \A u \in bytes : row[u] = RowKey(records[u[1]])
    OBVIOUS
  <2>4. \A i, n : <<i, n>>[1] = i
    OBVIOUS
  <2> HIDE DEF bytes, row, some, sizes
  <2>5. ASSUME NEW u
        PROVE  u \in Things(sizes(some)) <=> u \in bytes /\ row[u] = key
    <3>1. ASSUME u \in Things(sizes(some))
          PROVE  u \in bytes /\ row[u] = key
      <4>1. PICK i \in some : \E n \in 1..SizeOf(records[i]) : u = <<i, n>>
        BY <2>1, <3>1
      <4>2. i \in places /\ RowKey(records[i]) = key
        BY <2>2
      <4>3. u \in bytes
        BY <1>1, <4>1, <4>2
      <4>4. u[1] = i
        BY <2>4, <4>1
      <4> QED BY <2>3, <4>2, <4>3, <4>4
    <3>2. ASSUME u \in bytes, row[u] = key
          PROVE  u \in Things(sizes(some))
      <4>1. PICK i \in places : \E n \in 1..SizeOf(records[i]) : u = <<i, n>>
        BY <1>1, <3>2
      <4>2. u[1] = i
        BY <2>4, <4>1
      <4>3. i \in some
        BY <2>2, <2>3, <3>2, <4>2
      <4> QED BY <2>1, <4>1, <4>3
    <3> QED BY <3>1, <3>2
  <2>6. Things(sizes(some)) = {u \in bytes : row[u] = key}
    BY <2>5
  <2>7. numbers[key] = Cardinality(Things(sizes(some)))
    BY DEF BytesOf, Total, some, sizes
  <2> QED BY <2>6, <2>7
<1>5. BytesOf(records, places) = Cardinality(bytes)
  BY DEF BytesOf, Total
<1> HIDE DEF bytes, row
<1>6. Total(numbers) = Cardinality(bytes)
  BY <1>2, <1>3, <1>4, ClassesAddUp
<1> QED BY <1>5, <1>6

\* The rows of a report add up to a summary.
AddsUp(report, summary) ==
    LET keys == DOMAIN report
    IN  /\ Total([key \in keys |-> report[key].success]) = Total(summary.success)
        /\ Total([key \in keys |-> report[key].failed]) = Total(summary.failed)
        /\ Total([key \in keys |-> report[key].running]) = Total(summary.running)
        /\ Total([key \in keys |-> report[key].workflows]) = Total(summary.workflows)
        /\ Total([key \in keys |-> report[key].bytes]) = summary.total_backup_bytes

\* The report of some records adds up to their summary.
LEMMA ReportsOfLists ==
    ASSUME NEW records, records \in Seq(ToSet(records)),
           NEW workflows, workflows \in Seq(ToSet(workflows)),
           NEW saved, saved \in Seq(ToSet(saved)),
           \A i \in DOMAIN saved : SizeOf(saved[i]) \in Nat,
           NEW clients, NEW policies
    PROVE  AddsUp(MonthlyReport(records, clients, workflows, saved),
                  BuildSummary(records, clients, policies, workflows, saved))
<1> DEFINE keys == ReportKeys(records, workflows, saved)
           report == MonthlyReport(records, clients, workflows, saved)
           summary == BuildSummary(records, clients, policies, workflows, saved)
           with(status) == WithStatus(records, status)
<1>1. /\ \A i \in DOMAIN records : RowKey(records[i]) \in keys
      /\ \A i \in DOMAIN workflows : RowKey(workflows[i]) \in keys
      /\ \A i \in DOMAIN saved : RowKey(saved[i]) \in keys
  BY DEF ReportKeys, ToSet
<1>2. /\ IsFiniteSet(DOMAIN records) /\ IsFiniteSet(DOMAIN workflows)
      /\ IsFiniteSet(DOMAIN saved)
  BY ListsAreNumbered
<1>3. DOMAIN report = keys
  BY DEF MonthlyReport
<1>4. ASSUME NEW key \in keys
      PROVE  /\ report[key].success = Cardinality(AtKey(records, with("success"), key))
             /\ report[key].failed = Cardinality(AtKey(records, with("failed"), key))
             /\ report[key].running = Cardinality(AtKey(records, with("running"), key))
             /\ report[key].workflows = Cardinality(AtKey(workflows, DOMAIN workflows, key))
             /\ report[key].bytes = BytesOf(saved, AtKey(saved, DOMAIN saved, key))
  BY DEF MonthlyReport, ReportRow
<1>5. /\ summary.success = CountByPolicy(records, with("success"))
      /\ summary.failed = CountByPolicy(records, with("failed"))
      /\ summary.running = CountByPolicy(records, with("running"))
      /\ summary.workflows = CountByPolicy(workflows, DOMAIN workflows)
      /\ summary.total_backup_bytes = BytesOf(saved, DOMAIN saved)
  BY DEF BuildSummary
<1> HIDE DEF keys, report, summary
<1>6. ASSUME NEW status
      PROVE  Total([key \in keys |-> Cardinality(AtKey(records, with(status), key))])
               = Total(CountByPolicy(records, with(status)))
  <2>1. with(status) \in SUBSET DOMAIN records
    BY DEF WithStatus
  <2>2. IsFiniteSet(with(status))
    BY <1>2, <2>1, FS_Subset
  <2>3. \A i \in with(status) : RowKey(records[i]) \in keys
    BY <1>1, <2>1
  <2> HIDE DEF with
  <2> QED BY <2>2, <2>3, RowsAddUp, PoliciesAddUp
<1> HIDE DEF with
<1>7. Total([key \in keys |-> report[key].success]) = Total(summary.success)
  <2>1. [key \in keys |-> report[key].success]
          = [key \in keys |-> Cardinality(AtKey(records, with("success"), key))]
    BY <1>4
  <2> QED BY <1>5, <1>6, <2>1
<1>8. Total([key \in keys |-> report[key].failed]) = Total(summary.failed)
  <2>1. [key \in keys |-> report[key].failed]
          = [key \in keys |-> Cardinality(AtKey(records, with("failed"), key))]
    BY <1>4
  <2> QED BY <1>5, <1>6, <2>1
<1>9. Total([key \in keys |-> report[key].running]) = Total(summary.running)
  <2>1. [key \in keys |-> report[key].running]
          = [key \in keys |-> Cardinality(AtKey(records, with("running"), key))]
    BY <1>4
  <2> QED BY <1>5, <1>6, <2>1
<1>10. Total([key \in keys |-> report[key].workflows]) = Total(summary.workflows)
  <2>1. [key \in keys |-> report[key].workflows]
          = [key \in keys |-> Cardinality(AtKey(workflows, DOMAIN workflows, key))]
    BY <1>4
  <2>2. Total([key \in keys |-> report[key].workflows]) = Cardinality(DOMAIN workflows)
    <3>1. IsFiniteSet(DOMAIN workflows) /\ \A i \in DOMAIN workflows : RowKey(workflows[i]) \in keys
      BY <1>1, <1>2
    <3>2. Total([key \in keys |-> Cardinality(AtKey(workflows, DOMAIN workflows, key))])
            = Cardinality(DOMAIN workflows)
      BY <3>1, RowsAddUp
    <3> QED BY <2>1, <3>2
  <2>3. Total(summary.workflows) = Cardinality(DOMAIN workflows)
    BY <1>2, <1>5, PoliciesAddUp
  <2> QED BY <2>2, <2>3
<1>11. Total([key \in keys |-> report[key].bytes]) = summary.total_backup_bytes
  <2> DEFINE numbers == [key \in keys |-> report[key].bytes]
  <2>1. /\ DOMAIN numbers = keys
        /\ \A key \in keys : numbers[key] = BytesOf(saved, AtKey(saved, DOMAIN saved, key))
    BY <1>4
  <2> HIDE DEF numbers
  <2>2. Total(numbers) = BytesOf(saved, DOMAIN saved)
    BY <1>1, <1>2, <2>1, BytesAddUp
  <2> QED BY <1>5, <2>2 DEF numbers
<1> QED BY <1>3, <1>7, <1>8, <1>9, <1>10, <1>11 DEF AddsUp, report, summary

\* A save set has the size that it is known by, or none.
LEMMA SavedBytesAreNumbers ==
    ASSUME TypeInv, round # NoRound, AnswersInv
    PROVE  LET saved == ParsePayload(round.responses).backups
           IN  \A i \in DOMAIN saved : SizeOf(saved[i]) \in Nat
<1> DEFINE saved == ParsePayload(round.responses).backups
           items == Items(round.responses, "backups")
<1>1. /\ DOMAIN saved = DOMAIN items
      /\ \A i \in DOMAIN items : saved[i] = NormalizeBackup(items[i])
  BY PayloadsAreLists DEF AnswersInv
<1>2. SUFFICES ASSUME NEW i \in DOMAIN saved
               PROVE  SizeOf(saved[i]) \in Nat
  OBVIOUS
<1> HIDE DEF saved
<1>3. saved[i].size = items[i].size
  <2>1. \A x : NormalizeBackup(x).size = x.size
    BY DEF NormalizeBackup
  <2> QED BY <1>1, <2>1
<1>4. "backups" \in DOMAIN round.responses
  BY <1>1 DEF Items
<1>5. SizeOf(saved[i]) \in Nat
  <2>1. /\ items = round.responses["backups"]
        /\ BackupsAnswered(items, round.windowEnd)
    BY <1>4 DEF Items, AnswersInv
  <2> HIDE DEF items
  <2>2. items[i] \in ToSet(items)
    BY <1>1 DEF ToSet
  <2>3. PICK b \in Backups : items[i] = OpenItem(b) \/ items[i] = BackupItem(b)
    BY <2>1, <2>2 DEF BackupsAnswered
  <2>4. "size" \in DOMAIN BackupInfo[b] /\ BackupInfo[b].size \in {None} \cup Nat
    BY BackupsAssumption
  <2>5. OpenItem(b).size = BackupInfo[b].size
    BY <2>4 DEF OpenItem, Over
  <2>6. BackupItem(b).size = BackupInfo[b].size
    <3>1. DOMAIN backups[b] = {"save", "completion"}
      BY DEF TypeInv, TypeOK, ServerTypeOK
    <3> QED BY <2>4, <3>1 DEF BackupItem, Over
  <2>7. saved[i].size \in {None} \cup Nat
    BY <1>3, <2>3, <2>4, <2>5, <2>6
  <2> QED BY <2>7 DEF SizeOf, None, Nothing
<1> QED BY <1>5

\* The rows of the report add up to the summary: every job, workflow and save set is in
\* one row of _build_monthly_report, also that of a policy that is not configured, and
\* the counts of _build_summary by policy are those of the same records.
THEOREM ReportsAddUp == Spec => []ReportAddsUp
<1>1. ASSUME StoreInv
      PROVE  ReportAddsUp
  <2> SUFFICES ASSUME result # NoResult, result.ok
               PROVE  ReportAddsUp
    BY DEF ReportAddsUp
  <2> USE DEF StoreInv
  <2> DEFINE parsed == ParsePayload(round.responses)
             records == MapSeq(Items(round.responses, "jobs"), NormalizeJob)
             clients == MapSeq(Items(round.responses, "clients"), NormalizeClient)
             policies == MapSeq(Items(round.responses, "policies"), NormalizePolicy)
             workflows == NormalizeWorkflows(Items(round.responses, "policies"))
             saved == MapSeq(Items(round.responses, "backups"), NormalizeBackup)
  <2>1. /\ round # NoRound /\ result.payload = parsed
        /\ result.summary = Over(MarkFailedCounts(parsed.summary, round.errors),
                                 [query_end |-> round.windowEnd])
    BY <1>1 DEF ResultInv
  <2>2. /\ parsed.jobs = records /\ parsed.workflows = workflows /\ parsed.backups = saved
        /\ parsed.report = MonthlyReport(records, clients, workflows, saved)
        /\ parsed.summary = BuildSummary(records, clients, policies, workflows, saved)
    BY DEF ParsePayload
  <2> HIDE DEF parsed, records, clients, policies, workflows, saved
  <2>3. /\ records \in Seq(ToSet(records)) /\ workflows \in Seq(ToSet(workflows))
        /\ saved \in Seq(ToSet(saved))
    BY <1>1, <2>1, <2>2, PayloadsAreLists DEF AnswersInv, parsed
  <2>4. \A i \in DOMAIN saved : SizeOf(saved[i]) \in Nat
    BY <1>1, <2>1, <2>2, SavedBytesAreNumbers DEF parsed
  <2>5. /\ result.summary.success = parsed.summary.success
        /\ result.summary.failed = parsed.summary.failed
        /\ result.summary.running = parsed.summary.running
        /\ result.summary.workflows = parsed.summary.workflows
        /\ result.summary.total_backup_bytes = IF "backups" \in round.errors THEN Unknown
                                               ELSE parsed.summary.total_backup_bytes
    BY <2>1, MarkedCounts DEF parsed
  <2>6. AddsUp(parsed.report, parsed.summary)
    BY <2>2, <2>3, <2>4, ReportsOfLists
  <2> QED BY <2>1, <2>5, <2>6 DEF ReportAddsUp, AddsUp
<1> QED BY <1>1, StoreHolds, PTL

-----------------------------------------------------------------------------
(* The ledger of runs.                                                      *)

\* A round asks over a window that ends no earlier than the stored stretch.
RoundIsLater == round # NoRound => covered["jobs"].last <= round.windowEnd

\* It begins with the clock, and the stretch is extended when it is over.
LEMMA RoundsAreLater ==
    TypeInv /\ CoveredInv /\ RoundIsLater /\ [Next]_vars => RoundIsLater'
<1> SUFFICES ASSUME TypeInv, CoveredInv, RoundIsLater, [Next]_vars, round' # NoRound
             PROVE  covered["jobs"]'.last <= round'.windowEnd
  BY DEF RoundIsLater
<1>1. covered["jobs"].last <= clock
  BY DEF CoveredInv, TimedEndpoints
<1>2. CASE \E class \in schedules : Begin(class)
  <2>1. PICK class \in schedules : Begin(class)
    BY <1>2
  <2>2. round'.windowEnd = clock /\ covered' = covered
    BY <2>1, BeginFields
  <2> QED BY <1>1, <2>2
<1>3. CASE SendRequest \/ AnswerArrives \/ RequestFails \/ Retry
  <2>1. /\ round # NoRound /\ round'.windowEnd = round.windowEnd
        /\ covered' = covered
    BY <1>3, FetchFields DEF TypeInv
  <2> QED BY <2>1 DEF RoundIsLater
<1>4. CASE \/ Collect \/ CollectRaises \/ ServerChanges \/ TimePasses
           \/ UNCHANGED vars
  <2>1. round' = round /\ covered' = covered
    BY <1>4 DEF Collect, CollectRaises, ServerChanges, TimePasses, Tick, vars, clientvars, history
  <2> QED BY <2>1 DEF RoundIsLater
<1>5. CASE Write \/ WriteFails \/ Restart
  BY <1>5 DEF Write, WriteFails, Restart
<1> QED BY <1>2, <1>3, <1>4, <1>5 DEF Next, Process

LedgerInv == StoreInv /\ RoundIsLater

\* LedgerInv is an invariant.
LEMMA LedgerHolds == Spec => []LedgerInv
<1>1. Init => RoundIsLater
  BY DEF Init, RoundIsLater
<1>2. LedgerInv /\ [Next]_vars => LedgerInv'
  <2>1. StoreInv /\ RoundIsLater /\ [Next]_vars => RoundIsLater'
    BY RoundsAreLater DEF StoreInv
  <2> QED BY <2>1, StoreNext DEF LedgerInv
<1>3. Init => LedgerInv
  BY <1>1, StoreInit DEF LedgerInv
<1> QED BY <1>2, <1>3, PTL DEF Spec

\* The jobs that ended, as the ledger knows them.
LEMMA EndedRunsAre ==
    /\ DOMAIN EndedRuns = {j \in Jobs : jobs[j].end # None}
    /\ \A j \in DOMAIN EndedRuns :
          /\ EndedRuns[j].end = jobs[j].end
          /\ EndedRuns[j].status = JobStatus(jobs[j].outcome.completion, jobs[j].outcome.state,
                                             jobs[j].outcome.exit)
BY DEF EndedRuns

\* The entries of the ledger are the stored runs, each with its job.
EntriesAreRuns ==
    \A e \in RunEntries :
        /\ e.job \in Jobs /\ jobs[e.job].end # None
        /\ e = [job |-> e.job, key |-> RunKey(e.job), document |-> RunSource(e.job)]
        /\ e.document.end = jobs[e.job].end
        /\ e.document.status = JobStatus(jobs[e.job].outcome.completion,
                                         jobs[e.job].outcome.state, jobs[e.job].outcome.exit)

\* RunsInv says so.
LEMMA StoredRunsAreEntries == RunsInv => EntriesAreRuns
<1> SUFFICES ASSUME RunsInv, NEW e \in RunEntries
             PROVE  /\ e.job \in Jobs /\ jobs[e.job].end # None
                    /\ e = [job |-> e.job, key |-> RunKey(e.job), document |-> RunSource(e.job)]
                    /\ e.document.end = jobs[e.job].end
                    /\ e.document.status =
                          JobStatus(jobs[e.job].outcome.completion,
                                    jobs[e.job].outcome.state, jobs[e.job].outcome.exit)
  BY DEF EntriesAreRuns
<1>1. PICK k \in DOMAIN store :
         k[1][1] = "job-run" /\ e = [job |-> k[2][2], key |-> k, document |-> store[k]]
  BY DEF RunEntries
<1>2. PICK source : source = store[k]
  OBVIOUS
<1>3. ShowsRun(k, source)
  BY <1>1, <1>2 DEF RunsInv
<1>4. PICK j \in Jobs :
         /\ jobs[j].end # None /\ k = RunKey(j) /\ k[2] = <<"job", j>>
         /\ source = RunSource(j)
         /\ source.end = jobs[j].end
         /\ source.status = JobStatus(jobs[j].outcome.completion, jobs[j].outcome.state,
                                      jobs[j].outcome.exit)
  BY <1>3 DEF ShowsRun
<1>5. k[2][2] = j
  BY <1>4
<1>6. e.job = j /\ e.key = k /\ e.document = source
  BY <1>1, <1>2, <1>5
<1> QED BY <1>1, <1>2, <1>4, <1>5, <1>6

\* A stored run has its entry.
RunsHaveEntries ==
    \A j \in Jobs : RunKey(j) \in DOMAIN store => \E e \in RunEntries : e.job = j

\* Its key tells the job.
LEMMA StoredRunsHaveEntries == RunsHaveEntries
<1> SUFFICES ASSUME NEW j \in Jobs, RunKey(j) \in DOMAIN store
             PROVE  \E e \in RunEntries : e.job = j
  BY DEF RunsHaveEntries
<1>1. RunKey(j)[2] = <<"job", j>> /\ RunKey(j)[1][1] = "job-run"
  <2> DEFINE d == RunDocument(NormalizeJob(JobItem(j)), clock)
  <2>1. Key(d) = RunKey(j) /\ Key(d)[2] = <<"job", j>> /\ d.index[1] = "job-run"
    BY RunsAreTrue
  <2> QED BY <2>1, KeysTellIndexes
<1> DEFINE e == [job |-> RunKey(j)[2][2], key |-> RunKey(j), document |-> store[RunKey(j)]]
<1>2. e \in RunEntries
  BY <1>1 DEF RunEntries
<1>3. e.job = j
  BY <1>1
<1> QED BY <1>2, <1>3

\* A step that neither stores nor ends a job leaves the ledger alone.
LEMMA LedgerStays ==
    ASSUME store' = store, covered' = covered,
           \A j \in Jobs : jobs'[j].end = jobs[j].end /\ jobs'[j].outcome = jobs[j].outcome
    PROVE  UNCHANGED <<EndedRuns, RunEntries,
                       [first |-> covered["jobs"].first, last |-> covered["jobs"].last]>>
<1>1. EndedRuns' = EndedRuns
  BY DEF EndedRuns
<1>2. RunEntries' = RunEntries
  BY DEF RunEntries
<1> QED BY <1>1, <1>2

\* A job that ends is the End of the ledger.
LEMMA LedgerEnds ==
    ASSUME LedgerInv, NEW j \in Jobs, JobEnds(j), store' = store, covered' = covered
    PROVE  j \notin DOMAIN EndedRuns /\ Ledger!End(j)
<1>1. PICK o \in Outcomes : jobs' = [jobs EXCEPT ![j].end = clock, ![j].outcome = o]
  BY DEF JobEnds
<1>2. jobs[j].end = None /\ clock \in Nat /\ covered["jobs"].last <= clock
  BY DEF JobEnds, LedgerInv, StoreInv, TypeInv, TypeOK, ServerTypeOK, CoveredInv, TimedEndpoints
<1>3. jobs \in [Jobs -> [start : {None} \cup Times, end : {None} \cup Times,
                         outcome : {Running} \cup Outcomes]]
  BY DEF LedgerInv, StoreInv, TypeInv, TypeOK, ServerTypeOK
<1>4. /\ jobs'[j].end = clock /\ clock # None
      /\ \A i \in Jobs \ {j} : jobs'[i] = jobs[i]
  BY <1>1, <1>2, <1>3 DEF None
<1>5. /\ DOMAIN EndedRuns' = DOMAIN EndedRuns \cup {j}
      /\ \A i \in DOMAIN EndedRuns : EndedRuns'[i] = EndedRuns[i]
      /\ EndedRuns'[j].end = clock
  BY <1>2, <1>4 DEF EndedRuns
<1>6. RunEntries' = RunEntries
  BY DEF RunEntries
<1> QED BY <1>2, <1>5, <1>6, EndedRunsAre DEF Ledger!End

\* The stretch of a round that is stored goes on.
LEMMA StretchesGoOn ==
    ASSUME LedgerInv, Write \/ WriteFails
    PROVE  \/ covered'["jobs"] = covered["jobs"]
           \/ /\ covered'["jobs"].last >= covered["jobs"].last
              /\ covered'["jobs"].first =
                    IF /\ covered["jobs"].last # None
                       /\ covered'["jobs"].last - JobsWindow <= covered["jobs"].last
                    THEN covered["jobs"].first
                    ELSE covered'["jobs"].last - JobsWindow
<1>1. CASE covered'["jobs"] = covered["jobs"]
  BY <1>1
<1>2. CASE covered'["jobs"] # covered["jobs"]
  <2>1. covered'["jobs"] = Extended(covered["jobs"], "jobs") /\ result # NoResult
    BY <1>2 DEF Write, WriteFails, history, TimedEndpoints
  <2>2. /\ round # NoRound /\ round.windowEnd \in Nat
        /\ covered["jobs"].last <= round.windowEnd
    BY <2>1 DEF LedgerInv, StoreInv, ResultInv, PlanInv, RoundIsLater
  <2>3. covered["jobs"] \in [first : Int, last : Int, gap : Int] /\ Window["jobs"] = JobsWindow
    BY DEF LedgerInv, StoreInv, CoveredInv, TimedEndpoints, Window
  <2>4. PICK stretch \in [first : Int, last : Int, gap : Int] : stretch = covered["jobs"]
    BY <2>3
  <2>5. PICK after : after = Extended(stretch, "jobs")
    OBVIOUS
  <2>6. /\ after.last = round.windowEnd
        /\ after.first = IF stretch.last # None /\ round.windowEnd - JobsWindow <= stretch.last
                         THEN stretch.first ELSE round.windowEnd - JobsWindow
    BY <2>3, <2>5 DEF Extended
  <2> QED BY <2>1, <2>2, <2>4, <2>5, <2>6
<1> QED BY <1>1, <1>2

\* A bulk request, also one that fails, is a Record of the ledger.
LEMMA LedgerRecords ==
    ASSUME LedgerInv, LedgerInv', [Next]_vars, Write \/ WriteFails
    PROVE  Ledger!Record
<1> USE DEF LedgerInv, StoreInv
<1>1. clock' = clock /\ jobs' = jobs
  BY DEF Write, WriteFails, servervars
<1>2. EndedRuns' = EndedRuns
  BY <1>1 DEF EndedRuns
<1>3. \A j \in Jobs : RunKey(j)' = RunKey(j) /\ RunSource(j)' = RunSource(j)
  BY <1>1 DEF RunKey, RunSource, JobItem
<1>4. EntriesAreRuns /\ EntriesAreRuns' /\ RunsHaveEntries'
  <2>1. RunsInv /\ RunsInv'
    OBVIOUS
  <2> QED BY <2>1, StoredRunsAreEntries, StoredRunsHaveEntries, PTL
<1>5. ASSUME NEW e \in RunEntries'
      PROVE  /\ e.job \in Jobs /\ jobs[e.job].end # None
             /\ e = [job |-> e.job, key |-> RunKey(e.job), document |-> RunSource(e.job)]
             /\ e.document.end = jobs[e.job].end
             /\ e.document.status = JobStatus(jobs[e.job].outcome.completion,
                                              jobs[e.job].outcome.state, jobs[e.job].outcome.exit)
  <2>1. PICK i : i = e.job
    OBVIOUS
  <2>2. /\ i \in Jobs /\ jobs'[i].end # None
        /\ e = [job |-> i, key |-> RunKey(i)', document |-> RunSource(i)']
        /\ e.document.end = jobs'[i].end
        /\ e.document.status = JobStatus(jobs'[i].outcome.completion,
                                         jobs'[i].outcome.state, jobs'[i].outcome.exit)
    BY <1>4, <2>1 DEF EntriesAreRuns
  <2> QED BY <1>1, <1>3, <2>1, <2>2
<1>6. ASSUME NEW e \in RunEntries
      PROVE  e \in RunEntries'
  <2>1. PICK k \in DOMAIN store :
           k[1][1] = "job-run" /\ e = [job |-> k[2][2], key |-> k, document |-> store[k]]
    BY DEF RunEntries
  <2>2. PICK f : f = [job |-> k[2][2], key |-> k, document |-> store'[k]]
    OBVIOUS
  <2>3. k \in DOMAIN store'
    BY StoreGrows
  <2>4. f \in RunEntries'
    BY <2>1, <2>2, <2>3 DEF RunEntries
  <2>5. f.job = e.job
    BY <2>1, <2>2
  <2>6. e.job \in Jobs /\ e = [job |-> e.job, key |-> RunKey(e.job), document |-> RunSource(e.job)]
    BY <1>4 DEF EntriesAreRuns
  <2>7. f = [job |-> f.job, key |-> RunKey(f.job), document |-> RunSource(f.job)]
    BY <1>5, <2>4
  <2>8. f = e
    BY <2>5, <2>6, <2>7
  <2> QED BY <2>4, <2>8
<1>7. ASSUME NEW e \in RunEntries'
      PROVE  /\ e.job \in DOMAIN EndedRuns
             /\ e.document.end = EndedRuns[e.job].end
             /\ e.document.status = EndedRuns[e.job].status
  BY <1>5, EndedRunsAre
<1>8. ASSUME NEW e \in RunEntries', NEW f \in RunEntries', e.job = f.job
      PROVE  e = f
  <2>1. e = [job |-> e.job, key |-> RunKey(e.job), document |-> RunSource(e.job)]
    BY <1>5
  <2>2. f = [job |-> f.job, key |-> RunKey(f.job), document |-> RunSource(f.job)]
    BY <1>5
  <2> QED BY <1>8, <2>1, <2>2
<1>9. ASSUME NEW e \in RunEntries' \ RunEntries
      PROVE  ~\E f \in RunEntries : f.job = e.job
  BY <1>6, <1>8
<1>10. ASSUME covered'["jobs"] # covered["jobs"], NEW j \in DOMAIN EndedRuns,
              covered'["jobs"].last - JobsWindow <= EndedRuns[j].end,
              EndedRuns[j].end < covered'["jobs"].last
       PROVE  \E e \in RunEntries' : e.job = j
  <2>1. Write /\ Answered("jobs") /\ result # NoResult /\ round # NoRound
    BY <1>10 DEF Write, WriteFails, history, TimedEndpoints, ResultInv
  <2>2. covered'["jobs"] = Extended(covered["jobs"], "jobs")
    BY <2>1 DEF Write, TimedEndpoints
  <2>3. Extended(covered["jobs"], "jobs").last = round.windowEnd
    <3>1. covered["jobs"] \in [first : Int, last : Int, gap : Int]
      BY DEF CoveredInv, TimedEndpoints
    <3>2. round.windowEnd \in Nat
      BY <2>1 DEF PlanInv
    <3> QED BY <3>1, <3>2, StretchesExtend DEF TimedEndpoints
  <2>4. j \in Jobs /\ jobs[j].end # None /\ EndedRuns[j].end = jobs[j].end
    BY EndedRunsAre
  <2>5. /\ jobs[j].end \in Int /\ round.windowEnd \in Nat
        /\ round.windowEnd - JobsWindow <= jobs[j].end /\ jobs[j].end < round.windowEnd
    BY <1>10, <2>1, <2>2, <2>3, <2>4 DEF PlanInv, TypeInv, TypeOK, ServerTypeOK, Times
  <2>6. j \in EndedIn(round.windowEnd - JobsWindow, round.windowEnd - 1)
    BY <2>4, <2>5, WindowAssumption DEF EndedIn
  <2>7. PICK d \in ToSet(Actions(result)) : Key(d) = RunKey(j)
    BY <2>1, <2>6, RunsAreSent
  <2>8. RunKey(j)' \in DOMAIN store'
    BY <1>3, <2>1, <2>4, <2>7, StoreGrows
  <2> QED BY <1>4, <2>4, <2>8 DEF RunsHaveEntries
<1>11. covered'["jobs"] \in [first : Int, last : Int, gap : Int]
  BY DEF CoveredInv, TimedEndpoints
<1> HIDE DEF LedgerInv, StoreInv
<1>12. CASE covered'["jobs"] = covered["jobs"]
  BY <1>2, <1>6, <1>7, <1>8, <1>9, <1>12 DEF Ledger!Record, Ledger!IsTrue, Ledger!HasEntry
<1>13. CASE covered'["jobs"] # covered["jobs"]
  <2>1. Ledger!StretchGoesOn
    BY <1>11, <1>13, StretchesGoOn DEF Ledger!StretchGoesOn
  <2>2. Ledger!WindowIsRecorded
    BY <1>10, <1>13 DEF Ledger!WindowIsRecorded, Ledger!HasEntry
  <2> QED BY <1>2, <1>6, <1>7, <1>8, <1>9, <2>1, <2>2
          DEF Ledger!Record, Ledger!IsTrue, Ledger!HasEntry
<1> QED BY <1>12, <1>13

\* The stored runs are a ledger: whatever fails, is retried, stored in part or restarted,
\* a round adds true entries of jobs that ended, one for each job and never another
\* (job_run_month, the id of _iter_job_run_documents), and as long as no window is left
\* out (minutes_by_endpoint) it leaves out no job.
THEOREM ImplementsRunLedger == Spec => RunsAreALedger
<1>1. ASSUME Init
      PROVE  Ledger!Init
  <2>1. DOMAIN EndedRuns = {}
    BY <1>1, EndedRunsAre DEF Init, ServerInit
  <2>2. RunEntries = {}
    BY <1>1 DEF Init, RunEntries
  <2>3. [first |-> covered["jobs"].first, last |-> covered["jobs"].last]
           = [first |-> None, last |-> None]
    BY <1>1 DEF Init, NoStretch, TimedEndpoints
  <2> QED BY <2>1, <2>2, <2>3 DEF Ledger!Init
<1>2. LedgerInv /\ LedgerInv' /\ [Next]_vars => [Ledger!Next]_(Ledger!lvars)
  <2> SUFFICES ASSUME LedgerInv, LedgerInv', [Next]_vars
               PROVE  [Ledger!Next]_(Ledger!lvars)
    OBVIOUS
  <2>1. CASE Write \/ WriteFails
    <3>1. Ledger!Record
      BY <2>1, LedgerRecords
    <3> QED BY <3>1 DEF Ledger!Next
  <2>2. ASSUME ServerChanges, NEW j \in Jobs, JobEnds(j)
        PROVE  [Ledger!Next]_(Ledger!lvars)
    <3>1. store' = store /\ covered' = covered
      BY <2>2 DEF ServerChanges, history
    <3>2. j \in Jobs \ DOMAIN EndedRuns /\ Ledger!End(j)
      BY <2>2, <3>1, LedgerEnds
    <3> QED BY <3>2 DEF Ledger!Next
  <2>3. ASSUME store' = store, covered' = covered,
               \A j \in Jobs : jobs'[j].end = jobs[j].end /\ jobs'[j].outcome = jobs[j].outcome
        PROVE  [Ledger!Next]_(Ledger!lvars)
    BY <2>3, LedgerStays DEF Ledger!lvars
  <2>4. CASE ServerChanges /\ ~\E j \in Jobs : JobEnds(j)
    <3>1. store' = store /\ covered' = covered
      BY <2>4 DEF ServerChanges, history
    <3>2. jobs \in [Jobs -> [start : {None} \cup Times, end : {None} \cup Times,
                             outcome : {Running} \cup Outcomes]]
      BY DEF LedgerInv, StoreInv, TypeInv, TypeOK, ServerTypeOK
    <3>3. ASSUME NEW j \in Jobs, JobStarts(j)
          PROVE  \A i \in Jobs : jobs'[i].end = jobs[i].end /\ jobs'[i].outcome = jobs[i].outcome
      BY <3>2, <3>3 DEF JobStarts
    <3>4. CASE jobs' = jobs
      BY <2>3, <3>1, <3>4
    <3>5. jobs' = jobs \/ \E j \in Jobs : JobStarts(j)
      BY <2>4 DEF ServerChanges, ServerStep, BackupStarts, BackupCompletes
    <3> QED BY <2>3, <3>1, <3>3, <3>4, <3>5
  <2>5. CASE Process /\ ~(Write \/ WriteFails)
    <3>1. store' = store /\ covered' = covered /\ jobs' = jobs
      BY <2>5 DEF Process, Begin, SendRequest, AnswerArrives, RequestFails, Retry, FetchUnchanged,
                  Collect, CollectRaises, servervars, history
    <3> QED BY <2>3, <3>1
  <2>6. CASE TimePasses \/ Restart \/ UNCHANGED vars
    <3>1. store' = store /\ covered' = covered /\ jobs' = jobs
      BY <2>6 DEF TimePasses, Tick, Restart, vars, servervars, history
    <3> QED BY <2>3, <3>1
  <2> QED BY <2>1, <2>2, <2>4, <2>5, <2>6 DEF Next
<1> QED BY <1>1, <1>2, LedgerHolds, PTL DEF Spec, RunsAreALedger, Ledger!Spec
\* What a ledger promises, whoever keeps it: its entries are true and one for each job,
\* and of the jobs that end in the stretch which overlapping windows make up
\* (minutes_by_endpoint against the time between two rounds) none is left out.
THEOREM LedgersKeepTheirPromise == Ledger!Spec => []Ledger!Promised
<1> DEFINE stretch == [first |-> covered["jobs"].first, last |-> covered["jobs"].last]
           Typed == /\ stretch \in [first : Int, last : Int]
                    /\ \A j \in DOMAIN EndedRuns : EndedRuns[j].end \in Int
           Inv == Typed /\ Ledger!Promised
<1> USE DEF Ledger!Promised, Ledger!EntriesAreTrue, Ledger!OneEntryEach, Ledger!NoneIsLeftOut,
            Ledger!IsTrue, Ledger!HasEntry
<1>1. ASSUME Ledger!Init
      PROVE  Inv
  BY <1>1 DEF Ledger!Init, None
<1>2. ASSUME Inv, [Ledger!Next]_(Ledger!lvars)
      PROVE  Inv'
  <2>1. CASE Ledger!Record
    <3>1. /\ EndedRuns' = EndedRuns
          /\ stretch' = stretch \/ (Ledger!StretchGoesOn /\ Ledger!WindowIsRecorded)
      BY <2>1 DEF Ledger!Record
    <3>2. Typed'
      BY <1>2, <3>1 DEF Ledger!StretchGoesOn
    <3>3. Ledger!EntriesAreTrue'
      BY <1>2, <2>1 DEF Ledger!Record
    <3>4. Ledger!OneEntryEach'
      BY <1>2, <2>1 DEF Ledger!Record
    <3>5. Ledger!NoneIsLeftOut'
      <4>1. RunEntries \subseteq RunEntries'
        BY <2>1 DEF Ledger!Record
      <4>2. CASE stretch' = stretch
        BY <1>2, <3>1, <4>1, <4>2
      <4>3. CASE Ledger!StretchGoesOn /\ Ledger!WindowIsRecorded
        BY <1>2, <3>1, <3>2, <4>1, <4>3, WindowAssumption
           DEF Ledger!StretchGoesOn, Ledger!WindowIsRecorded
      <4> QED BY <3>1, <4>2, <4>3
    <3> QED BY <3>2, <3>3, <3>4, <3>5
  <2>2. ASSUME NEW j \in Jobs \ DOMAIN EndedRuns, Ledger!End(j)
        PROVE  Inv'
    BY <1>2, <2>2 DEF Ledger!End
  <2>3. CASE UNCHANGED Ledger!lvars
    BY <1>2, <2>3 DEF Ledger!lvars
  <2> QED BY <1>2, <2>1, <2>2, <2>3 DEF Ledger!Next
<1> QED BY <1>1, <1>2, PTL DEF Ledger!Spec
=============================================================================
