---------------------------- MODULE ActionLookup ----------------------------
(***************************************************************************)
(* The lookup document of one action run: ActionLookupBuilder collects the *)
(* job snapshots and the backups of the action and builds the document,    *)
(* and InMemoryLookupStore.commit checks it against the one it has before  *)
(* it replaces it.  Names (policy, workflow and group) are published only  *)
(* in a verified document.                                                 *)
(*                                                                         *)
(* One builder is followed from its first input on; all the others that    *)
(* commit to the same store, with whatever input they were given, are one  *)
(* action.  Actions of different keys meet only in the batch they share.   *)
(***************************************************************************)
EXTENDS Naturals, FiniteSets, SequencesExt

CONSTANTS
    Times,          \* the start times of a job
    NoTime,         \* no start time
    Names,          \* normalized <<policy, workflow, group>>: the candidates
    NoNames,        \* names that are not published
    NoDocument,     \* the store has no document for the key
    Snapshots,      \* the job snapshots of the action that may be read
    Backups,        \* the backups of the action that may be read
    Limit           \* reference_limit

Statuses == {"running", "success", "failed", "canceled", "unknown"}
Terminal == {"success", "failed", "canceled"}

ASSUME SnapshotsAssumption ==
    /\ Snapshots \subseteq [start : Times \cup {NoTime}, status : Statuses]
    /\ NoTime \notin Times
ASSUME BackupsAssumption ==
    /\ IsFiniteSet(Backups)
    /\ \A b \in Backups : b.names \in Names
    /\ NoNames \notin Names
ASSUME LimitAssumption == Limit \in Nat \ {0}

Document ==
    [start : Times \cup {NoTime}, status : Statuses \cup {"none"},
     candidates : SUBSET Names, listed : SUBSET Names,
     verification : {"blocked", "provisional", "verified", "unverified"},
     names : Names \cup {NoNames}]

ASSUME NoDocumentAssumption == NoDocument \notin Document

VARIABLES
    jobs,       \* the snapshots in the ledger of the builder
    evidence,   \* its backups, in the order they came first
    fresh,      \* is expected_version, returned by its last commit, still the store's?
    stored      \* the document of the key in the store

lvars == <<jobs, evidence, fresh, stored>>

TypeOK ==
    /\ jobs \in SUBSET Snapshots
    /\ evidence \in Seq(Backups) /\ IsInjective(evidence)
    /\ fresh \in BOOLEAN
    /\ stored \in Document \cup {NoDocument}

-----------------------------------------------------------------------------
(* The builder.                                                             *)

Candidates(es) == {e.names : e \in ToSet(es)}

\* The candidates of the audit: records[:limit].
Listed(es) == {es[i].names : i \in {k \in DOMAIN es : k <= Limit}}

\* A backup that was read twice with different content.
Revised(es) == \E d, e \in ToSet(es) : d.id = e.id /\ d # e

NoJob == [start |-> NoTime, status |-> "none"]

\* select_job: a terminal snapshot wins over the others, and then the one
\* observed last; which one that is is left open.
Selected(js) ==
    LET terminal == {j \in js : j.status \in Terminal}
    IN  IF js = {} THEN {NoJob} ELSE IF terminal = {} THEN js ELSE terminal

\* Snapshots that do not belong to one execution, or to none with a start; an
\* action without a snapshot is pending.
JobConflict(js, selected) ==
    \/ js # {} /\ selected.start = NoTime
    \/ \E i, j \in js : i.start # j.start
    \/ \E i, j \in js : {i.status, j.status} \subseteq Terminal /\ i.status # j.status

\* Mutant of Pending: a running action may be verified.
PendingWithoutStatus(es, j, doubt) == es = <<>> \/ doubt = "pending"

Pending(es, j, doubt) == j.status \notin Terminal \/ es = <<>> \/ doubt = "pending"

Verification(blocked, pending, candidates) ==
    CASE blocked -> "blocked"
      [] ~blocked /\ pending -> "provisional"
      [] ~blocked /\ ~pending /\ Cardinality(candidates) = 1 -> "verified"
      [] OTHER -> "unverified"

\* Mutant of PublicNames: the set of candidates instead of the one in it.
PublicNamesAsSet(verification, candidates) ==
    IF verification = "verified" THEN candidates ELSE NoNames

PublicNames(verification, candidates) ==
    IF verification = "verified" THEN CHOOSE n \in Names : candidates = {n} ELSE NoNames

\* _document: doubt is what the rest of the input says of the action, its
\* coverage, its workflow, its saves and the times of its backups.
Build(js, es, j, doubt) ==
    LET blocked == JobConflict(js, j) \/ Revised(es) \/ doubt = "blocked"
        verification == Verification(blocked, Pending(es, j, doubt), Candidates(es))
    IN  [start |-> j.start, status |-> j.status,
         candidates |-> Candidates(es), listed |-> Listed(es),
         verification |-> verification,
         names |-> PublicNames(verification, Candidates(es))]

Documents(js, es) ==
    {Build(js, es, j, doubt) : j \in Selected(js), doubt \in {"none", "pending", "blocked"}}

\* What builders with any other input can build.
Ledgers == {es \in SeqOf(Backups, Cardinality(Backups)) : IsInjective(es)}
AllDocuments == UNION {Documents(js, es) : js \in SUBSET Snapshots, es \in Ledgers}

-----------------------------------------------------------------------------
(* The store.                                                               *)

\* Names go with a verified document of one candidate only.
Publishable(d) ==
    IF d.verification = "verified"
    THEN Cardinality(d.candidates) = 1 /\ d.names # NoNames
    ELSE d.names = NoNames

\* An action that was started keeps its start, unless the document is blocked.
SameExecution(d) ==
    stored.start # NoTime /\ d.verification # "blocked" => d.start = stored.start

\* Mutant of KeepsLedger: the audit is not compared with the count.
KeepsLedgerInPart(d) ==
    /\ Cardinality(stored.candidates) <= Cardinality(d.candidates)
    /\ Cardinality(stored.candidates) = Cardinality(d.candidates)
          => stored.candidates = d.candidates
    /\ stored.candidates # {} /\ stored.candidates # d.candidates
          => stored.listed \subseteq d.listed

\* Mutant of KeepsLedger: candidates are only counted.
KeepsLedgerCount(d) == Cardinality(stored.candidates) <= Cardinality(d.candidates)

\* The candidates only grow, as far as the audits of both documents show it.
KeepsLedger(d) ==
    /\ Cardinality(stored.candidates) <= Cardinality(d.candidates)
    /\ Cardinality(stored.candidates) = Cardinality(d.candidates)
          => stored.candidates = d.candidates
    /\ stored.candidates # {} /\ stored.candidates # d.candidates
          => /\ Cardinality(stored.listed) = Cardinality(stored.candidates)
             /\ stored.listed \subseteq d.listed

NotRunningAgain(d) ==
    stored.status \in Terminal /\ d.status = "running" => d.verification = "blocked"

\* commit raises for every other document and changes nothing.
Accepts(d) ==
    /\ Publishable(d)
    /\ stored # NoDocument => SameExecution(d) /\ KeepsLedger(d) /\ NotRunningAgain(d)

\* Mutant of Replacement: the blocked document brings its own execution.
ReplacementAsBuilt(d) == d

\* A blocked document revokes the names and keeps the execution stored before.
Replacement(d) ==
    IF stored # NoDocument /\ d.verification = "blocked"
    THEN [d EXCEPT !.start = stored.start, !.status = stored.status]
    ELSE d

-----------------------------------------------------------------------------
Init ==
    /\ jobs = {}
    /\ evidence = <<>>
    /\ fresh = TRUE
    /\ stored = NoDocument

AddJob(j) ==
    /\ jobs' = jobs \cup {j}
    /\ UNCHANGED <<evidence, fresh, stored>>

\* Mutant of AddBackup: the newest backup comes first.
AddBackupInFront(b) ==
    /\ b \notin ToSet(evidence)
    /\ evidence' = <<b>> \o evidence
    /\ UNCHANGED <<jobs, fresh, stored>>

\* A backup that is there already keeps its place.
AddBackup(b) ==
    /\ b \notin ToSet(evidence)
    /\ evidence' = Append(evidence, b)
    /\ UNCHANGED <<jobs, fresh, stored>>

\* The builder's document is committed with the version its last commit
\* returned, 0 at first; with an older one commit raises VersionConflict.
Commit ==
    /\ fresh
    /\ \E d \in Documents(jobs, evidence) : Accepts(d) /\ stored' = Replacement(d)
    /\ UNCHANGED <<jobs, evidence, fresh>>

\* Another builder, which has read the version of the store, commits.
OtherCommit ==
    /\ \E d \in AllDocuments : Accepts(d) /\ stored' = Replacement(d)
    /\ fresh' = FALSE
    /\ UNCHANGED <<jobs, evidence>>

Next ==
    \/ \E j \in Snapshots : AddJob(j)
    \/ \E b \in Backups : AddBackup(b)
    \/ Commit
    \/ OtherCommit

Spec == Init /\ [][Next]_lvars

-----------------------------------------------------------------------------
(* Properties.                                                              *)

Published == IF stored = NoDocument THEN NoNames ELSE stored.names

\* Names are in the store only while every candidate that was ever committed
\* for the action agrees with them and its execution has ended, whatever
\* blocked documents were merged before (_document, commit).
PublishedNamesAreProven ==
    Published # NoNames =>
        /\ stored.candidates = {stored.names}
        /\ stored.start # NoTime /\ stored.status \in Terminal

\* Names that were published once are never replaced by others, not even
\* after they were revoked in between and by builders that know nothing of
\* each other (the candidate ledger of commit).
PublishedNamesAreFinal ==
    \A n \in Names :
        [](Published = n => [](Published \in {n, NoNames}))

\* No commit drops a candidate, although a document lists only the first
\* Limit records (the check of the ledger in commit).
CandidatesAreKept ==
    [][stored # NoDocument => stored.candidates \subseteq stored'.candidates]_lvars

\* The start of the execution never changes once the store has one, also
\* when the id of the action is used again (the merge of blocked documents).
ExecutionIsKept ==
    [][stored # NoDocument /\ stored.start # NoTime => stored'.start = stored.start]_lvars

\* A builder that lost nothing of its input is not refused: its commit can
\* fail only because another builder was faster, or because the document in
\* the store lists fewer candidates than it counts (commit).
GrownLedgerIsAccepted ==
    fresh /\ (stored # NoDocument =>
                 Cardinality(stored.listed) = Cardinality(stored.candidates))
        => \A d \in Documents(jobs, evidence) : Accepts(d)

\* "terminal_state_regression": the terminal status of an execution does not
\* give way to a status that is none.
TerminalStatusIsKept ==
    [][stored # NoDocument /\ stored.status \in Terminal
          => stored'.status \in Terminal]_lvars
=============================================================================
