------------------------- MODULE ActionLookupProofs -------------------------
(***************************************************************************)
(* Proofs about ActionLookup, for every set of snapshots and backups and   *)
(* every limit of the audit: what the store has of an action only grows,   *)
(* keeps its execution, and shows names only as long as all agree.         *)
(***************************************************************************)
EXTENDS ActionLookup, FiniteSetTheorems, TLAPS

\* A document that a builder may build or that the merge of commit leaves.
Sound(d) ==
    /\ d \in Document
    /\ IsFiniteSet(d.candidates)
    /\ d.listed \subseteq d.candidates
    /\ d.names # NoNames =>
         /\ d.verification = "verified"
         /\ d.candidates = {d.names}
         /\ d.start # NoTime /\ d.status \in Terminal

Inv ==
    /\ TypeOK
    /\ stored # NoDocument => Sound(stored)

-----------------------------------------------------------------------------
(* Documents.                                                               *)

\* The candidates of a ledger are finitely many names (_document).
LEMMA CandidatesType ==
    ASSUME NEW es \in Seq(Backups)
    PROVE  /\ Candidates(es) \subseteq Names
           /\ IsFiniteSet(Candidates(es))
           /\ Listed(es) \subseteq Candidates(es)
<1>1. ToSet(es) \subseteq Backups
  BY DEF ToSet
<1>2. Candidates(es) \subseteq Names
  BY <1>1, BackupsAssumption DEF Candidates
<1>3. Listed(es) \subseteq Candidates(es)
  BY DEF Listed, Candidates, ToSet
<1>4. IsFiniteSet(Candidates(es))
  <2> DEFINE f == [e \in ToSet(es) |-> e.names]
  <2>1. IsFiniteSet(ToSet(es))
    BY <1>1, BackupsAssumption, FS_Subset
  <2>2. f \in Surjection(ToSet(es), Candidates(es))
    BY DEF Surjection, Candidates
  <2> HIDE DEF f
  <2> QED BY <2>1, <2>2, FS_Surjection
<1> QED BY <1>2, <1>3, <1>4

\* The job a document is built from is one of the snapshots, or none
\* (select_job).
LEMMA SelectedType ==
    ASSUME NEW js \in SUBSET Snapshots, NEW j \in Selected(js)
    PROVE  /\ j.start \in Times \cup {NoTime}
           /\ j.status \in Statuses \cup {"none"}
           /\ js = {} => j = NoJob
  BY SnapshotsAssumption DEF Selected, NoJob

\* Only a verified document has names, those of its only candidate, and only
\* of an execution that has ended (_document).
LEMMA BuildIsSound ==
    ASSUME NEW js \in SUBSET Snapshots, NEW es \in Seq(Backups),
           NEW d \in Documents(js, es)
    PROVE  Sound(d)
<1>1. PICK j \in Selected(js), doubt \in {"none", "pending", "blocked"} :
        d = Build(js, es, j, doubt)
  BY DEF Documents
<1> DEFINE blocked == JobConflict(js, j) \/ Revised(es) \/ doubt = "blocked"
           verification == Verification(blocked, Pending(es, j, doubt), Candidates(es))
           names == PublicNames(verification, Candidates(es))
<1>2. d = [start |-> j.start, status |-> j.status,
           candidates |-> Candidates(es), listed |-> Listed(es),
           verification |-> verification, names |-> names]
  BY <1>1 DEF Build
<1>3. verification \in {"blocked", "provisional", "verified", "unverified"}
  BY DEF Verification
<1>4. ASSUME verification = "verified"
      PROVE  /\ names \in Names
             /\ Candidates(es) = {names}
             /\ j.start # NoTime /\ j.status \in Terminal
  <2>1. ~blocked /\ ~Pending(es, j, doubt) /\ Cardinality(Candidates(es)) = 1
    BY <1>4 DEF Verification
  <2>2. \E x : Candidates(es) = {x}
    BY <2>1, CandidatesType, FS_Singleton
  <2>3. \E n \in Names : Candidates(es) = {n}
    BY <2>2, CandidatesType
  <2>4. names \in Names /\ Candidates(es) = {names}
    BY <2>3, <1>4 DEF PublicNames
  <2>5. j.status \in Terminal
    BY <2>1 DEF Pending
  <2>6. js # {}
    BY <2>5, SelectedType DEF NoJob, Terminal
  <2>7. j.start # NoTime
    BY <2>1, <2>6 DEF JobConflict
  <2> QED BY <2>4, <2>5, <2>7
<1>5. verification # "verified" => names = NoNames
  BY DEF PublicNames
<1>6. names \in Names \cup {NoNames}
  BY <1>4, <1>5
<1> HIDE DEF blocked, verification, names
<1>7. d \in Document
  BY <1>2, <1>3, <1>6, SelectedType, CandidatesType DEF Document
<1> QED BY <1>2, <1>4, <1>5, <1>7, CandidatesType DEF Sound

\* The inputs of other builders are ledgers as well (build).
LEMMA OthersAreSound ==
    ASSUME NEW d \in AllDocuments
    PROVE  Sound(d)
<1>1. PICK js \in SUBSET Snapshots, es \in Ledgers : d \in Documents(js, es)
  BY DEF AllDocuments
<1>2. Cardinality(Backups) \in Nat
  BY BackupsAssumption, FS_CardinalityType
<1>3. PICK m \in 0..Cardinality(Backups) : es \in [1..m -> Backups]
  BY DEF Ledgers, SeqOf
<1>4. m \in Nat
  BY <1>2, <1>3
<1>5. es \in Seq(Backups)
  BY <1>3, <1>4
<1> QED BY <1>1, <1>5, BuildIsSound

-----------------------------------------------------------------------------
(* The store.                                                               *)

\* What commit does with a document it accepts.
Committed(d) == Sound(d) /\ Accepts(d) /\ stored' = Replacement(d)

\* The merge of a blocked document keeps it sound (commit).
LEMMA ReplacementIsSound ==
    ASSUME stored # NoDocument => Sound(stored), NEW d, Sound(d)
    PROVE  Sound(Replacement(d)) /\ Replacement(d) # NoDocument
<1>1. CASE stored # NoDocument /\ d.verification = "blocked"
  <2> DEFINE r == [d EXCEPT !.start = stored.start, !.status = stored.status]
  <2>1. /\ r \in Document
        /\ r.candidates = d.candidates /\ r.listed = d.listed
        /\ r.verification = d.verification /\ r.names = d.names
    BY <1>1 DEF Sound, Document
  <2>2. d.names = NoNames
    BY <1>1 DEF Sound
  <2> QED BY <1>1, <2>1, <2>2, NoDocumentAssumption DEF Replacement, Sound
<1>2. CASE ~(stored # NoDocument /\ d.verification = "blocked")
  BY <1>2, NoDocumentAssumption DEF Replacement, Sound
<1> QED BY <1>1, <1>2

\* A step leaves the store alone or commits a sound document to it.
LEMMA StepCommits ==
    ASSUME Inv, [Next]_lvars
    PROVE  stored' = stored \/ \E d : Committed(d)
<1>1. CASE \E j \in Snapshots : AddJob(j)
  BY <1>1 DEF AddJob
<1>2. CASE \E b \in Backups : AddBackup(b)
  BY <1>2 DEF AddBackup
<1>3. CASE Commit
  BY <1>3, BuildIsSound DEF Commit, Committed, Inv, TypeOK
<1>4. CASE OtherCommit
  BY <1>4, OthersAreSound DEF OtherCommit, Committed
<1>5. CASE UNCHANGED lvars
  BY <1>5 DEF lvars
<1> QED BY <1>1, <1>2, <1>3, <1>4, <1>5 DEF Next

\* A new backup is appended to the ledger (add_raw).
LEMMA LedgerType ==
    ASSUME NEW b \in Backups, b \notin ToSet(evidence),
           evidence \in Seq(Backups), IsInjective(evidence)
    PROVE  Append(evidence, b) \in Seq(Backups) /\ IsInjective(Append(evidence, b))
  BY DEF ToSet, IsInjective

\* The ledger, the version and the documents keep their types and every
\* document stays sound, through all that the builders do.
THEOREM InductiveInvariant == Spec => []Inv
<1>1. Init => Inv
  BY DEF Init, Inv, TypeOK, IsInjective
<1>2. Inv /\ [Next]_lvars => Inv'
  <2> SUFFICES ASSUME Inv, [Next]_lvars PROVE Inv'
    OBVIOUS
  <2>1. stored' # NoDocument => Sound(stored)'
    BY StepCommits, ReplacementIsSound DEF Inv, Committed, Sound
  <2>2. stored' \in Document \cup {NoDocument}
    BY <2>1 DEF Sound
  <2>3. TypeOK'
    <3>1. CASE \E j \in Snapshots : AddJob(j)
      BY <3>1, <2>2 DEF AddJob, Inv, TypeOK
    <3>2. CASE \E b \in Backups : AddBackup(b)
      BY <3>2, <2>2, LedgerType DEF AddBackup, Inv, TypeOK
    <3>3. CASE Commit
      BY <3>3, <2>2 DEF Commit, Inv, TypeOK
    <3>4. CASE OtherCommit
      BY <3>4, <2>2 DEF OtherCommit, Inv, TypeOK
    <3>5. CASE UNCHANGED lvars
      BY <3>5 DEF lvars, Inv, TypeOK
    <3> QED BY <3>1, <3>2, <3>3, <3>4, <3>5 DEF Next
  <2> QED BY <2>1, <2>3 DEF Inv
<1> QED BY <1>1, <1>2, PTL DEF Spec

\* The variables of the builder and the store keep their types.
THEOREM TypeCorrect == Spec => []TypeOK
  BY InductiveInvariant, PTL DEF Inv

\* Published names agree with every candidate of the store, and their
\* execution has ended (_document, commit).
THEOREM NamesAreProven == Spec => []PublishedNamesAreProven
<1>1. Inv => PublishedNamesAreProven
  BY DEF Inv, Sound, PublishedNamesAreProven, Published
<1> QED BY <1>1, InductiveInvariant, PTL

\* The checks of commit on counts, fingerprints and the audit together keep
\* every candidate.
LEMMA CandidatesGrow ==
    ASSUME Inv, [Next]_lvars, stored # NoDocument
    PROVE  stored' # NoDocument /\ stored.candidates \subseteq stored'.candidates
<1>1. CASE stored' = stored
  BY <1>1
<1>2. ASSUME NEW d, Committed(d)
      PROVE  stored' # NoDocument /\ stored.candidates \subseteq stored'.candidates
  <2>1. stored.candidates \subseteq d.candidates
    <3>1. CASE stored.candidates = {} \/ stored.candidates = d.candidates
      BY <3>1
    <3>2. CASE stored.candidates # {} /\ stored.candidates # d.candidates
      <4>1. /\ Cardinality(stored.listed) = Cardinality(stored.candidates)
            /\ stored.listed \subseteq d.listed
        BY <1>2, <3>2 DEF Committed, Accepts, KeepsLedger
      <4>2. stored.listed = stored.candidates
        BY <4>1, FS_Subset DEF Inv, Sound
      <4> QED BY <1>2, <4>1, <4>2 DEF Committed, Sound
    <3> QED BY <3>1, <3>2
  <2>2. stored'.candidates = d.candidates
    BY <1>2 DEF Committed, Replacement, Sound, Document
  <2>3. stored' # NoDocument
    BY <1>2, ReplacementIsSound DEF Committed, Inv
  <2> QED BY <2>1, <2>2, <2>3
<1> QED BY <1>1, <1>2, StepCommits

\* No commit drops a candidate, whatever part of them its audit lists.
THEOREM CandidatesNeverShrink == Spec => CandidatesAreKept
<1>1. Inv /\ [Next]_lvars
        => [stored # NoDocument => stored.candidates \subseteq stored'.candidates]_lvars
  BY CandidatesGrow
<1> QED BY <1>1, InductiveInvariant, PTL DEF Spec, CandidatesAreKept

\* Blocked documents are merged so that the execution of the action stays
\* the one it was.
THEOREM OneExecution == Spec => ExecutionIsKept
<1>1. Inv /\ [Next]_lvars
        => [stored # NoDocument /\ stored.start # NoTime
              => stored'.start = stored.start]_lvars
  <2> SUFFICES ASSUME Inv, [Next]_lvars, stored # NoDocument, stored.start # NoTime
               PROVE  stored'.start = stored.start
    OBVIOUS
  <2>1. ASSUME NEW d, Committed(d) PROVE stored'.start = stored.start
    <3>1. CASE d.verification = "blocked"
      BY <2>1, <3>1 DEF Committed, Replacement, Sound, Document
    <3>2. CASE d.verification # "blocked"
      BY <2>1, <3>2 DEF Committed, Replacement, Accepts, SameExecution
    <3> QED BY <3>1, <3>2
  <2> QED BY <2>1, StepCommits
<1> QED BY <1>1, InductiveInvariant, PTL DEF Spec, ExecutionIsKept

\* Names are published at most once: what replaces them is no names, because
\* the candidate they were published for stays in the ledger.
THEOREM NamesAreFinal == Spec => PublishedNamesAreFinal
<1> SUFFICES ASSUME NEW n \in Names
             PROVE  Spec => [](Published = n => [](Published \in {n, NoNames}))
  BY DEF PublishedNamesAreFinal
<1> DEFINE Kept == stored # NoDocument /\ n \in stored.candidates
<1>1. Inv /\ Published = n => Kept
  BY BackupsAssumption DEF Inv, Sound, Published
<1>2. Inv /\ Kept => Published \in {n, NoNames}
  BY DEF Inv, Sound, Published
<1>3. Inv /\ Kept /\ [Next]_lvars => Kept'
  BY CandidatesGrow
<1> HIDE DEF Kept
<1> QED BY <1>1, <1>2, <1>3, InductiveInvariant, PTL DEF Spec

-----------------------------------------------------------------------------
(* A builder is not refused.                                                *)

\* As long as nobody else commits, all that the store knows of the action
\* comes from what the builder still has.
Covered ==
    fresh /\ stored # NoDocument =>
        /\ stored.candidates \subseteq Candidates(evidence)
        /\ stored.listed \subseteq Listed(evidence)
        /\ stored.start # NoTime => \E j \in jobs : j.start = stored.start
        /\ stored.status \in Terminal => \E j \in jobs : j.status \in Terminal

\* A document shows what the builder has (_document).
LEMMA BuildShowsInput ==
    ASSUME NEW js \in SUBSET Snapshots, NEW es \in Seq(Backups),
           NEW d \in Documents(js, es)
    PROVE  /\ d.candidates = Candidates(es) /\ d.listed = Listed(es)
           /\ d.start # NoTime => \E j \in js : j.start = d.start
           /\ d.status \in Terminal => \E j \in js : j.status \in Terminal
           /\ (\E j \in js : j.status \in Terminal) => d.status \in Terminal
           /\ d.verification # "blocked" => \A j \in js : j.start = d.start
<1>1. PICK j \in Selected(js), doubt \in {"none", "pending", "blocked"} :
        d = Build(js, es, j, doubt)
  BY DEF Documents
<1>2. /\ d.start = j.start /\ d.status = j.status
      /\ d.candidates = Candidates(es) /\ d.listed = Listed(es)
  BY <1>1 DEF Build
<1>3. js = {} => j.start = NoTime /\ j.status = "none"
  BY DEF Selected, NoJob
<1>4. js # {} => j \in js
  BY DEF Selected
<1>5. (\E i \in js : i.status \in Terminal) => j.status \in Terminal
  BY DEF Selected
<1>6. ASSUME d.verification # "blocked", NEW i \in js PROVE i.start = d.start
  <2>1. ~JobConflict(js, j)
    BY <1>1, <1>6 DEF Build, Verification
  <2> QED BY <2>1, <1>2, <1>4, <1>6 DEF JobConflict
<1> QED BY <1>2, <1>3, <1>4, <1>5, <1>6 DEF Terminal

\* Appending a backup keeps the candidates and the audit (add_raw).
LEMMA LedgerGrows ==
    ASSUME NEW b \in Backups, evidence \in Seq(Backups)
    PROVE  /\ Candidates(evidence) \subseteq Candidates(Append(evidence, b))
           /\ Listed(evidence) \subseteq Listed(Append(evidence, b))
<1>1. \A i \in DOMAIN evidence :
        i \in DOMAIN Append(evidence, b) /\ Append(evidence, b)[i] = evidence[i]
  OBVIOUS
<1>2. ToSet(evidence) \subseteq ToSet(Append(evidence, b))
  BY <1>1 DEF ToSet
<1>3. Candidates(evidence) \subseteq Candidates(Append(evidence, b))
  BY <1>2 DEF Candidates
<1>4. Listed(evidence) \subseteq Listed(Append(evidence, b))
  BY <1>1 DEF Listed
<1> QED BY <1>3, <1>4

\* The store is covered by the builder whose version it has.
THEOREM StoreIsCovered == Spec => []Covered
<1>1. Init => Covered
  BY DEF Init, Covered
<1>2. Inv /\ Covered /\ [Next]_lvars => Covered'
  <2> SUFFICES ASSUME Inv, Covered, [Next]_lvars PROVE Covered'
    OBVIOUS
  <2>1. ASSUME NEW j \in Snapshots, AddJob(j) PROVE Covered'
    BY <2>1 DEF AddJob, Covered
  <2>2. ASSUME NEW b \in Backups, AddBackup(b) PROVE Covered'
    <3>1. evidence \in Seq(Backups)
      BY DEF Inv, TypeOK
    <3> QED BY <2>2, <3>1, LedgerGrows DEF AddBackup, Covered
  <2>3. ASSUME Commit PROVE Covered'
    <3>1. PICK d \in Documents(jobs, evidence) : Accepts(d) /\ stored' = Replacement(d)
      BY <2>3 DEF Commit
    <3>2. fresh /\ jobs' = jobs /\ evidence' = evidence
      BY <2>3 DEF Commit
    <3>3. jobs \in SUBSET Snapshots /\ evidence \in Seq(Backups)
      BY DEF Inv, TypeOK
    <3>4. d \in Document
      BY <3>3, BuildIsSound DEF Sound
    <3>5. CASE stored # NoDocument /\ d.verification = "blocked"
      <4>1. /\ stored'.candidates = d.candidates /\ stored'.listed = d.listed
            /\ stored'.start = stored.start /\ stored'.status = stored.status
        BY <3>1, <3>4, <3>5 DEF Replacement, Document
      <4>2. d.candidates = Candidates(evidence) /\ d.listed = Listed(evidence)
        BY <3>3, BuildShowsInput, Zenon
      <4> QED BY <3>2, <3>5, <4>1, <4>2 DEF Covered
    <3>6. CASE ~(stored # NoDocument /\ d.verification = "blocked")
      <4>1. stored' = d
        BY <3>1, <3>6 DEF Replacement
      <4> QED BY <3>2, <3>3, <4>1, BuildShowsInput DEF Covered
    <3> QED BY <3>5, <3>6
  <2>4. ASSUME OtherCommit PROVE Covered'
    BY <2>4 DEF OtherCommit, Covered
  <2>5. ASSUME UNCHANGED lvars PROVE Covered'
    BY <2>5 DEF lvars, Covered
  <2> QED BY <2>1, <2>2, <2>3, <2>4, <2>5 DEF Next
<1> QED BY <1>1, <1>2, InductiveInvariant, PTL DEF Spec

\* The checks of commit refuse no builder that kept its ledger, unless the
\* audit in the store was truncated or another builder was faster.
THEOREM BuildersAreAccepted == Spec => []GrownLedgerIsAccepted
<1>1. Inv /\ Covered => GrownLedgerIsAccepted
  <2> SUFFICES ASSUME Inv, Covered, fresh,
                      stored # NoDocument =>
                          Cardinality(stored.listed) = Cardinality(stored.candidates),
                      NEW d \in Documents(jobs, evidence)
               PROVE  Accepts(d)
    BY DEF GrownLedgerIsAccepted
  <2>1. jobs \in SUBSET Snapshots /\ evidence \in Seq(Backups)
    BY DEF Inv, TypeOK
  <2>2. Sound(d)
    BY <2>1, BuildIsSound
  <2>3. Publishable(d)
    <3>1. PICK j \in Selected(jobs), doubt \in {"none", "pending", "blocked"} :
            d = Build(jobs, evidence, j, doubt)
      BY DEF Documents
    <3>2. d.verification = "verified" =>
            /\ Cardinality(Candidates(evidence)) = 1
            /\ d.names = PublicNames("verified", Candidates(evidence))
      BY <3>1 DEF Build, Verification
    <3>3. d.verification = "verified" => \E n \in Names : Candidates(evidence) = {n}
      BY <2>1, <3>2, CandidatesType, FS_Singleton
    <3>4. d.verification = "verified" => d.names \in Names
      BY <3>2, <3>3 DEF PublicNames
    <3>5. d.candidates = Candidates(evidence)
      BY <2>1, BuildShowsInput, Zenon
    <3>6. CASE d.verification = "verified"
      BY <3>2, <3>4, <3>5, <3>6, BackupsAssumption DEF Publishable
    <3>7. CASE d.verification # "verified"
      BY <2>2, <3>7 DEF Publishable, Sound
    <3> QED BY <3>6, <3>7
  <2>4. ASSUME stored # NoDocument PROVE SameExecution(d)
    BY <2>1, <2>4, BuildShowsInput DEF SameExecution, Covered
  <2>5. ASSUME stored # NoDocument PROVE KeepsLedger(d)
    <3>1. stored.candidates \subseteq d.candidates /\ stored.listed \subseteq d.listed
      <4>1. d.candidates = Candidates(evidence) /\ d.listed = Listed(evidence)
        BY <2>1, BuildShowsInput, Zenon
      <4> QED BY <2>5, <4>1 DEF Covered
    <3>2. IsFiniteSet(d.candidates)
      BY <2>2 DEF Sound
    <3>3. /\ Cardinality(stored.candidates) <= Cardinality(d.candidates)
          /\ Cardinality(stored.candidates) = Cardinality(d.candidates)
                => stored.candidates = d.candidates
      BY <3>1, <3>2, FS_Subset
    <3> QED BY <2>5, <3>1, <3>3 DEF KeepsLedger
  <2>6. ASSUME stored # NoDocument PROVE NotRunningAgain(d)
    BY <2>1, <2>6, BuildShowsInput DEF NotRunningAgain, Covered, Terminal
  <2> QED BY <2>3, <2>4, <2>5, <2>6 DEF Accepts
<1> QED BY <1>1, InductiveInvariant, StoreIsCovered, PTL
=============================================================================
