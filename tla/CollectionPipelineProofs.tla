---------------------- MODULE CollectionPipelineProofs ----------------------
(***************************************************************************)
(* Proofs about CollectionPipeline, for every set of collectors, schedules *)
(* and requests and any number of collections: the scheduler keeps its own *)
(* guarantees while it moves results, and the order of the rounds is the   *)
(* order of what they leave in Elasticsearch and in last_results.          *)
(***************************************************************************)
EXTENDS CollectionPipeline, CollectorSchedulerProofs, WellFoundedInduction

-----------------------------------------------------------------------------
(* The newest of the results of one call.                                   *)

\* The least-number principle, from the well-founded order of the naturals.
LEMMA SmallestOf ==
    ASSUME NEW T, T \subseteq Nat, T # {}
    PROVE  \E x \in T : \A y \in T : x <= y
<1> DEFINE R == OpToRel(<, Nat)
<1>1. IsWellFoundedOn(R, Nat)
  BY NatLessThanWellFounded
<1>2. \A x, y \in Nat : x < y => <<x, y>> \in R
  BY DEF OpToRel
<1> HIDE DEF R
<1>3. PICK x \in T : \A y \in T : ~ (<<y, x>> \in R)
  BY <1>1, WFMin
<1>4. ASSUME NEW y \in T PROVE x <= y
  <2>1. x \in Nat /\ y \in Nat /\ ~(y < x)
    BY <1>2, <1>3
  <2> QED BY <2>1
<1> QED BY <1>4

\* Newest returns one of the results it is given, however many there are.
LEMMA NewestIsAmong ==
    ASSUME NEW results, results # {}, \A d \in results : d.stamp \in Stamps
    PROVE  Newest(results) \in results
<1> DEFINE T == {MaxStamp - d.stamp : d \in results}
<1>1. T \subseteq Nat
  <2>1. \A d \in results : d.stamp \in 0..MaxStamp /\ MaxStamp - d.stamp \in Nat
    BY MaxStampAssumption DEF Stamps
  <2> QED BY <2>1
<1>2. T # {}
  OBVIOUS
<1>3. PICK least \in T : \A x \in T : least <= x
  BY <1>1, <1>2, SmallestOf
<1>4. PICK d \in results : least = MaxStamp - d.stamp
  OBVIOUS
<1>5. ASSUME NEW e \in results PROVE e.stamp <= d.stamp
  <2>1. MaxStamp - d.stamp <= MaxStamp - e.stamp
    BY <1>3, <1>4
  <2>2. d.stamp \in 0..MaxStamp /\ e.stamp \in 0..MaxStamp
    BY DEF Stamps
  <2> QED BY <2>1, <2>2, MaxStampAssumption
<1> QED BY <1>5 DEF Newest

-----------------------------------------------------------------------------
(* What a bulk request may do to the CURRENT documents and to the requests  *)
(* that are still to arrive.                                                *)

Documents == Collectors \X [stamp : Stamps, by : {"task", "once"}]

\* Each CURRENT document stays, or one of the documents that landed takes its place.
LEMMA LandEffect ==
    ASSUME NEW docs \in SUBSET Documents, Land(docs), PTypeOK
    PROVE  /\ current' \in [Collectors -> Result]
           /\ \A c \in Collectors :
                 current'[c] = current[c] \/ <<c, current'[c]>> \in docs
<1>1. ASSUME NEW c \in Collectors
      PROVE  /\ current'[c] \in Result
             /\ current'[c] = current[c] \/ <<c, current'[c]>> \in docs
  <2> DEFINE mine == {d[2] : d \in {e \in docs : e[1] = c}}
  <2>1. current'[c] = IF mine = {} THEN current[c] ELSE Newest(mine)
    BY DEF Land
  <2>2. \A m \in mine : <<c, m>> \in docs /\ m \in Result /\ m.stamp \in Stamps
    BY DEF Documents, Result
  <2> HIDE DEF mine
  <2>3. mine # {} => Newest(mine) \in mine
    BY <2>2, NewestIsAmong
  <2> QED BY <2>1, <2>2, <2>3 DEF PTypeOK
<1> QED BY <1>1 DEF Land

\* The results that the CURRENT document of a collector shows, or may come to
\* show when a bulk request arrives late.
AtStore(c) == {current[c]} \cup {d[2] : d \in {e \in late : e[1] = c}}

\* The scheduled results among some are no newer than a stamp.
RoundsUpTo(results, stamp) == \A d \in results : d.by = "task" => d.stamp <= stamp

\* A bulk request brings nothing to Elasticsearch but its own documents.
LEMMA BulkEffect ==
    ASSUME NEW docs \in SUBSET Documents, Bulk(docs), PTypeOK
    PROVE  /\ current' \in [Collectors -> Result]
           /\ late' \in SUBSET Documents
           /\ \A c \in Collectors :
                 /\ current'[c] = current[c] \/ <<c, current'[c]>> \in docs
                 /\ \A d \in AtStore(c)' : d \in AtStore(c) \/ <<c, d>> \in docs
<1>1. PICK here \in SUBSET docs, later \in SUBSET docs : Land(here) /\ late' = late \cup later
  BY DEF Bulk
<1>2. here \in SUBSET Documents
  OBVIOUS
<1>3. /\ current' \in [Collectors -> Result]
      /\ \A c \in Collectors : current'[c] = current[c] \/ <<c, current'[c]>> \in here
  BY <1>1, <1>2, LandEffect
<1>4. late' \in SUBSET Documents
  BY <1>1 DEF PTypeOK, Documents
<1>5. ASSUME NEW c \in Collectors, NEW d \in AtStore(c)'
      PROVE  d \in AtStore(c) \/ <<c, d>> \in docs
  <2>1. CASE d = current'[c]
    BY <1>3, <2>1 DEF AtStore
  <2>2. CASE d # current'[c]
    <3>1. PICK e \in late' : e[1] = c /\ d = e[2]
      BY <1>5, <2>2 DEF AtStore
    <3>2. e = <<c, d>>
      BY <1>4, <3>1 DEF Documents
    <3> QED BY <1>1, <3>1, <3>2 DEF AtStore
  <2> QED BY <2>1, <2>2
<1> QED BY <1>3, <1>4, <1>5

-----------------------------------------------------------------------------
(* Every step of the pipeline is a step of the scheduler.                   *)

LEMMA PipelineStep == [PNext]_pvars => [Next]_vars
<1> SUFFICES ASSUME PNext PROVE [Next]_vars
  BY DEF pvars, vars
<1>1. ASSUME NEW t \in Tasks, PRoundStep(t) PROVE Next
  <2>1. RoundStep(t) \/ CancelStep(t)
    BY <1>1 DEF PRoundStep, PCollectReturns, PWriteReturns, PCancelRound, RoundStep, CancelStep
  <2> QED BY <2>1 DEF Next
<1>2. ASSUME NEW r \in Requests, POnceStep(r) PROVE Next
  <2>1. OnceStep(r)
    BY <1>2 DEF POnceStep, POnceCollectReturns, POnceCollectRaises, POnceWriteReturns, OnceStep
  <2> QED BY <2>1 DEF Next
<1>3. CASE LateArrival
  BY <1>3 DEF LateArrival
<1>4. CASE (Start \/ Tick \/ StopStep) /\ UNCHANGED data
  BY <1>4 DEF Next
<1> QED BY <1>1, <1>2, <1>3, <1>4 DEF PNext

\* Moving results does not change what the scheduler promises: everything that
\* is proved of Spec holds of the pipeline too.
THEOREM PipelineIsScheduler == PSpec => Spec
<1>1. PInit => Init
  BY DEF PInit
<1> QED BY <1>1, PipelineStep, PTL DEF PSpec, Spec

-----------------------------------------------------------------------------
(* The order of the rounds.  A round that is writing has collected after    *)
(* every scheduled result that its collector shows, has recorded or is      *)
(* still to show; and until stop() begins, the recorded result is the       *)
(* newest of them unless run_once has replaced it.                          *)

WriterIsNewest ==
    \A t \in Tasks :
        pc[t] = "writing" =>
            RoundsUpTo(AtStore(Owner(t)) \cup {last[Owner(t)]}, hand[t])

ClockIsNewest ==
    /\ \A t \in Tasks : hand[t] <= clock
    /\ \A c \in Collectors : RoundsUpTo(AtStore(c) \cup {last[c]}, clock)

NobodyIsOldest ==
    \A c \in Collectors : \A d \in {current[c], last[c]} : d.by = "nobody" => d.stamp = 0

RecordedIsNewest ==
    phase \in {"init", "running"} =>
        \A c \in Collectors : last[c].by = "once" \/ RoundsUpTo(AtStore(c), last[c].stamp)

DataInv == PTypeOK /\ WriterIsNewest /\ ClockIsNewest /\ NobodyIsOldest /\ RecordedIsNewest

LEMMA DataInit == PInit => DataInv
<1> SUFFICES ASSUME PInit PROVE DataInv
  OBVIOUS
<1>1. PTypeOK
  BY MaxStampAssumption DEF PInit, PTypeOK, Stamps, Result, NoResult
<1>2. \A c \in Collectors : AtStore(c) = {NoResult} /\ last[c] = NoResult
  BY DEF PInit, AtStore
<1>3. \A t \in Tasks : pc[t] = "none" /\ hand[t] <= clock
  BY DEF PInit, Init
<1> QED BY <1>1, <1>2, <1>3 DEF PInit, DataInv, WriterIsNewest, ClockIsNewest, NobodyIsOldest,
                               RecordedIsNewest, RoundsUpTo, NoResult

\* A step that moves no result, and in which no round begins to write, keeps
\* the order.
LEMMA NothingMoves ==
    ASSUME DataInv, UNCHANGED data,
           \A t \in Tasks : pc'[t] = "writing" => pc[t] = "writing",
           phase' \in {"init", "running"} => phase \in {"init", "running"}
    PROVE  DataInv'
<1>1. \A c \in Collectors : AtStore(c)' = AtStore(c) /\ last'[c] = last[c] /\ current'[c] = current[c]
  BY DEF data, AtStore
<1>2. clock' = clock /\ hand' = hand
  BY DEF data
<1>3. PTypeOK'
  BY DEF DataInv, PTypeOK, data
<1>4. WriterIsNewest'
  BY <1>1, <1>2, OwnerType DEF DataInv, WriterIsNewest, RoundsUpTo
<1> QED BY <1>1, <1>2, <1>3, <1>4
        DEF DataInv, ClockIsNewest, NobodyIsOldest, RecordedIsNewest, RoundsUpTo

\* collect() returns: the result is newer than everything before it.
LEMMA CollectKeepsOrder ==
    ASSUME IInv, DataInv, NEW t \in Tasks, PCollectReturns(t)
    PROVE  DataInv'
<1>1. /\ pc[t] = "collecting" /\ pc' = [pc EXCEPT ![t] = "writing"] /\ phase' = phase
      /\ clock < MaxStamp /\ clock' = clock + 1 /\ hand' = [hand EXCEPT ![t] = clock + 1]
      /\ UNCHANGED <<got, late, current, last>>
  BY DEF PCollectReturns, CollectReturns
<1>2. /\ pc \in [Tasks -> TaskStates] /\ clock \in Nat /\ clock <= MaxStamp
      /\ hand \in [Tasks -> Stamps]
  BY MaxStampAssumption DEF IInv, TypeOK, DataInv, PTypeOK, Stamps
<1>3. \A c \in Collectors : AtStore(c)' = AtStore(c) /\ last'[c] = last[c] /\ current'[c] = current[c]
  BY <1>1 DEF AtStore
<1>4. clock + 1 \in Stamps
  BY <1>1, <1>2, MaxStampAssumption DEF Stamps
<1>5. PTypeOK'
  BY <1>1, <1>2, <1>4 DEF DataInv, PTypeOK
<1>6. \A u \in Tasks : hand[u] \in Nat
  BY <1>2, MaxStampAssumption DEF Stamps
<1>7. ASSUME NEW c \in Collectors, NEW d \in AtStore(c) \cup {last[c]}
      PROVE  d.stamp \in Nat
  BY MaxStampAssumption DEF DataInv, PTypeOK, AtStore, Stamps, Result
<1>8. ClockIsNewest'
  <2>1. \A c \in Collectors : RoundsUpTo(AtStore(c) \cup {last[c]}, clock + 1)
    BY <1>2, <1>7 DEF DataInv, ClockIsNewest, RoundsUpTo
  <2>2. \A u \in Tasks : hand'[u] <= clock + 1
    BY <1>1, <1>2, <1>6 DEF DataInv, ClockIsNewest
  <2> QED BY <1>1, <1>3, <2>1, <2>2 DEF ClockIsNewest
<1>9. WriterIsNewest'
  <2> SUFFICES ASSUME NEW u \in Tasks, pc'[u] = "writing"
               PROVE  RoundsUpTo(AtStore(Owner(u)) \cup {last[Owner(u)]}, hand'[u])
    BY <1>3, OwnerType DEF WriterIsNewest
  <2>1. CASE u = t
    <3>1. hand'[u] = clock + 1
      BY <1>1, <1>2, <2>1
    <3> QED BY <1>1, <1>3, <1>8, <3>1, OwnerType DEF ClockIsNewest
  <2>2. CASE u # t
    BY <1>1, <1>2, <2>2 DEF DataInv, WriterIsNewest
  <2> QED BY <2>1, <2>2
<1> QED BY <1>1, <1>3, <1>5, <1>8, <1>9 DEF DataInv, NobodyIsOldest, RecordedIsNewest

\* The document of a round that is writing, whichever class it collected.
LEMMA RoundDocument ==
    ASSUME PTypeOK, NEW t \in Tasks
    PROVE  LET docs == CurrentDocs(Owner(t), ClassOf(t), InHand(t))
           IN  /\ docs \in SUBSET Documents
               /\ docs \subseteq {<<Owner(t), InHand(t)>>}
               /\ InHand(t) \in Result
BY OwnerType DEF CurrentDocs, InHand, Documents, PTypeOK, Result

\* The holder of the lock is the only round of its collector that writes.
LEMMA OneWriter ==
    ASSUME IInv, NEW t \in Tasks, pc[t] = "writing",
           NEW u \in Tasks, pc[u] = "writing", Owner(u) = Owner(t)
    PROVE  u = t
BY OwnerType DEF IInv, OneRoundAtATime, Holds

\* write_many returns and the result is recorded: whatever has reached
\* Elasticsearch is no newer than the result in hand.
LEMMA WriteKeepsOrder ==
    ASSUME IInv, DataInv, NEW t \in Tasks, PWriteReturns(t)
    PROVE  DataInv'
<1> DEFINE c == Owner(t)
           docs == CurrentDocs(c, ClassOf(t), InHand(t))
<1>0. PTypeOK /\ c \in Collectors /\ pc \in [Tasks -> TaskStates]
  BY OwnerType DEF DataInv, IInv, TypeOK
<1>1. /\ pc[t] = "writing" /\ pc' = [pc EXCEPT ![t] = "sleeping"] /\ phase' = phase
      /\ Bulk(docs)
      /\ last' = [last EXCEPT ![c] = InHand(t)]
      /\ hand' = [hand EXCEPT ![t] = 0]
      /\ UNCHANGED <<clock, got>>
  BY DEF PWriteReturns, WriteReturns, EndRound
<1>2. docs \in SUBSET Documents /\ docs \subseteq {<<c, InHand(t)>>} /\ InHand(t) \in Result
  BY <1>0, RoundDocument
<1> HIDE DEF docs
<1>3. /\ current' \in [Collectors -> Result]
      /\ late' \in SUBSET Documents
      /\ \A e \in Collectors :
            /\ current'[e] = current[e] \/ <<e, current'[e]>> \in docs
            /\ \A d \in AtStore(e)' : d \in AtStore(e) \/ <<e, d>> \in docs
  BY <1>0, <1>1, <1>2, BulkEffect
<1>4. \A e \in Collectors \ {c} : AtStore(e)' \subseteq AtStore(e) /\ last'[e] = last[e]
  BY <1>0, <1>1, <1>2, <1>3 DEF PTypeOK
<1>5. AtStore(c)' \subseteq AtStore(c) \cup {InHand(t)} /\ last'[c] = InHand(t)
  BY <1>0, <1>1, <1>2, <1>3 DEF PTypeOK
<1>6. RoundsUpTo(AtStore(c)' \cup {InHand(t)}, hand[t])
  <2>1. hand[t] \in Nat
    BY <1>0, MaxStampAssumption DEF PTypeOK, Stamps
  <2> QED BY <1>1, <1>5, <2>1 DEF DataInv, WriterIsNewest, RoundsUpTo, InHand
<1>7. PTypeOK'
  <2>1. hand' \in [Tasks -> Stamps] /\ last' \in [Collectors -> Result]
    BY <1>0, <1>1, <1>2, MaxStampAssumption DEF PTypeOK, Stamps
  <2> QED BY <1>0, <1>1, <1>3, <2>1 DEF PTypeOK, Documents
<1>8. WriterIsNewest'
  <2> SUFFICES ASSUME NEW u \in Tasks, pc'[u] = "writing"
               PROVE  RoundsUpTo(AtStore(Owner(u))' \cup {last'[Owner(u)]}, hand'[u])
    BY DEF WriterIsNewest
  <2>1. u # t /\ pc[u] = "writing" /\ hand'[u] = hand[u]
    BY <1>0, <1>1 DEF PTypeOK
  <2>2. Owner(u) \in Collectors \ {c}
    BY <1>1, <2>1, OneWriter, OwnerType
  <2> QED BY <1>4, <2>1, <2>2 DEF DataInv, WriterIsNewest, RoundsUpTo
<1>9. ClockIsNewest'
  <2>1. \A u \in Tasks : hand[u] \in Nat /\ hand[u] <= clock
    BY <1>0, MaxStampAssumption DEF DataInv, ClockIsNewest, PTypeOK, Stamps
  <2>2. clock \in Nat
    BY <1>0, MaxStampAssumption DEF PTypeOK, Stamps
  <2>3. \A u \in Tasks : hand'[u] <= clock'
    BY <1>0, <1>1, <2>1, <2>2 DEF PTypeOK
  <2>4. RoundsUpTo(AtStore(c)' \cup {last'[c]}, clock')
    <3>1. \A d \in AtStore(c)' \cup {InHand(t)} : d.stamp \in Nat
      <4>1. \A d \in AtStore(c)' : d \in Result
        BY <1>0, <1>7 DEF PTypeOK, AtStore, Result
      <4> QED BY <1>2, <4>1, MaxStampAssumption DEF Stamps, Result
    <3> QED BY <1>1, <1>5, <1>6, <2>1, <2>2, <3>1 DEF RoundsUpTo
  <2>5. \A e \in Collectors \ {c} : RoundsUpTo(AtStore(e)' \cup {last'[e]}, clock')
    BY <1>1, <1>4 DEF DataInv, ClockIsNewest, RoundsUpTo
  <2> QED BY <2>3, <2>4, <2>5 DEF ClockIsNewest
<1>10. NobodyIsOldest'
  <2>1. InHand(t).by # "nobody"
    BY DEF InHand
  <2>2. \A e \in Collectors : current'[e] \in {current[e], InHand(t)} /\ last'[e] \in {last[e], InHand(t)}
    BY <1>2, <1>3, <1>4, <1>5
  <2> QED BY <2>1, <2>2 DEF DataInv, NobodyIsOldest
<1>11. RecordedIsNewest'
  BY <1>1, <1>4, <1>5, <1>6 DEF DataInv, RecordedIsNewest, RoundsUpTo, InHand
<1> QED BY <1>7, <1>8, <1>9, <1>10, <1>11 DEF DataInv

\* A cancelled round may still have written; it belongs to stop().
LEMMA CancelKeepsOrder ==
    ASSUME IInv, DataInv, NEW t \in Tasks, PCancelRound(t)
    PROVE  DataInv'
<1> DEFINE c == Owner(t)
           docs == CurrentDocs(c, ClassOf(t), InHand(t))
<1>0. PTypeOK /\ c \in Collectors /\ pc \in [Tasks -> TaskStates]
  BY OwnerType DEF DataInv, IInv, TypeOK
<1>1. /\ Holds(t) /\ pc' = [pc EXCEPT ![t] = "cancelled"]
      /\ phase = "cancelling" /\ phase' = phase
      /\ IF pc[t] = "writing" THEN Bulk(docs) ELSE UNCHANGED <<late, current>>
      /\ hand' = [hand EXCEPT ![t] = 0]
      /\ UNCHANGED <<clock, got, last>>
  BY DEF PCancelRound, CancelRound
<1>2. docs \in SUBSET Documents /\ docs \subseteq {<<c, InHand(t)>>} /\ InHand(t) \in Result
  BY <1>0, RoundDocument
<1> HIDE DEF docs
<1>3. /\ current' \in [Collectors -> Result]
      /\ late' \in SUBSET Documents
      /\ \A e \in Collectors :
            /\ current'[e] = current[e] \/ current'[e] = InHand(t)
            /\ AtStore(e)' \subseteq AtStore(e) \cup {InHand(t)}
            /\ (e # c \/ pc[t] # "writing") => AtStore(e)' \subseteq AtStore(e)
  <2>1. CASE pc[t] = "writing"
    <3>1. Bulk(docs)
      BY <1>1, <2>1
    <3>2. /\ current' \in [Collectors -> Result]
          /\ late' \in SUBSET Documents
          /\ \A e \in Collectors :
                /\ current'[e] = current[e] \/ <<e, current'[e]>> \in docs
                /\ \A d \in AtStore(e)' : d \in AtStore(e) \/ <<e, d>> \in docs
      BY <1>0, <1>2, <3>1, BulkEffect
    <3> QED BY <1>2, <2>1, <3>2
  <2>2. CASE pc[t] # "writing"
    <3>1. UNCHANGED <<late, current>>
      BY <1>1, <2>2
    <3> QED BY <1>0, <3>1 DEF PTypeOK, Documents, AtStore
  <2> QED BY <2>1, <2>2
<1>4. PTypeOK'
  <2>1. hand' \in [Tasks -> Stamps]
    BY <1>0, <1>1, MaxStampAssumption DEF PTypeOK, Stamps
  <2> QED BY <1>0, <1>1, <1>3, <2>1 DEF PTypeOK, Documents
<1>5. \A u \in Tasks : hand[u] \in Nat /\ hand[u] <= clock
  BY <1>0, MaxStampAssumption DEF DataInv, ClockIsNewest, PTypeOK, Stamps
<1>6. WriterIsNewest'
  <2> SUFFICES ASSUME NEW u \in Tasks, pc'[u] = "writing"
               PROVE  RoundsUpTo(AtStore(Owner(u))' \cup {last'[Owner(u)]}, hand'[u])
    BY DEF WriterIsNewest
  <2>1. u # t /\ pc[u] = "writing" /\ hand'[u] = hand[u]
    BY <1>0, <1>1 DEF PTypeOK
  <2>2. Owner(u) \in Collectors /\ (Owner(u) # c \/ pc[t] # "writing")
    BY <2>1, OneWriter, OwnerType
  <2>3. AtStore(Owner(u))' \subseteq AtStore(Owner(u)) /\ last'[Owner(u)] = last[Owner(u)]
    BY <1>1, <1>3, <2>2
  <2> QED BY <2>1, <2>3 DEF DataInv, WriterIsNewest, RoundsUpTo
<1>7. ClockIsNewest'
  <2>1. clock \in Nat
    BY <1>0, MaxStampAssumption DEF PTypeOK, Stamps
  <2>2. \A u \in Tasks : hand'[u] <= clock'
    BY <1>0, <1>1, <1>5, <2>1 DEF PTypeOK
  <2>3. ASSUME NEW e \in Collectors PROVE RoundsUpTo(AtStore(e)' \cup {last'[e]}, clock')
    <3>1. InHand(t).stamp <= clock
      BY <1>5 DEF InHand
    <3>2. RoundsUpTo(AtStore(e) \cup {last[e]}, clock)
      BY DEF DataInv, ClockIsNewest
    <3> QED BY <1>1, <1>3, <3>1, <3>2 DEF RoundsUpTo
  <2> QED BY <2>2, <2>3 DEF ClockIsNewest
<1>8. NobodyIsOldest'
  BY <1>1, <1>3 DEF DataInv, NobodyIsOldest, InHand
<1>9. RecordedIsNewest'
  BY <1>1 DEF RecordedIsNewest
<1> QED BY <1>4, <1>6, <1>7, <1>8, <1>9 DEF DataInv

\* A bulk request that was given up on is carried out: its documents were
\* counted as soon as they were sent.
LEMMA LateKeepsOrder ==
    ASSUME DataInv, LateArrival
    PROVE  DataInv'
<1>1. PICK d \in late : Land({d}) /\ late' = late \ {d} /\ UNCHANGED <<vars, clock, hand, got, last>>
  BY DEF LateArrival
<1>2. PTypeOK /\ {d} \in SUBSET Documents
  BY DEF DataInv, PTypeOK, Documents
<1>3. /\ current' \in [Collectors -> Result]
      /\ \A c \in Collectors : current'[c] = current[c] \/ <<c, current'[c]>> = d
  BY <1>1, <1>2, LandEffect
<1>4. \A c \in Collectors : AtStore(c)' \subseteq AtStore(c)
  BY <1>1, <1>3 DEF AtStore
<1>5. \A c \in Collectors : current'[c] = current[c] \/ current'[c].by # "nobody"
  BY <1>2, <1>3 DEF Documents
<1>6. PTypeOK'
  BY <1>1, <1>2, <1>3 DEF PTypeOK
<1>7. UNCHANGED <<pc, phase, clock, hand, last>>
  BY <1>1 DEF vars
<1>8. WriterIsNewest'
  BY <1>4, <1>7, OwnerType DEF DataInv, WriterIsNewest, RoundsUpTo
<1>9. ClockIsNewest' /\ NobodyIsOldest' /\ RecordedIsNewest'
  BY <1>4, <1>5, <1>7 DEF DataInv, ClockIsNewest, NobodyIsOldest, RecordedIsNewest, RoundsUpTo
<1> QED BY <1>6, <1>8, <1>9 DEF DataInv

\* run_once writes results of its own only.
LEMMA OnceDocuments ==
    ASSUME PTypeOK, NEW r \in Requests
    PROVE  LET docs == UNION {CurrentDocs(g[1], g[2], [stamp |-> g[3], by |-> "once"]) : g \in got[r]}
           IN  docs \in SUBSET Documents /\ \A d \in docs : d[2].by = "once"
BY DEF PTypeOK, CurrentDocs, Documents

\* Of the results a request has gathered from a collector the newest is recorded.
LEMMA OnceRecords ==
    ASSUME PTypeOK, NEW r \in Requests, NEW c \in Collectors, Gathered(r, c) # {}
    PROVE  Newest(Gathered(r, c)) \in [stamp : Stamps, by : {"once"}]
<1>1. Gathered(r, c) \subseteq [stamp : Stamps, by : {"once"}]
  BY DEF PTypeOK, Gathered
<1>2. \A d \in Gathered(r, c) : d.stamp \in Stamps
  BY <1>1
<1> QED BY <1>1, <1>2, NewestIsAmong

\* A request of run_once returns: what it brings is marked as its own.
LEMMA OnceWriteKeepsOrder ==
    ASSUME DataInv, NEW r \in Requests, POnceWriteReturns(r)
    PROVE  DataInv'
<1> DEFINE docs == UNION {CurrentDocs(g[1], g[2], [stamp |-> g[3], by |-> "once"]) : g \in got[r]}
<1>1. /\ Bulk(docs)
      /\ last' = [c \in Collectors |->
                    IF Gathered(r, c) = {} THEN last[c] ELSE Newest(Gathered(r, c))]
      /\ got' = [got EXCEPT ![r] = {}]
      /\ UNCHANGED <<clock, hand>>
      /\ UNCHANGED <<phase, pc>>
  BY DEF POnceWriteReturns, OnceWriteReturns
<1>2. PTypeOK /\ docs \in SUBSET Documents /\ \A d \in docs : d[2].by = "once"
  BY OnceDocuments DEF DataInv
<1> HIDE DEF docs
<1>3. /\ current' \in [Collectors -> Result]
      /\ late' \in SUBSET Documents
      /\ \A c \in Collectors :
            /\ current'[c] = current[c] \/ <<c, current'[c]>> \in docs
            /\ \A d \in AtStore(c)' : d \in AtStore(c) \/ <<c, d>> \in docs
  BY <1>1, <1>2, BulkEffect
<1>4. \A c \in Collectors :
         /\ current'[c] = current[c] \/ current'[c].by = "once"
         /\ \A d \in AtStore(c)' : d \in AtStore(c) \/ d.by = "once"
  BY <1>2, <1>3
<1>5. \A c \in Collectors :
         last'[c] \in Result /\ (last'[c] = last[c] \/ last'[c].by = "once")
  BY <1>1, <1>2, OnceRecords DEF PTypeOK, Result
<1>6. PTypeOK'
  BY <1>1, <1>2, <1>3, <1>5 DEF PTypeOK, Documents
<1>7. WriterIsNewest'
  BY <1>1, <1>4, <1>5, OwnerType DEF DataInv, WriterIsNewest, RoundsUpTo
<1>8. ClockIsNewest' /\ NobodyIsOldest' /\ RecordedIsNewest'
  BY <1>1, <1>4, <1>5 DEF DataInv, ClockIsNewest, NobodyIsOldest, RecordedIsNewest, RoundsUpTo
<1> QED BY <1>6, <1>7, <1>8 DEF DataInv

\* A collection of run_once takes a stamp from the clock, and no more.
LEMMA OnceCollectKeepsOrder ==
    ASSUME IInv, DataInv, NEW r \in Requests, NEW c \in Collectors,
           POnceCollectReturns(r, c) \/ POnceCollectRaises(r, c)
    PROVE  DataInv'
<1>1. /\ UNCHANGED <<hand, late, current, last, phase, pc>>
      /\ clock' = clock \/ (clock < MaxStamp /\ clock' = clock + 1)
  BY DEF POnceCollectReturns, POnceCollectRaises, OnceCollectReturns, OnceCollectRaises
<1>2. /\ clock \in Nat /\ clock <= MaxStamp /\ clock' \in Stamps /\ clock <= clock'
      /\ hand \in [Tasks -> Stamps]
  BY <1>1, MaxStampAssumption DEF DataInv, PTypeOK, Stamps
<1>3. got' \in [Requests -> SUBSET (Collectors \X Classes \X Stamps)]
  <2>1. CASE POnceCollectReturns(r, c)
    <3>1. todo[r][c] # <<>> /\ todo[r][c] \in Seq(Classes)
      BY <2>1 DEF IInv, TypeOK, POnceCollectReturns, OnceCollectReturns
    <3>2. Head(todo[r][c]) \in Classes
      BY <3>1, HeadTailProperties
    <3>3. clock' = clock + 1
      BY <2>1 DEF POnceCollectReturns
    <3>4. got' = [got EXCEPT ![r] =
                    IF once[r] = "failed" THEN @ ELSE @ \cup {<<c, Head(todo[r][c]), clock'>>}]
      BY <2>1, <3>3 DEF POnceCollectReturns
    <3> QED BY <1>2, <3>2, <3>4 DEF DataInv, PTypeOK
  <2>2. CASE POnceCollectRaises(r, c)
    BY <2>2 DEF DataInv, PTypeOK, POnceCollectRaises
  <2> QED BY <2>1, <2>2
<1>4. PTypeOK'
  BY <1>1, <1>2, <1>3 DEF DataInv, PTypeOK
<1>5. \A e \in Collectors : AtStore(e)' = AtStore(e) /\ last'[e] = last[e] /\ current'[e] = current[e]
  BY <1>1 DEF AtStore
<1>6. ASSUME NEW e \in Collectors, NEW d \in AtStore(e) \cup {last[e]}
      PROVE  d.stamp \in Nat
  BY MaxStampAssumption DEF DataInv, PTypeOK, AtStore, Stamps, Result
<1>7. ClockIsNewest'
  <2>1. \A u \in Tasks : hand'[u] <= clock'
    BY <1>1, <1>2, MaxStampAssumption DEF DataInv, ClockIsNewest, Stamps
  <2>2. \A e \in Collectors : RoundsUpTo(AtStore(e) \cup {last[e]}, clock')
    BY <1>2, <1>6, MaxStampAssumption DEF DataInv, ClockIsNewest, RoundsUpTo, Stamps
  <2> QED BY <1>5, <2>1, <2>2 DEF ClockIsNewest
<1>8. WriterIsNewest'
  BY <1>1, <1>5, OwnerType DEF DataInv, WriterIsNewest, RoundsUpTo
<1>9. NobodyIsOldest' /\ RecordedIsNewest'
  BY <1>1, <1>5 DEF DataInv, NobodyIsOldest, RecordedIsNewest, RoundsUpTo
<1> QED BY <1>4, <1>7, <1>8, <1>9 DEF DataInv

LEMMA DataNext == IInv /\ DataInv /\ [PNext]_pvars => DataInv'
<1> SUFFICES ASSUME IInv, DataInv, [PNext]_pvars PROVE DataInv'
  OBVIOUS
<1>0. pc \in [Tasks -> TaskStates]
  BY DEF IInv, TypeOK
<1>1. ASSUME NEW t \in Tasks, PRoundStep(t) PROVE DataInv'
  <2>1. CASE PCollectReturns(t) \/ PWriteReturns(t) \/ PCancelRound(t)
    BY <2>1, CollectKeepsOrder, WriteKeepsOrder, CancelKeepsOrder
  <2>2. CASE /\ FirstSleep(t) \/ FailFirst(t) \/ Spin(t) \/ SlotDue(t) \/ SkipOverlap(t)
                \/ Acquire(t) \/ Enqueue(t) \/ Granted(t) \/ CooldownOver(t) \/ RoundFails(t)
                \/ CancelIdle(t) \/ CancelWaiter(t)
             /\ UNCHANGED data
    <3>1. /\ phase' = phase
          /\ pc' = pc \/ \E s \in TaskStates \ {"writing"} : pc' = [pc EXCEPT ![t] = s]
      BY <2>2 DEF FirstSleep, FailFirst, Spin, SlotDue, SkipOverlap, Acquire, Enqueue, Granted,
                  CooldownOver, RoundFails, EnterRound, EndRound, CancelIdle, CancelWaiter,
                  TaskStates, vars
    <3>2. \A u \in Tasks : pc'[u] = "writing" => pc[u] = "writing"
      BY <1>0, <3>1
    <3> QED BY <2>2, <3>1, <3>2, NothingMoves
  <2> QED BY <1>1, <2>1, <2>2 DEF PRoundStep
<1>2. ASSUME NEW r \in Requests, POnceStep(r) PROVE DataInv'
  <2>1. ASSUME NEW c \in Collectors, POnceCollectReturns(r, c) \/ POnceCollectRaises(r, c)
        PROVE  DataInv'
    BY <2>1, OnceCollectKeepsOrder
  <2>2. CASE POnceWriteReturns(r)
    BY <2>2, OnceWriteKeepsOrder
  <2>3. CASE (RunOnce(r) \/ OnceGathered(r) \/ OnceForgotten(r)) /\ UNCHANGED data
    BY <2>3, NothingMoves DEF RunOnce, OnceGathered, OnceForgotten
  <2> QED BY <1>2, <2>1, <2>2, <2>3 DEF POnceStep
<1>3. CASE LateArrival
  BY <1>3, LateKeepsOrder
<1>4. CASE (Start \/ Tick \/ StopStep) /\ UNCHANGED data
  <2>1. /\ \A t \in Tasks : pc'[t] = "writing" => pc[t] = "writing"
        /\ phase' \in {"init", "running"} => phase \in {"init", "running"}
    BY <1>4 DEF Start, Tick, StopStep, Stop, AllCancelled, CloseCollector, CloseWriter, Stopped, vars
  <2> QED BY <1>4, <2>1, NothingMoves
<1>5. CASE UNCHANGED pvars
  <2>1. UNCHANGED data /\ UNCHANGED <<pc, phase>>
    BY <1>5 DEF pvars, data
  <2> QED BY <2>1, NothingMoves
<1> QED BY <1>1, <1>2, <1>3, <1>4, <1>5 DEF PNext

LEMMA PipelineInvariant == PSpec => [](IInv /\ DataInv)
<1>1. PSpec => []IInv
  BY PipelineIsScheduler, InductiveInvariant, PTL
<1>2. IInv /\ DataInv /\ [PNext]_pvars => DataInv'
  BY DataNext
<1> QED BY <1>1, <1>2, DataInit, PTL DEF PSpec

\* Every result that is in hand, gathered, recorded, stored or under way
\* carries the stamp of a collection (PTypeOK).
THEOREM PipelineTypeCorrect == PSpec => []PTypeOK
<1>1. DataInv => PTypeOK
  BY DEF DataInv
<1> QED BY <1>1, PipelineInvariant, PTL

\* While the service runs, GET /collectors shows no result older than a
\* scheduled one in the CURRENT document, whatever failed, timed out or arrived
\* late, unless run_once has put its own there (LastResultCoversCurrent).
THEOREM LastResultIsCurrent == PSpec => []LastResultCoversCurrent
<1>1. DataInv => LastResultCoversCurrent
  <2> SUFFICES ASSUME DataInv, NEW c \in Collectors, phase = "running", current[c].by = "task"
               PROVE  last[c].stamp >= current[c].stamp \/ last[c].by = "once"
    BY DEF LastResultCoversCurrent
  <2>1. last[c].by # "once" => current[c].stamp <= last[c].stamp
    BY DEF DataInv, RecordedIsNewest, RoundsUpTo, AtStore
  <2> QED BY <2>1
<1> QED BY <1>1, PipelineInvariant, PTL

\* The CURRENT document of a collector goes back to an older result only
\* through run_once or a bulk request that was given up on: the lock puts the
\* writes of the rounds in the order of their collections.
THEOREM CurrentIsOrdered == PSpec => CurrentFollowsTheRounds
<1>1. IInv /\ DataInv /\ [PNext]_pvars =>
        [\A c \in Collectors :
            current'[c].stamp < current[c].stamp =>
                \/ "once" \in {current[c].by, current'[c].by}
                \/ late' # late]_pvars
  <2> SUFFICES ASSUME IInv, DataInv, PNext, NEW c \in Collectors,
                      current'[c].stamp < current[c].stamp, late' = late
               PROVE  "once" \in {current[c].by, current'[c].by}
    OBVIOUS
  <2>0. /\ PTypeOK
        /\ current[c] \in Result /\ current[c].stamp \in Nat
        /\ \A t \in Tasks : hand[t] \in Nat
    BY MaxStampAssumption DEF DataInv, PTypeOK, Stamps, Result
  <2>1. current'[c] # current[c]
    BY <2>0
  <2>2. ASSUME NEW t \in Tasks, pc[t] = "writing",
               Bulk(CurrentDocs(Owner(t), ClassOf(t), InHand(t)))
        PROVE  current[c].by = "once"
    <3>1. c = Owner(t) /\ current'[c] = InHand(t)
      BY <2>0, <2>1, <2>2, RoundDocument, BulkEffect
    <3>2. hand[t] < current[c].stamp
      BY <3>1 DEF InHand
    <3>3. current[c].by = "task" => current[c].stamp <= hand[t]
      BY <2>2, <3>1 DEF DataInv, WriterIsNewest, RoundsUpTo, AtStore
    <3>4. current[c].by = "nobody" => current[c].stamp = 0
      BY DEF DataInv, NobodyIsOldest
    <3> QED BY <2>0, <3>2, <3>3, <3>4 DEF Result
  <2>3. ASSUME NEW t \in Tasks, PRoundStep(t) PROVE current[c].by = "once"
    <3>1. PWriteReturns(t) \/ PCancelRound(t)
      BY <2>1, <2>3 DEF PRoundStep, PCollectReturns, data
    <3>2. pc[t] = "writing" /\ Bulk(CurrentDocs(Owner(t), ClassOf(t), InHand(t)))
      BY <2>1, <3>1 DEF PWriteReturns, WriteReturns, PCancelRound
    <3> QED BY <2>2, <3>2
  <2>4. ASSUME NEW r \in Requests, POnceStep(r) PROVE current'[c].by = "once"
    <3>1. POnceWriteReturns(r)
      BY <2>1, <2>4 DEF POnceStep, POnceCollectReturns, POnceCollectRaises, data
    <3> DEFINE docs == UNION {CurrentDocs(g[1], g[2], [stamp |-> g[3], by |-> "once"]) : g \in got[r]}
    <3>2. docs \in SUBSET Documents /\ \A d \in docs : d[2].by = "once"
      BY <2>0, OnceDocuments
    <3>3. Bulk(docs)
      BY <3>1 DEF POnceWriteReturns
    <3> HIDE DEF docs
    <3>4. <<c, current'[c]>> \in docs
      BY <2>0, <2>1, <3>2, <3>3, BulkEffect
    <3> QED BY <3>2, <3>4
  <2>5. CASE LateArrival
    BY <2>5 DEF LateArrival
  <2> QED BY <2>1, <2>3, <2>4, <2>5 DEF PNext, data
<1> QED BY <1>1, PipelineInvariant, PTL DEF PSpec, CurrentFollowsTheRounds

\* What GET /collectors shows as last_result goes back only to or from a
\* result of run_once (LastResultFollowsTheRounds).
THEOREM LastResultIsOrdered == PSpec => LastResultFollowsTheRounds
<1>1. IInv /\ DataInv /\ [PNext]_pvars =>
        [\A c \in Collectors :
            last'[c].stamp < last[c].stamp => "once" \in {last[c].by, last'[c].by}]_pvars
  <2> SUFFICES ASSUME IInv, DataInv, PNext, NEW c \in Collectors, last'[c].stamp < last[c].stamp
               PROVE  "once" \in {last[c].by, last'[c].by}
    OBVIOUS
  <2>0. /\ PTypeOK
        /\ last[c] \in Result /\ last[c].stamp \in Nat
        /\ \A t \in Tasks : hand[t] \in Nat
    BY MaxStampAssumption DEF DataInv, PTypeOK, Stamps, Result
  <2>1. last'[c] # last[c]
    BY <2>0
  <2>2. ASSUME NEW t \in Tasks, PRoundStep(t) PROVE last[c].by = "once"
    <3>1. PWriteReturns(t)
      BY <2>1, <2>2 DEF PRoundStep, PCollectReturns, PCancelRound, data
    <3>2. c = Owner(t) /\ last'[c] = InHand(t) /\ pc[t] = "writing"
      BY <2>0, <2>1, <3>1 DEF PWriteReturns, WriteReturns, PTypeOK
    <3>3. hand[t] < last[c].stamp
      BY <3>2 DEF InHand
    <3>4. last[c].by = "task" => last[c].stamp <= hand[t]
      BY <3>2 DEF DataInv, WriterIsNewest, RoundsUpTo
    <3>5. last[c].by = "nobody" => last[c].stamp = 0
      BY DEF DataInv, NobodyIsOldest
    <3> QED BY <2>0, <3>3, <3>4, <3>5 DEF Result
  <2>3. ASSUME NEW r \in Requests, POnceStep(r) PROVE last'[c].by = "once"
    <3>1. POnceWriteReturns(r)
      BY <2>1, <2>3 DEF POnceStep, POnceCollectReturns, POnceCollectRaises, data
    <3>2. Gathered(r, c) # {} /\ last'[c] = Newest(Gathered(r, c))
      BY <2>1, <3>1 DEF POnceWriteReturns
    <3> QED BY <2>0, <3>2, OnceRecords
  <2>4. ~LateArrival
    BY <2>1 DEF LateArrival
  <2> QED BY <2>1, <2>2, <2>3, <2>4 DEF PNext, data
<1> QED BY <1>1, PipelineInvariant, PTL DEF PSpec, LastResultFollowsTheRounds
=============================================================================
