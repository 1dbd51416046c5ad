------------------------- MODULE CollectionPipeline -------------------------
(***************************************************************************)
(* The scheduler with the results it moves: collect() stamps a result with *)
(* collected_at, write_many turns it into documents, and _record_result    *)
(* keeps it for GET /collectors.  Only the CURRENT document of a collector *)
(* is overwritten in Elasticsearch, so that only its order matters; of a   *)
(* result just its stamp and the path it came by are kept.                 *)
(***************************************************************************)
EXTENDS CollectorScheduler

CONSTANT MaxStamp   \* bound: collections per behaviour

ASSUME MaxStampAssumption == MaxStamp \in Nat

VARIABLES
    clock,      \* the collected_at of the last result
    hand,       \* the stamp of the result each task is writing, 0 without one
    got,        \* the results each request has gathered, <<collector, class, stamp>>
    late,       \* documents of bulk requests given up on that may still arrive
    current,    \* the result in the CURRENT document of each collector
    last        \* last_results: the result recorded last for each collector

data == <<clock, hand, got, late, current, last>>
pvars == <<phase, hog, pc, locked, waiters, woken, cool, once, todo, closed,
           clock, hand, got, late, current, last>>

Stamps == 0..MaxStamp
Result == [stamp : Stamps, by : {"nobody", "task", "once"}]
NoResult == [stamp |-> 0, by |-> "nobody"]

PTypeOK ==
    /\ clock \in Stamps
    /\ hand \in [Tasks -> Stamps]
    /\ got \in [Requests -> SUBSET (Collectors \X Classes \X Stamps)]
    /\ late \in SUBSET (Collectors \X [stamp : Stamps, by : {"task", "once"}])
    /\ current \in [Collectors -> Result]
    /\ last \in [Collectors -> Result]

PInit ==
    /\ Init
    /\ clock = 0
    /\ hand = [t \in Tasks |-> 0]
    /\ got = [r \in Requests |-> {}]
    /\ late = {}
    /\ current = [c \in Collectors |-> NoResult]
    /\ last = [c \in Collectors |-> NoResult]

\* _iter_actions_for_result and _iter_networker_actions: the classes whose
\* result overwrites the CURRENT document.
Overwrites(k) == k \in {"fast", "jobs"}

\* Of the results of one call, in the order of the classes, the last one is the newest.
Newest(results) == CHOOSE d \in results : \A e \in results : e.stamp <= d.stamp

\* Documents <<collector, result>> arrive, in the order of the bulk request:
\* the last one of each collector stays.
Land(docs) ==
    current' = [c \in Collectors |->
                  LET mine == {d[2] : d \in {e \in docs : e[1] = c}}
                  IN  IF mine = {} THEN current[c] ELSE Newest(mine)]

\* write_many(): async_bulk writes everything, or raises on the first chunk
\* with an error, and write_many swallows that.  Then only some of the
\* documents are there, and if the request timed out some may arrive later.
Bulk(docs) ==
    \E here \in SUBSET docs : \E later \in SUBSET (docs \ here) :
        /\ Land(here)
        /\ late' = late \cup later

CurrentDocs(c, k, d) == IF Overwrites(k) THEN {<<c, d>>} ELSE {}

\* Mutant of PCollectReturns: the stamp is ahead of the clock.
PCollectReturnsUnstamped(t) ==
    /\ CollectReturns(t)
    /\ clock < MaxStamp
    /\ clock' = clock + 1
    /\ hand' = [hand EXCEPT ![t] = clock + 2]
    /\ UNCHANGED <<got, late, current, last>>

PCollectReturns(t) ==
    /\ CollectReturns(t)
    /\ clock < MaxStamp
    /\ clock' = clock + 1
    /\ hand' = [hand EXCEPT ![t] = clock + 1]
    /\ UNCHANGED <<got, late, current, last>>

InHand(t) == [stamp |-> hand[t], by |-> "task"]

\* Mutant of PWriteReturns: a result that was not written is not recorded.
PWriteReturnsOrFails(t) ==
    /\ WriteReturns(t)
    /\ Bulk(CurrentDocs(Owner(t), ClassOf(t), InHand(t)))
    /\ last' = IF current' = current THEN last ELSE [last EXCEPT ![Owner(t)] = InHand(t)]
    /\ hand' = [hand EXCEPT ![t] = 0]
    /\ UNCHANGED <<clock, got>>

PWriteReturns(t) ==
    /\ WriteReturns(t)
    /\ Bulk(CurrentDocs(Owner(t), ClassOf(t), InHand(t)))
    /\ last' = [last EXCEPT ![Owner(t)] = InHand(t)]
    /\ hand' = [hand EXCEPT ![t] = 0]
    /\ UNCHANGED <<clock, got>>

\* Cancelled while it writes, a round may have written, but records nothing.
PCancelRound(t) ==
    /\ CancelRound(t)
    /\ IF pc[t] = "writing"
       THEN Bulk(CurrentDocs(Owner(t), ClassOf(t), InHand(t)))
       ELSE UNCHANGED <<late, current>>
    /\ hand' = [hand EXCEPT ![t] = 0]
    /\ UNCHANGED <<clock, got, last>>

\* A bulk request that the client gave up on is carried out after all.
LateArrival ==
    \E d \in late :
        /\ Land({d})
        /\ late' = late \ {d}
        /\ UNCHANGED <<vars, clock, hand, got, last>>

POnceCollectReturns(r, c) ==
    /\ OnceCollectReturns(r, c)
    /\ clock < MaxStamp
    /\ clock' = clock + 1
    /\ got' = [got EXCEPT ![r] =
                 IF once[r] = "failed" THEN @ ELSE @ \cup {<<c, Head(todo[r][c]), clock + 1>>}]
    /\ UNCHANGED <<hand, late, current, last>>

\* The results gathered so far are lost with the request.
POnceCollectRaises(r, c) ==
    /\ OnceCollectRaises(r, c)
    /\ got' = [got EXCEPT ![r] = {}]
    /\ UNCHANGED <<clock, hand, late, current, last>>

Gathered(r, c) == {[stamp |-> g[3], by |-> "once"] : g \in {h \in got[r] : h[1] = c}}

POnceWriteReturns(r) ==
    /\ OnceWriteReturns(r)
    /\ Bulk(UNION {CurrentDocs(g[1], g[2], [stamp |-> g[3], by |-> "once"]) : g \in got[r]})
    /\ last' = [c \in Collectors |->
                  IF Gathered(r, c) = {} THEN last[c] ELSE Newest(Gathered(r, c))]
    /\ got' = [got EXCEPT ![r] = {}]
    /\ UNCHANGED <<clock, hand>>

\* Every other step of the scheduler moves no result.
PRoundStep(t) ==
    \/ PCollectReturns(t) \/ PWriteReturns(t) \/ PCancelRound(t)
    \/ /\ FirstSleep(t) \/ FailFirst(t) \/ Spin(t) \/ SlotDue(t) \/ SkipOverlap(t)
          \/ Acquire(t) \/ Enqueue(t) \/ Granted(t) \/ CooldownOver(t) \/ RoundFails(t)
          \/ CancelIdle(t) \/ CancelWaiter(t)
       /\ UNCHANGED data

POnceStep(r) ==
    \/ \E c \in Collectors : POnceCollectReturns(r, c) \/ POnceCollectRaises(r, c)
    \/ POnceWriteReturns(r)
    \/ (RunOnce(r) \/ OnceGathered(r) \/ OnceForgotten(r)) /\ UNCHANGED data

PNext ==
    \/ \E t \in Tasks : PRoundStep(t)
    \/ \E r \in Requests : POnceStep(r)
    \/ LateArrival
    \/ (Start \/ Tick \/ StopStep) /\ UNCHANGED data

PSpec == PInit /\ [][PNext]_pvars

-----------------------------------------------------------------------------
(* Properties.                                                              *)

\* The scheduled rounds of a collector overwrite its CURRENT document in the
\* order in which they collected: only where run_once wrote one of the two
\* results, or a bulk request arrived late, does an older result replace a
\* newer one (_collect_write_record writes inside the lock).
CurrentFollowsTheRounds ==
    [][\A c \in Collectors :
          current'[c].stamp < current[c].stamp =>
              \/ "once" \in {current[c].by, current'[c].by}
              \/ late' # late]_pvars

\* What GET /collectors shows as last_result goes back only to or from a
\* result of run_once (_record_result is called inside the lock).
LastResultFollowsTheRounds ==
    [][\A c \in Collectors :
          last'[c].stamp < last[c].stamp =>
              "once" \in {last[c].by, last'[c].by}]_pvars

\* While the service runs, last_result is no older than a scheduled result in
\* the CURRENT document: every result is recorded, also one whose write fails
\* or arrives late, unless run_once has put an older one in its place
\* (write_many swallows its errors, so that _record_result always follows).
LastResultCoversCurrent ==
    \A c \in Collectors :
        phase = "running" /\ current[c].by = "task" =>
            last[c].stamp >= current[c].stamp \/ last[c].by = "once"
=============================================================================
