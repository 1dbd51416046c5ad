------------------------ MODULE NetworkerRoundsProofs ------------------------
(***************************************************************************)
(* The rounds of the NetWorker collector, for every plan, server and       *)
(* number of retries: their types, the pause between two requests, the     *)
(* time a round may take, and the gauges of a round without an answer.     *)
(***************************************************************************)
EXTENDS NetworkerRounds, FiniteSetTheorems, TLAPS

-----------------------------------------------------------------------------
(* Lists and powers.                                                         *)

\* The places of a finite set are numbered from 1 without a gap; one of them is the last.
LEMMA PlacesAreNumbered ==
    ASSUME NEW places \in SUBSET Nat, IsFiniteSet(places)
    PROVE  /\ Cardinality(places) \in Nat
           /\ \A k \in 1..Cardinality(places) : Place(places, k) \in places
           /\ \A i \in places : \E k \in 1..Cardinality(places) : Place(places, k) = i
           /\ places # {} => \E i \in places : \A j \in places : j <= i
<1> DEFINE n == Cardinality(places)
           upTo(i) == {j \in places : j <= i}
           rank == [i \in places |-> Cardinality(upTo(i))]
<1>1. n \in Nat /\ IsFiniteSet(1..n) /\ Cardinality(1..n) = n
  BY FS_CardinalityType, FS_Interval
<1>2. \A i \in places : /\ IsFiniteSet(upTo(i)) /\ Cardinality(upTo(i)) \in 1..n
  <2> SUFFICES ASSUME NEW i \in places
               PROVE  IsFiniteSet(upTo(i)) /\ Cardinality(upTo(i)) \in 1..n
    OBVIOUS
  <2>1. upTo(i) \in SUBSET places /\ i \in upTo(i)
    OBVIOUS
  <2> HIDE DEF upTo
  <2>2. IsFiniteSet(upTo(i)) /\ Cardinality(upTo(i)) <= n
    BY <2>1, FS_Subset
  <2>3. Cardinality(upTo(i)) \in Nat /\ Cardinality(upTo(i)) # 0
    BY <2>1, <2>2, FS_CardinalityType, FS_EmptySet
  <2> QED BY <1>1, <2>2, <2>3
<1>3. ASSUME NEW i \in places, NEW j \in places, i < j
      PROVE  rank[i] # rank[j]
  <2>1. \A h \in places : h <= i => h <= j
    BY <1>3
  <2>2. j \in upTo(j) /\ j \notin upTo(i)
    BY <1>3
  <2>3. upTo(i) \in SUBSET upTo(j) /\ upTo(i) # upTo(j)
    BY <2>1, <2>2
  <2> HIDE DEF upTo
  <2>4. Cardinality(upTo(i)) # Cardinality(upTo(j))
    BY <1>2, <2>3, FS_Subset
  <2> QED BY <2>4
<1>4. rank \in [places -> 1..n]
  BY <1>2
<1>5. \A i, j \in places : rank[i] = rank[j] => i = j
  <2> SUFFICES ASSUME NEW i \in places, NEW j \in places, i # j
               PROVE  rank[i] # rank[j]
    OBVIOUS
  <2>1. i < j \/ j < i
    OBVIOUS
  <2> QED BY <1>3, <2>1
<1>6. \A i \in places : rank[i] = Cardinality({j \in places : j <= i})
  OBVIOUS
<1> HIDE DEF rank
<1>7. rank \in Injection(places, 1..n)
  BY <1>4, <1>5 DEF Injection, IsInjective
<1>8. rank \in Surjection(places, 1..n)
  BY <1>1, <1>7, FS_Injection
<1>9. \A k \in 1..n : \E i \in places : rank[i] = k
  BY <1>8 DEF Surjection
<1>10. \A k \in 1..n : Place(places, k) \in places /\ rank[Place(places, k)] = k
  BY <1>6, <1>9 DEF Place
<1>11. ASSUME NEW i \in places
       PROVE  \E k \in 1..n : Place(places, k) = i
  <2>1. rank[i] \in 1..n
    BY <1>4
  <2> QED BY <1>5, <1>10, <2>1
<1>12. ASSUME places # {}
       PROVE  \E i \in places : \A j \in places : j <= i
  <2>1. n # 0
    BY <1>12, FS_EmptySet
  <2>2. PICK i \in places : rank[i] = n
    BY <1>1, <1>9, <2>1
  <2>3. Cardinality(upTo(i)) = n
    BY <2>2 DEF rank
  <2>4. upTo(i) \in SUBSET places /\ \A j \in upTo(i) : j <= i
    OBVIOUS
  <2> HIDE DEF upTo
  <2>5. upTo(i) = places
    BY <2>3, <2>4, FS_Subset
  <2> QED BY <2>4, <2>5
<1> QED BY <1>1, <1>10, <1>11, <1>12

\* Of a list only items at the places are picked, and each of them is.
LEMMA ItemsArePicked ==
    ASSUME NEW s, IsFiniteSet(DOMAIN s), DOMAIN s \in SUBSET Nat, NEW places \in SUBSET DOMAIN s
    PROVE  /\ Cardinality(places) \in Nat /\ Cardinality(places) <= Cardinality(DOMAIN s)
           /\ DOMAIN Picked(s, places) = 1..Cardinality(places)
           /\ Len(Picked(s, places)) = Cardinality(places)
           /\ \A k \in DOMAIN Picked(s, places) : \E i \in places : Picked(s, places)[k] = s[i]
           /\ \A i \in places : \E k \in DOMAIN Picked(s, places) : Picked(s, places)[k] = s[i]
<1>1. IsFiniteSet(places) /\ Cardinality(places) <= Cardinality(DOMAIN s)
  BY FS_Subset
<1>2. /\ Cardinality(places) \in Nat
      /\ \A k \in 1..Cardinality(places) : Place(places, k) \in places
      /\ \A i \in places : \E k \in 1..Cardinality(places) : Place(places, k) = i
  BY <1>1, PlacesAreNumbered
<1>3. /\ DOMAIN Picked(s, places) = 1..Cardinality(places)
      /\ \A k \in 1..Cardinality(places) : Picked(s, places)[k] = s[Place(places, k)]
  BY DEF Picked
<1>4. Len(Picked(s, places)) = Cardinality(places)
  BY <1>2, <1>3
<1> QED BY <1>1, <1>2, <1>3, <1>4

\* The powers of 2, of which the prover knows but 2^0, as numbers of subsets.
LEMMA PowersOfTwo ==
    /\ 2^0 = 1
    /\ \A n \in Nat : 2^n \in Nat /\ 2^(n + 1) = 2 * 2^n
    /\ \A m, n \in Nat : m <= n => 2^m <= 2^n
<1> DEFINE subsets(n) == SUBSET (1..n)
<1>1. \A n \in Nat : IsFiniteSet(subsets(n)) /\ Cardinality(subsets(n)) = 2^n
  <2> SUFFICES ASSUME NEW n \in Nat
               PROVE  IsFiniteSet(subsets(n)) /\ Cardinality(subsets(n)) = 2^n
    OBVIOUS
  <2>1. IsFiniteSet(1..n) /\ Cardinality(1..n) = n
    BY FS_Interval
  <2>2. IsFiniteSet(SUBSET (1..n)) /\ Cardinality(SUBSET (1..n)) = 2^Cardinality(1..n)
    BY <2>1, FS_SUBSET
  <2> QED BY <2>1, <2>2
<1>2. \A n \in Nat : 2^n \in Nat
  BY <1>1, FS_CardinalityType
<1>3. ASSUME NEW m \in Nat, NEW n \in Nat, m <= n
      PROVE  2^m <= 2^n
  <2>1. subsets(m) \in SUBSET subsets(n)
    BY <1>3
  <2> HIDE DEF subsets
  <2> QED BY <1>1, <2>1, FS_Subset
<1>4. ASSUME NEW n \in Nat
      PROVE  2^(n + 1) = 2 * 2^n
  <2> DEFINE more == {A \cup {n + 1} : A \in subsets(n)}
             add == [A \in subsets(n) |-> A \cup {n + 1}]
  <2>1. add \in Bijection(subsets(n), more)
    <3>1. add \in [subsets(n) -> more] /\ \A B \in more : \E A \in subsets(n) : add[A] = B
      OBVIOUS
    <3>2. ASSUME NEW A \in subsets(n), NEW B \in subsets(n), add[A] = add[B]
          PROVE  A = B
      <4>1. n + 1 \notin A /\ n + 1 \notin B /\ A \cup {n + 1} = B \cup {n + 1}
        BY <3>2
      <4> QED BY <4>1
    <3> HIDE DEF add, more, subsets
    <3> QED BY <3>1, <3>2 DEF Bijection, Injection, Surjection, IsInjective
  <2>2. IsFiniteSet(more) /\ Cardinality(more) = 2^n
    <3> HIDE DEF add, more, subsets
    <3>1. ExistsBijection(subsets(n), more)
      BY <2>1 DEF ExistsBijection
    <3> QED BY <1>1, <3>1, FS_Bijection
  <2>3. subsets(n) \cap more = {}
    OBVIOUS
  <2>4. subsets(n + 1) = subsets(n) \cup more
    <3>1. ASSUME NEW B \in subsets(n + 1)
          PROVE  B \in subsets(n) \cup more
      <4>1. B \ {n + 1} \in subsets(n)
        BY <3>1
      <4>2. CASE n + 1 \in B
        BY <4>1, <4>2, B = (B \ {n + 1}) \cup {n + 1}
      <4>3. CASE n + 1 \notin B
        BY <4>1, <4>3, B = B \ {n + 1}
      <4> QED BY <4>2, <4>3
    <3>2. ASSUME NEW B \in subsets(n) \cup more
          PROVE  B \in subsets(n + 1)
      <4>1. 1..n \in SUBSET (1..n + 1) /\ n + 1 \in 1..n + 1
        OBVIOUS
      <4> QED BY <4>1
    <3> HIDE DEF more, subsets
    <3> QED BY <3>1, <3>2
  <2> HIDE DEF more, subsets
  <2>5. /\ IsFiniteSet(subsets(n)) /\ Cardinality(subsets(n)) = 2^n
        /\ Cardinality(subsets(n + 1)) = 2^(n + 1)
    BY <1>1
  <2>6. Cardinality(subsets(n) \cup more)
          = Cardinality(subsets(n)) + Cardinality(more) - Cardinality(subsets(n) \cap more)
    BY <2>2, <2>5, FS_Union
  <2>7. 2^(n + 1) = 2^n + 2^n - 0
    BY <2>2, <2>3, <2>4, <2>5, <2>6, FS_EmptySet
  <2> QED BY <1>2, <2>7
<1>5. 2^0 = 1
  OBVIOUS
<1> QED BY <1>2, <1>3, <1>4, <1>5

-----------------------------------------------------------------------------
(* The pause between two requests.                                           *)

RoundFields == {"class", "windowEnd", "plan", "next", "attempt", "phase", "wake", "sent",
                "responses", "errors"}

\* The first try of a request, after another one of its round, waits for the pause.
Paced ==
    (round # NoRound /\ round.phase = "asleep" /\ round.attempt = 1 /\ lastEnd # None)
        => round.wake = lastEnd + Spacing

PacingInv ==
    /\ round # NoRound => DOMAIN round = RoundFields /\ round.attempt \in Nat \ {0}
    /\ Paced

\* PacingInv holds before the first round.
LEMMA PacingInit == Init => PacingInv
BY DEF Init, PacingInv, Paced, NoRound

\* The loop keeps PacingInv: going on sets the timer from the end of the request.
LEMMA PacingFetch ==
    ASSUME PacingInv, SendRequest \/ AnswerArrives \/ RequestFails \/ Retry
    PROVE  PacingInv'
<1> USE DEF PacingInv, Paced, RoundFields
<1>1. CASE SendRequest
  <2>1. round # NoRound /\ round' = [round EXCEPT !.phase = "sent", !.sent = clock]
    BY <1>1 DEF SendRequest, Send, Active
  <2> QED BY <2>1 DEF NoRound
<1>2. CASE AnswerArrives
  <2>1. round # NoRound /\ lastEnd' = clock
    BY <1>2 DEF AnswerArrives, Receive, Active
  <2>2. PICK answer : round' = Proceed([round EXCEPT !.responses = Over([n \in {Request.name} |-> answer], @)])
    BY <1>2 DEF AnswerArrives, Receive
  <2> DEFINE r == [round EXCEPT !.responses = (Request.name :> answer) @@ @]
  <2>3. DOMAIN r = RoundFields
    BY <2>1
  <2>4. /\ DOMAIN round' = RoundFields
        /\ round'.attempt = 1 /\ round'.wake = clock + Spacing
    BY <2>2, <2>3 DEF Proceed
  <2> QED BY <2>1, <2>4
<1>3. CASE RequestFails
  <2>1. round # NoRound /\ lastEnd' = clock
    BY <1>3 DEF RequestFails, Fail, Active
  <2> DEFINE r == [round EXCEPT !.errors = @ \cup {Request.name}]
  <2>2. round' = Proceed(r) /\ DOMAIN r = RoundFields
    BY <1>3, <2>1 DEF RequestFails, Fail
  <2>3. /\ DOMAIN round' = RoundFields
        /\ round'.attempt = 1 /\ round'.wake = clock + Spacing
    BY <2>2 DEF Proceed
  <2> QED BY <2>1, <2>3
<1>4. CASE Retry
  <2>1. round # NoRound
    BY <1>4 DEF Retry, RetryLater, Active
  <2>2. DOMAIN round' = RoundFields /\ round'.attempt = round.attempt + 1
    BY <1>4, <2>1 DEF Retry, RetryLater
  <2> QED BY <2>1, <2>2
<1> QED BY <1>1, <1>2, <1>3, <1>4

\* Every step keeps PacingInv.
LEMMA PacingNext == PacingInv /\ [Next]_vars => PacingInv'
<1> SUFFICES ASSUME PacingInv, [Next]_vars
             PROVE  PacingInv'
  OBVIOUS
<1>1. ASSUME UNCHANGED <<round, lastEnd>>
      PROVE  PacingInv'
  BY <1>1 DEF PacingInv, Paced
<1>2. ASSUME NEW class \in schedules, Begin(class)
      PROVE  PacingInv'
  BY <1>2 DEF Begin, BeginRound, PacingInv, Paced, RoundFields
<1>3. ASSUME round' = NoRound
      PROVE  PacingInv'
  BY <1>3 DEF PacingInv, Paced
<1>4. CASE Process
  BY <1>1, <1>2, <1>3, <1>4, PacingFetch
     DEF Process, Collect, CollectRaises, Write, WriteFails, clientvars, history
<1>5. CASE ServerChanges \/ TimePasses \/ UNCHANGED vars
  BY <1>1, <1>5 DEF ServerChanges, TimePasses, Tick, vars, clientvars, history
<1>6. CASE Restart
  BY <1>3, <1>6 DEF Restart
<1> QED BY <1>4, <1>5, <1>6 DEF Next

\* Two requests of a round are rest_request_spacing_seconds apart, counted from the
\* end of the first with all its retries.
THEOREM RequestsKeepTheirSpacing == Spec => RequestsAreSpaced
<1>1. PacingInv /\ [Next]_vars
        => [(SendRequest /\ round.attempt = 1 /\ lastEnd # None) => clock >= lastEnd + Spacing]_vars
  BY DEF PacingInv, Paced, SendRequest, Send, Active
<1> QED BY <1>1, PacingInit, PacingNext, PTL DEF Spec, RequestsAreSpaced

-----------------------------------------------------------------------------
(* Types.                                                                    *)

\* A round in progress: its plan, and how far it has come.
RoundInv ==
    round # NoRound =>
        /\ DOMAIN round = RoundFields
        /\ round.class \in schedules
        /\ Len(round.plan) \in Nat /\ DOMAIN round.plan = 1..Len(round.plan)
        /\ round.next \in 1..Len(round.plan) + 1
        /\ round.attempt \in 1..MaxAttempts
        /\ round.phase \in {"asleep", "sent"}
        /\ round.phase = "sent" => round.next <= Len(round.plan)
        /\ DOMAIN round.responses \cup round.errors = {round.plan[i].name : i \in 1..round.next - 1}

\* There is at least one attempt, whatever "retries" is.
LEMMA AttemptsArePositive == MaxAttempts \in Nat \ {0}
BY RetryAssumption DEF MaxAttempts

\* A plan has its requests numbered, and one name for each.
LEMMA PlansAreSequences ==
    ASSUME NEW class, NEW end
    PROVE  LET plan == BuildRequestPlan(class, end)
               names == EndpointsForClass(class)
           IN  /\ Len(plan) \in Nat /\ DOMAIN plan = 1..Len(plan)
               /\ DOMAIN names = DOMAIN plan
               /\ \A i \in DOMAIN plan : plan[i] = RequestSpec(names[i], end)
<1> DEFINE names == EndpointsForClass(class)
           chosen == {i \in DOMAIN Endpoints : Endpoints[i] \in ClassEndpoints(class)}
<1>1. Len(Endpoints) \in Nat /\ DOMAIN Endpoints = 1..Len(Endpoints)
  BY EndpointsAssumption
<1>2. \E n \in Nat : DOMAIN names = 1..n
  <2>1. CASE Cardinality(schedules) > 1
    <3>1. IsFiniteSet(DOMAIN Endpoints) /\ DOMAIN Endpoints \in SUBSET Nat
      BY <1>1, FS_Interval
    <3>2. names = Picked(Endpoints, chosen) /\ chosen \in SUBSET DOMAIN Endpoints
      BY <2>1 DEF EndpointsForClass
    <3> HIDE DEF names, chosen
    <3> QED BY <3>1, <3>2, ItemsArePicked
  <2>2. CASE ~(Cardinality(schedules) > 1)
    BY <1>1, <2>2 DEF EndpointsForClass
  <2> QED BY <2>1, <2>2
<1>3. BuildRequestPlan(class, end) = [i \in DOMAIN names |-> RequestSpec(names[i], end)]
  BY DEF BuildRequestPlan
<1> HIDE DEF names
<1>4. PICK n \in Nat : DOMAIN names = 1..n
  BY <1>2
<1>5. /\ DOMAIN BuildRequestPlan(class, end) = 1..n
      /\ \A i \in 1..n : BuildRequestPlan(class, end)[i] = RequestSpec(names[i], end)
  BY <1>3, <1>4
<1>6. Len(BuildRequestPlan(class, end)) = n
  BY <1>5
<1> QED BY <1>4, <1>5, <1>6 DEF names

\* What a new round is.
LEMMA BeginFields ==
    ASSUME NEW class \in schedules, Begin(class)
    PROVE  /\ round = NoRound /\ round' # NoRound /\ DOMAIN round' = RoundFields
           /\ round'.class = class /\ round'.windowEnd = clock
           /\ round'.plan = BuildRequestPlan(class, clock)
           /\ round'.next = 1 /\ round'.attempt = 1 /\ round'.phase = "asleep"
           /\ round'.wake = clock /\ round'.sent = clock
           /\ round'.responses = <<>> /\ round'.errors = {}
           /\ clock <= Horizon /\ lastEnd' = None
           /\ requests' = requests + Len(round'.plan) /\ requests' <= MaxRequests
           /\ UNCHANGED <<clock, servervars, schedules, result, gauges, store, covered>>
<1>1. /\ round' = [class |-> class, windowEnd |-> clock,
                   plan |-> BuildRequestPlan(class, clock),
                   next |-> 1, attempt |-> 1,
                   phase |-> "asleep", wake |-> clock, sent |-> clock,
                   responses |-> <<>>, errors |-> {}]
      /\ round = NoRound
  BY DEF Begin, BeginRound
<1>2. round' # NoRound
  BY <1>1 DEF NoRound
<1> QED BY <1>1, <1>2 DEF Begin, RoundFields

\* What a round is after a request that is over: the next one is due after the pause.
GoesOn ==
    /\ round'.next = round.next + 1 /\ round'.attempt = 1 /\ round'.phase = "asleep"
    /\ round'.wake = clock + Spacing /\ round'.sent = round.sent
    /\ lastEnd' = clock

\* What the steps of the loop do to the round.
LEMMA FetchFields ==
    ASSUME RoundInv, SendRequest \/ AnswerArrives \/ RequestFails \/ Retry
    PROVE  /\ round # NoRound /\ round' # NoRound /\ DOMAIN round' = RoundFields
           /\ round'.class = round.class /\ round'.windowEnd = round.windowEnd
           /\ round'.plan = round.plan
           /\ UNCHANGED <<clock, servervars, schedules, result, gauges, store, covered, requests>>
           /\ SendRequest =>
                /\ round.phase = "asleep" /\ ~Fetched /\ clock >= round.wake
                /\ round'.next = round.next /\ round'.attempt = round.attempt
                /\ round'.phase = "sent" /\ round'.sent = clock
                /\ UNCHANGED <<round.responses, round.errors>>
           /\ AnswerArrives =>
                /\ round.phase = "sent" /\ GoesOn
                /\ \E answer \in AnswersTo(Request) :
                      round'.responses = Over([n \in {Request.name} |-> answer], round.responses)
                /\ round'.errors = round.errors
           /\ RequestFails =>
                /\ round.phase = "sent" /\ GoesOn
                /\ round'.responses = round.responses
                /\ round'.errors = round.errors \cup {Request.name}
           /\ Retry =>
                /\ round.phase = "sent" /\ round.attempt < MaxAttempts
                /\ round'.next = round.next /\ round'.attempt = round.attempt + 1
                /\ round'.phase = "asleep"
                /\ round'.wake = clock + Backoff * 2 ^ (round.attempt - 1)
                /\ UNCHANGED <<round.responses, round.errors>>
<1> DEFINE kept ==
             /\ round # NoRound /\ round' # NoRound /\ DOMAIN round' = RoundFields
             /\ round'.class = round.class /\ round'.windowEnd = round.windowEnd
             /\ round'.plan = round.plan
             /\ UNCHANGED <<clock, servervars, schedules, result, gauges, store, covered, requests>>
<1>1. round # NoRound /\ DOMAIN round = RoundFields
  BY DEF RoundInv, SendRequest, AnswerArrives, RequestFails, Retry, Send, Receive, Fail,
         RetryLater, Active
<1>0. "next" \in RoundFields /\ DOMAIN NoRound = {"class"}
  BY DEF RoundFields, NoRound
<1>2. ASSUME SendRequest
      PROVE  /\ kept /\ round.phase = "asleep" /\ ~Fetched /\ clock >= round.wake
             /\ round'.next = round.next /\ round'.attempt = round.attempt
             /\ round'.phase = "sent" /\ round'.sent = clock
             /\ UNCHANGED <<round.responses, round.errors>>
  <2>1. round' = [round EXCEPT !.phase = "sent", !.sent = clock]
    BY <1>2 DEF SendRequest, Send
  <2>2. DOMAIN round' = RoundFields
    BY <1>1, <2>1
  <2>3. round' # NoRound
    BY <1>0, <2>2
  <2> QED BY <1>1, <1>2, <2>1, <2>2, <2>3 DEF SendRequest, Send, Active, FetchUnchanged, RoundFields
<1>3. ASSUME AnswerArrives
      PROVE  /\ kept /\ round.phase = "sent" /\ GoesOn
             /\ \E answer \in AnswersTo(Request) :
                   round'.responses = Over([n \in {Request.name} |-> answer], round.responses)
             /\ round'.errors = round.errors
  <2>1. PICK answer \in AnswersTo(Request) :
            round' = Proceed([round EXCEPT !.responses = Over([n \in {Request.name} |-> answer], @)])
    BY <1>3 DEF AnswerArrives, Receive
  <2> DEFINE given == [n \in {Request.name} |-> answer]
             more == Over(given, round.responses)
             r == [round EXCEPT !.responses = more]
  <2>2. round' = Proceed(r)
    BY <2>1
  <2> HIDE DEF more
  <2>3. /\ DOMAIN r = RoundFields /\ r.responses = more /\ r.class = round.class
        /\ r.windowEnd = round.windowEnd /\ r.plan = round.plan /\ r.next = round.next
        /\ r.sent = round.sent /\ r.errors = round.errors
    BY <1>1 DEF RoundFields
  <2> HIDE DEF r
  <2>4. /\ DOMAIN round' = RoundFields /\ round'.responses = more /\ round'.class = r.class
        /\ round'.windowEnd = r.windowEnd /\ round'.plan = r.plan /\ round'.next = r.next + 1
        /\ round'.attempt = 1 /\ round'.phase = "asleep" /\ round'.wake = clock + Spacing
        /\ round'.sent = r.sent /\ round'.errors = r.errors
    BY <2>2, <2>3 DEF Proceed, RoundFields
  <2>5. round' # NoRound
    BY <1>0, <2>4
  <2>6. round.phase = "sent" /\ lastEnd' = clock /\ FetchUnchanged
    BY <1>3 DEF AnswerArrives, Receive, Active
  <2>7. \E a \in AnswersTo(Request) :
            round'.responses = Over([n \in {Request.name} |-> a], round.responses)
    BY <2>1, <2>4 DEF more
  <2> QED BY <1>1, <2>3, <2>4, <2>5, <2>6, <2>7 DEF GoesOn, FetchUnchanged
<1>4. ASSUME RequestFails
      PROVE  /\ kept /\ round.phase = "sent" /\ GoesOn
             /\ round'.responses = round.responses
             /\ round'.errors = round.errors \cup {Request.name}
  <2> DEFINE more == round.errors \cup {Request.name}
             r == [round EXCEPT !.errors = more]
  <2>1. round' = Proceed(r)
    BY <1>4 DEF RequestFails, Fail
  <2> HIDE DEF more
  <2>2. /\ DOMAIN r = RoundFields /\ r.responses = round.responses /\ r.class = round.class
        /\ r.windowEnd = round.windowEnd /\ r.plan = round.plan /\ r.next = round.next
        /\ r.sent = round.sent /\ r.errors = more
    BY <1>1 DEF RoundFields
  <2> HIDE DEF r
  <2>3. /\ DOMAIN round' = RoundFields /\ round'.responses = r.responses
        /\ round'.class = r.class /\ round'.windowEnd = r.windowEnd /\ round'.plan = r.plan
        /\ round'.next = r.next + 1 /\ round'.attempt = 1 /\ round'.phase = "asleep"
        /\ round'.wake = clock + Spacing /\ round'.sent = r.sent /\ round'.errors = r.errors
    BY <2>1, <2>2 DEF Proceed, RoundFields
  <2>4. round' # NoRound
    BY <1>0, <2>3
  <2>5. round.phase = "sent" /\ lastEnd' = clock /\ FetchUnchanged
    BY <1>4 DEF RequestFails, Fail, Active
  <2> QED BY <1>1, <2>2, <2>3, <2>4, <2>5 DEF GoesOn, FetchUnchanged, more
<1>5. ASSUME Retry
      PROVE  /\ kept /\ round.phase = "sent" /\ round.attempt < MaxAttempts
             /\ round'.next = round.next /\ round'.attempt = round.attempt + 1
             /\ round'.phase = "asleep"
             /\ round'.wake = clock + Backoff * 2 ^ (round.attempt - 1)
             /\ UNCHANGED <<round.responses, round.errors>>
  <2> DEFINE pause == Backoff * 2 ^ (round.attempt - 1)
  <2>1. round' = [round EXCEPT !.attempt = @ + 1, !.phase = "asleep", !.wake = clock + pause]
    BY <1>5 DEF Retry, RetryLater
  <2>2. round.phase = "sent" /\ round.attempt < MaxAttempts /\ FetchUnchanged
    BY <1>5 DEF Retry, RetryLater, Active
  <2> HIDE DEF pause
  <2>3. /\ DOMAIN round' = RoundFields /\ round'.responses = round.responses
        /\ round'.class = round.class /\ round'.windowEnd = round.windowEnd
        /\ round'.plan = round.plan /\ round'.next = round.next
        /\ round'.attempt = round.attempt + 1 /\ round'.phase = "asleep"
        /\ round'.wake = clock + pause /\ round'.sent = round.sent
        /\ round'.errors = round.errors
    BY <1>1, <2>1 DEF RoundFields
  <2>4. round' # NoRound
    BY <1>0, <2>3
  <2> QED BY <1>1, <2>2, <2>3, <2>4 DEF pause, FetchUnchanged
<1> HIDE DEF kept
<1>6. kept
  BY <1>2, <1>3, <1>4, <1>5
<1> QED BY <1>2, <1>3, <1>4, <1>5, <1>6 DEF kept

\* The type invariant and what a round in progress is.
TypeInv == TypeOK /\ RoundInv

\* TypeInv holds before the first round.
LEMMA TypeInit == Init => TypeInv
<1> SUFFICES ASSUME Init
             PROVE  TypeInv
  OBVIOUS
<1>1. ServerTypeOK
  BY DEF Init, ServerInit, ServerTypeOK, Times, None, Running
<1> QED BY <1>1, MaxRequestsAssumption DEF Init, TypeInv, TypeOK, RoundInv, TimedEndpoints

\* A round that begins.
LEMMA TypeBegin ==
    ASSUME TypeInv, NEW class \in schedules, Begin(class)
    PROVE  TypeInv'
<1> DEFINE plan == BuildRequestPlan(class, clock)
<1>1. Len(plan) \in Nat /\ DOMAIN plan = 1..Len(plan)
  BY PlansAreSequences
<1> HIDE DEF plan
<1>2. /\ round' # NoRound /\ DOMAIN round' = RoundFields
      /\ round'.class = class /\ round'.plan = plan
      /\ round'.next = 1 /\ round'.attempt = 1 /\ round'.phase = "asleep"
      /\ round'.responses = <<>> /\ round'.errors = {}
      /\ requests' = requests + Len(round'.plan) /\ requests' <= MaxRequests
      /\ UNCHANGED <<clock, servervars, schedules, result, covered>>
      /\ round = NoRound
  BY BeginFields DEF plan
<1>3. RoundInv'
  BY <1>1, <1>2, AttemptsArePositive DEF RoundInv
<1>4. requests' \in 0..MaxRequests
  BY <1>1, <1>2, MaxRequestsAssumption DEF TypeInv, TypeOK
<1>5. result = NoResult
  BY <1>2 DEF TypeInv, TypeOK, Fetched
<1>6. ServerTypeOK' /\ (schedules \in ScheduleSets)' /\ DOMAIN covered' = TimedEndpoints
  BY <1>2 DEF TypeInv, TypeOK, ServerTypeOK, servervars, Times
<1> QED BY <1>2, <1>3, <1>4, <1>5, <1>6 DEF TypeInv, TypeOK, RoundInv

\* The loop of requests.
LEMMA TypeFetch ==
    ASSUME TypeInv, SendRequest \/ AnswerArrives \/ RequestFails \/ Retry
    PROVE  TypeInv'
<1>1. RoundInv
  BY DEF TypeInv
<1>2. /\ round # NoRound /\ round' # NoRound /\ DOMAIN round' = RoundFields
      /\ round'.class = round.class /\ round'.plan = round.plan
      /\ UNCHANGED <<clock, servervars, schedules, result, gauges, store, covered, requests>>
  BY <1>1, FetchFields
<1>3. ~Fetched
  <2>1. CASE SendRequest
    BY <2>1 DEF SendRequest, Send
  <2>2. CASE AnswerArrives \/ RequestFails \/ Retry
    BY <1>1, <2>2 DEF AnswerArrives, RequestFails, Retry, Receive, Fail, RetryLater, Active,
                      Fetched, RoundInv
  <2> QED BY <2>1, <2>2
<1>4. result = NoResult
  BY <1>3 DEF TypeInv, TypeOK
<1>5. RoundInv'
  <2>0. /\ Len(round.plan) \in Nat /\ DOMAIN round.plan = 1..Len(round.plan)
        /\ round.next \in 1..Len(round.plan) /\ round.attempt \in 1..MaxAttempts
        /\ DOMAIN round.responses \cup round.errors
              = {round.plan[i].name : i \in 1..round.next - 1}
        /\ round.class \in schedules
    BY <1>1, <1>2, <1>3 DEF RoundInv, Fetched
  <2>1. CASE SendRequest
    BY <1>1, <1>2, <2>0, <2>1, FetchFields DEF RoundInv
  <2>2. CASE Retry
    <3>1. /\ round.attempt < MaxAttempts
          /\ round'.next = round.next /\ round'.attempt = round.attempt + 1
          /\ round'.phase = "asleep"
          /\ round'.responses = round.responses /\ round'.errors = round.errors
      BY <1>1, <2>2, FetchFields
    <3>2. round'.attempt \in 1..MaxAttempts
      BY <2>0, <3>1, AttemptsArePositive
    <3>3. DOMAIN round'.responses \cup round'.errors
            = {round'.plan[i].name : i \in 1..round'.next - 1}
      BY <1>2, <2>0, <3>1, Zenon
    <3> QED BY <1>2, <2>0, <3>1, <3>2, <3>3 DEF RoundInv
  <2>3. CASE AnswerArrives \/ RequestFails
    <3>1. /\ round'.next = round.next + 1 /\ round'.attempt = 1 /\ round'.phase = "asleep"
      BY <1>1, <2>3, FetchFields DEF GoesOn
    <3>2. DOMAIN round'.responses \cup round'.errors
            = (DOMAIN round.responses \cup round.errors) \cup {Request.name}
      BY <1>1, <2>3, FetchFields DEF Over
    <3>3. Request.name = round.plan[round.next].name
      BY DEF Request
    <3>4. {round.plan[i].name : i \in 1..round.next}
            = {round.plan[i].name : i \in 1..round.next - 1} \cup {round.plan[round.next].name}
      BY <2>0
    <3>5. DOMAIN round'.responses \cup round'.errors
            = {round'.plan[i].name : i \in 1..round'.next - 1}
      <4>1. round'.next - 1 = round.next
        BY <2>0, <3>1
      <4>2. {round'.plan[i].name : i \in 1..round'.next - 1}
              = {round.plan[i].name : i \in 1..round.next}
        BY <1>2, <4>1, Zenon
      <4>3. DOMAIN round'.responses \cup round'.errors = {round.plan[i].name : i \in 1..round.next}
        BY <2>0, <3>2, <3>3, <3>4, Zenon
      <4> QED BY <4>2, <4>3, Zenon
    <3> QED BY <1>2, <2>0, <3>1, <3>5, AttemptsArePositive DEF RoundInv
  <2> QED BY <2>1, <2>2, <2>3
<1>6. ServerTypeOK' /\ (schedules \in ScheduleSets)' /\ DOMAIN covered' = TimedEndpoints
  BY <1>2 DEF TypeInv, TypeOK, ServerTypeOK, servervars, Times
<1> QED BY <1>2, <1>4, <1>5, <1>6 DEF TypeInv, TypeOK, RoundInv

\* The server changes, and time passes.
LEMMA TypeServer ==
    ASSUME TypeInv, ServerChanges \/ TimePasses
    PROVE  TypeInv'
<1>1. UNCHANGED <<schedules, round, result, covered, requests>>
  BY DEF ServerChanges, TimePasses, Tick, clientvars, history
<1>2. ServerTypeOK'
  <2>1. ServerTypeOK
    BY DEF TypeInv, TypeOK
  <2>2. CASE TimePasses
    BY <2>1, <2>2 DEF TimePasses, Tick, ServerTypeOK, servervars
  <2>3. CASE ServerChanges
    <3>1. clock <= Horizon => clock \in Times
      BY <2>1, HorizonAssumption DEF ServerTypeOK, Times
    <3>2. ASSUME NEW j \in Jobs, JobStarts(j)
          PROVE  ServerTypeOK'
      BY <2>1, <3>1, <3>2 DEF JobStarts, MayStart, MayChange, ServerTypeOK, Times
    <3>3. ASSUME NEW j \in Jobs, JobEnds(j)
          PROVE  ServerTypeOK'
      <4>1. PICK o \in Outcomes : jobs' = [jobs EXCEPT ![j].end = clock, ![j].outcome = o]
        BY <3>3 DEF JobEnds
      <4>2. MayChange /\ UNCHANGED <<clock, backups>>
        BY <3>3 DEF JobEnds
      <4> QED BY <2>1, <3>1, <4>1, <4>2 DEF MayChange, ServerTypeOK, Times
    <3>4. ASSUME NEW b \in Backups, BackupStarts(b)
          PROVE  ServerTypeOK'
      BY <2>1, <3>1, <3>4 DEF BackupStarts, MayStart, MayChange, ServerTypeOK, Times
    <3>5. ASSUME NEW b \in Backups, BackupCompletes(b)
          PROVE  ServerTypeOK'
      BY <2>1, <3>1, <3>5 DEF BackupCompletes, MayChange, ServerTypeOK, Times
    <3> QED BY <2>3, <3>2, <3>3, <3>4, <3>5 DEF ServerChanges, ServerStep
  <2> QED BY <2>2, <2>3
<1> QED BY <1>1, <1>2 DEF TypeInv, TypeOK, RoundInv, Fetched

\* What a collection leaves.
LEMMA CollectFields ==
    ASSUME Collect
    PROVE  LET parsed == ParsePayload(round.responses)
               summary == Over(MarkFailedCounts(parsed.summary, round.errors),
                               [query_end |-> round.windowEnd])
           IN  /\ Fetched /\ result = NoResult
               /\ result'.class = round.class /\ result'.collected = clock /\ result'.ok = TRUE
               /\ result'.payload = parsed /\ result'.summary = summary
               /\ gauges' = PublishMetrics([parsed EXCEPT !.summary = summary],
                                           ActiveClass(round.class))
<1> DEFINE parsed == ParsePayload(round.responses)
           summary == Over(MarkFailedCounts(parsed.summary, round.errors),
                           [query_end |-> round.windowEnd])
           status == IF round.errors # {} THEN "partial" ELSE "success"
<1>1. /\ gauges' = PublishMetrics([parsed EXCEPT !.summary = summary],
                                  ActiveClass(round.class))
      /\ result' = [class |-> round.class, collected |-> clock, ok |-> TRUE,
                    status |-> status, summary |-> summary, payload |-> parsed]
      /\ Fetched /\ result = NoResult
  BY DEF Collect
<1> HIDE DEF parsed, summary, status
<1>2. /\ result'.class = round.class /\ result'.collected = clock /\ result'.ok = TRUE
      /\ result'.payload = parsed /\ result'.summary = summary
  BY <1>1
<1> QED BY <1>1, <1>2 DEF parsed, summary

\* The collector and the writer.
LEMMA TypeResult ==
    ASSUME TypeInv, Collect \/ CollectRaises \/ Write \/ WriteFails \/ Restart
    PROVE  TypeInv'
<1>1. UNCHANGED <<clock, servervars, schedules, requests>>
  BY DEF Collect, CollectRaises, Write, WriteFails, Restart, clientvars, history
<1>2. ServerTypeOK' /\ (schedules \in ScheduleSets)' /\ (requests \in 0..MaxRequests)'
  BY <1>1 DEF TypeInv, TypeOK, ServerTypeOK, servervars, Times
<1>3. CASE Collect \/ CollectRaises
  <2>1. UNCHANGED <<round, covered>> /\ Fetched
    BY <1>3 DEF Collect, CollectRaises, clientvars, history
  <2>2. result'.class = round.class /\ result'.ok \in BOOLEAN
    <3>1. CASE Collect
      BY <3>1, CollectFields
    <3>2. CASE CollectRaises
      BY <3>2 DEF CollectRaises
    <3> QED BY <1>3, <3>1, <3>2
  <2> QED BY <1>1, <1>2, <2>1, <2>2 DEF TypeInv, TypeOK, RoundInv, Fetched
<1>4. CASE Write \/ WriteFails \/ Restart
  <2>1. round' = NoRound /\ result' = NoResult /\ DOMAIN covered' = TimedEndpoints
    BY <1>4 DEF Write, WriteFails, Restart, history, TypeInv, TypeOK
  <2> QED BY <1>2, <2>1 DEF TypeInv, TypeOK, RoundInv
<1> QED BY <1>3, <1>4

\* Every step keeps TypeInv.
LEMMA TypeNext == TypeInv /\ [Next]_vars => TypeInv'
<1> SUFFICES ASSUME TypeInv, [Next]_vars
             PROVE  TypeInv'
  OBVIOUS
<1>1. CASE Process
  BY <1>1, TypeBegin, TypeFetch, TypeResult DEF Process
<1>2. CASE ServerChanges \/ TimePasses \/ Restart
  BY <1>2, TypeServer, TypeResult
<1>3. CASE UNCHANGED vars
  BY <1>3 DEF TypeInv, TypeOK, RoundInv, ServerTypeOK, Times, Fetched, vars, servervars,
              clientvars, history
<1> QED BY <1>1, <1>2, <1>3 DEF Next

\* Every variable keeps its type, and in a round every request that was over has an
\* answer or an error.
THEOREM RoundsAreTyped == Spec => []TypeOK
<1>1. TypeInv => TypeOK
  BY DEF TypeInv
<1> QED BY <1>1, TypeInit, TypeNext, PTL DEF Spec

-----------------------------------------------------------------------------
(* The time of a round.                                                      *)

\* The time that a request may have taken before an attempt is sent.
Used(attempt) == (attempt - 1) * Timeout + Backoff * (2 ^ (attempt - 1) - 1)

\* Products, which the provers expand for no factor but a number.
LEMMA Products ==
    ASSUME NEW k \in Nat
    PROVE  /\ \A i \in Nat : i * k \in Nat /\ (i + 1) * k = i * k + k
           /\ \A i, j \in Nat : i <= j => i * k <= j * k
<1>1. \A i \in Nat : i * k \in Nat /\ (i + 1) * k = i * k + k
  OBVIOUS
<1>2. ASSUME NEW i \in Nat, NEW j \in Nat, i <= j
      PROVE  i * k <= j * k
  <2>1. j - i \in Nat /\ (j - i) * k \in Nat /\ j * k = i * k + (j - i) * k
    BY <1>2
  <2>2. i * k \in Nat /\ j * k \in Nat
    OBVIOUS
  <2> QED BY <2>1, <2>2
<1> QED BY <1>1, <1>2

\* What each attempt adds to it, and that all attempts together take no longer than
\* a request may.
LEMMA AttemptsAddUp ==
    /\ Used(1) = 0 /\ LongestRequest \in Nat
    /\ \A a \in Nat \ {0} :
          /\ Used(a) \in Nat /\ 2 ^ (a - 1) \in Nat /\ Backoff * 2 ^ (a - 1) \in Nat
          /\ Used(a + 1) = Used(a) + Timeout + Backoff * 2 ^ (a - 1)
    /\ \A a \in 1..MaxAttempts : Used(a) + Timeout <= LongestRequest
<1> DEFINE power(a) == 2 ^ (a - 1)
<1>1. /\ power(1) = 1
      /\ \A a \in Nat \ {0} : power(a) \in Nat \ {0} /\ power(a + 1) = 2 * power(a)
      /\ \A a, b \in Nat \ {0} : a <= b => power(a) <= power(b)
  <2>1. power(1) = 1
    BY PowersOfTwo, 1 - 1 = 0
  <2>2. ASSUME NEW a \in Nat \ {0}
        PROVE  power(a) \in Nat \ {0} /\ power(a + 1) = 2 * power(a)
    <3>1. PICK m \in Nat : a = m + 1
      BY a - 1 \in Nat, a = (a - 1) + 1
    <3>2. 2^m \in Nat /\ 2^(m + 1) = 2 * 2^m /\ 2^0 <= 2^m /\ 2^0 = 1
      <4>1. 0 \in Nat /\ 0 <= m
        OBVIOUS
      <4> QED BY <4>1, PowersOfTwo, Zenon
    <3>3. a - 1 = m /\ (a + 1) - 1 = m + 1
      BY <3>1
    <3>4. power(a) = 2^m /\ power(a + 1) = 2^(m + 1)
      BY <3>3
    <3> HIDE DEF power
    <3> QED BY <3>2, <3>4
  <2>3. ASSUME NEW a \in Nat \ {0}, NEW b \in Nat \ {0}, a <= b
        PROVE  power(a) <= power(b)
    <3>1. a - 1 \in Nat /\ b - 1 \in Nat /\ a - 1 <= b - 1
      BY <2>3
    <3> HIDE DEF power
    <3> QED BY <3>1, PowersOfTwo DEF power
  <2> QED BY <2>1, <2>2, <2>3
<1>2. \A a : Used(a) = (a - 1) * Timeout + Backoff * (power(a) - 1)
  BY DEF Used
<1>3. LongestRequest = MaxAttempts * Timeout + Backoff * (power(MaxAttempts) - 1)
  BY DEF LongestRequest
<1>4. \A a : 2 ^ (a - 1) = power(a)
  OBVIOUS
<1> HIDE DEF power
<1>5. Timeout \in Nat /\ Backoff \in Nat /\ MaxAttempts \in Nat \ {0}
  BY RetryAssumption, AttemptsArePositive
<1>6. Used(1) = 0
  <2>1. (1 - 1) * Timeout = 0 /\ Backoff * (1 - 1) = 0
    BY <1>5
  <2> QED BY <1>1, <1>2, <2>1
<1>7. ASSUME NEW a \in Nat \ {0}
      PROVE  /\ Used(a) \in Nat /\ Backoff * power(a) \in Nat
             /\ Used(a + 1) = Used(a) + Timeout + Backoff * power(a)
  <2>0. a - 1 \in Nat /\ power(a) \in Nat /\ power(a) - 1 \in Nat
    BY <1>1
  <2>1. /\ (a - 1) * Timeout \in Nat /\ Backoff * (power(a) - 1) \in Nat
        /\ Backoff * power(a) \in Nat
    BY <1>5, <2>0
  <2>2. (a + 1) - 1 = (a - 1) + 1 /\ ((a - 1) + 1) * Timeout = (a - 1) * Timeout + Timeout
    BY <1>5
  <2>3. Backoff * (2 * power(a) - 1) = Backoff * (power(a) - 1) + Backoff * power(a)
    BY <1>5, <2>0
  <2>4. Used(a) = (a - 1) * Timeout + Backoff * (power(a) - 1)
    BY <1>2
  <2>5. Used(a + 1) = ((a - 1) * Timeout + Timeout)
                        + (Backoff * (power(a) - 1) + Backoff * power(a))
    BY <1>1, <1>2, <2>2, <2>3
  <2> QED BY <1>5, <2>1, <2>4, <2>5
<1>8. ASSUME NEW a \in 1..MaxAttempts
      PROVE  Used(a) + Timeout <= LongestRequest
  <2>1. a \in Nat \ {0} /\ a <= MaxAttempts /\ power(a) <= power(MaxAttempts)
    BY <1>1, <1>5
  <2>2. (a - 1) * Timeout + Timeout <= MaxAttempts * Timeout
    <3>1. a - 1 \in Nat /\ (a - 1) + 1 = a /\ a \in Nat
      BY <2>1
    <3>2. (a - 1) * Timeout + Timeout = a * Timeout /\ a * Timeout <= MaxAttempts * Timeout
      BY <1>5, <2>1, <3>1, Products
    <3> QED BY <3>2
  <2>3. Backoff * (power(a) - 1) <= Backoff * (power(MaxAttempts) - 1)
    <3>1. power(a) - 1 \in Nat /\ power(MaxAttempts) - 1 \in Nat
          /\ power(a) - 1 <= power(MaxAttempts) - 1
      <4>1. /\ power(a) \in Nat \ {0} /\ power(MaxAttempts) \in Nat \ {0}
            /\ power(a) <= power(MaxAttempts)
        BY <1>1, <1>5, <2>1
      <4> QED BY <4>1
    <3>2. (power(a) - 1) * Backoff <= (power(MaxAttempts) - 1) * Backoff
      BY <1>5, <3>1, Products
    <3> QED BY <1>5, <3>1, <3>2
  <2>4. /\ (a - 1) * Timeout \in Int /\ MaxAttempts * Timeout \in Int
        /\ Backoff * (power(a) - 1) \in Int /\ Backoff * (power(MaxAttempts) - 1) \in Int
    <3>1. a - 1 \in Int /\ power(a) - 1 \in Int /\ power(MaxAttempts) - 1 \in Int
      <4>1. power(a) \in Nat \ {0} /\ power(MaxAttempts) \in Nat \ {0}
        BY <1>1, <1>5, <2>1
      <4> QED BY <2>1, <4>1
    <3> QED BY <1>5, <3>1
  <2> QED BY <1>2, <1>3, <1>5, <2>2, <2>3, <2>4
<1>9. LongestRequest \in Nat
  <2>1. power(MaxAttempts) - 1 \in Nat
    <3>1. power(MaxAttempts) \in Nat \ {0}
      BY <1>1, <1>5
    <3> QED BY <3>1
  <2>2. MaxAttempts * Timeout \in Nat /\ Backoff * (power(MaxAttempts) - 1) \in Nat
    BY <1>5, <2>1
  <2> QED BY <1>3, <2>2
<1> QED BY <1>4, <1>6, <1>7, <1>8, <1>9, <1>1

\* The time of the first n requests with the pauses after them.
Before(n) == n * (LongestRequest + Spacing)

\* Until the last request of a plan has its answer no more than LongestRound passes.
LEMMA RequestsAddUp ==
    /\ Before(0) = 0
    /\ \A n \in Nat : /\ Before(n) \in Nat
                      /\ Before(n + 1) = Before(n) + LongestRequest + Spacing
                      /\ LongestRound(n + 1) = Before(n) + LongestRequest
    /\ \A i, n \in Nat : i <= n => Before(i) <= Before(n)
    /\ LongestRound(0) = 0
<1> DEFINE k == LongestRequest + Spacing
<1>1. k \in Nat /\ LongestRequest \in Nat /\ Spacing \in Nat
  BY AttemptsAddUp, RetryAssumption
<1>2. \A n : Before(n) = n * k
  BY DEF Before
<1>3. \A n \in Nat : LongestRound(n + 1) = Before(n) + LongestRequest
  <2> SUFFICES ASSUME NEW n \in Nat
               PROVE  LongestRound(n + 1) = Before(n) + LongestRequest
    OBVIOUS
  <2>1. (IF n + 1 > 1 THEN (n + 1) - 1 ELSE 0) = n
    OBVIOUS
  <2>2. LongestRound(n + 1) = (n + 1) * LongestRequest + n * Spacing
    BY <2>1 DEF LongestRound
  <2>3. (n + 1) * LongestRequest + n * Spacing = n * k + LongestRequest
    BY <1>1
  <2> QED BY <1>2, <2>2, <2>3
<1>4. LongestRound(0) = 0
  BY <1>1 DEF LongestRound
<1> HIDE DEF k
<1>5. /\ \A i \in Nat : i * k \in Nat /\ (i + 1) * k = i * k + k
      /\ \A i, j \in Nat : i <= j => i * k <= j * k
  BY <1>1, Products
<1>6. Before(0) = 0
  BY <1>1, <1>2
<1>7. \A n \in Nat : Before(n + 1) = Before(n) + LongestRequest + Spacing
  BY <1>1, <1>2, <1>5 DEF k
<1> QED BY <1>2, <1>3, <1>4, <1>5, <1>6, <1>7

\* The latest time at which the attempt in hand of a round is sent.
Due == round.windowEnd + Before(round.next - 1) + Used(round.attempt)

\* No attempt is late, and the time stops with the last answer.
TimeInv ==
    round # NoRound =>
        /\ round.windowEnd \in Nat /\ round.wake \in Nat /\ round.sent \in Nat
        /\ (round.next <= Len(round.plan) /\ round.phase = "asleep")
              => clock <= round.wake /\ round.wake <= Due
        /\ round.phase = "sent" => round.sent <= Due /\ clock <= round.sent + Timeout
        /\ round.next > Len(round.plan) => clock <= round.windowEnd + LongestRound(Len(round.plan))

\* A round that begins has all its time.
LEMMA TimeBegin ==
    ASSUME TypeInv, NEW class \in schedules, Begin(class)
    PROVE  TimeInv'
<1> DEFINE plan == BuildRequestPlan(class, clock)
<1>1. clock \in Nat
  BY DEF TypeInv, TypeOK, ServerTypeOK
<1>2. Len(plan) \in Nat
  BY PlansAreSequences
<1> HIDE DEF plan
<1>3. /\ clock' = clock /\ round'.windowEnd = clock /\ round'.plan = plan
      /\ round'.next = 1 /\ round'.attempt = 1 /\ round'.phase = "asleep"
      /\ round'.wake = clock /\ round'.sent = clock
  BY BeginFields DEF plan
<1>4. Before(1 - 1) = 0 /\ Used(1) = 0
  BY AttemptsAddUp, RequestsAddUp, 1 - 1 = 0
<1>5. Due' = clock
  BY <1>1, <1>3, <1>4 DEF Due
<1>6. 1 > Len(plan) => LongestRound(Len(plan)) = 0
  BY <1>2, RequestsAddUp
<1> QED BY <1>1, <1>2, <1>3, <1>5, <1>6 DEF TimeInv

\* While the requests of a round are not over, their end is no later than LongestRound.
LEMMA DueIsBounded ==
    ASSUME RoundInv, round # NoRound, round.next <= Len(round.plan), round.windowEnd \in Nat
    PROVE  /\ Due \in Nat /\ Due + Timeout <= round.windowEnd + LongestRound(Len(round.plan))
           /\ Due + Timeout <= round.windowEnd + Before(round.next - 1) + LongestRequest
<1> DEFINE n == Len(round.plan)
           i == round.next - 1
<1>1. /\ n \in Nat /\ i \in Nat /\ n - 1 \in Nat /\ i <= n - 1
      /\ round.attempt \in 1..MaxAttempts /\ round.attempt \in Nat \ {0}
  BY AttemptsArePositive DEF RoundInv
<1>2. Used(round.attempt) \in Nat /\ Used(round.attempt) + Timeout <= LongestRequest
  BY <1>1, AttemptsAddUp
<1> HIDE DEF n, i
<1>3. Before(i) \in Nat /\ Before(i) <= Before(n - 1) /\ Before(n - 1) \in Nat
  BY <1>1, RequestsAddUp, Zenon
<1>4. LongestRound(n) = Before(n - 1) + LongestRequest
  <2>1. LongestRound((n - 1) + 1) = Before(n - 1) + LongestRequest
    BY <1>1, RequestsAddUp, Zenon
  <2>2. (n - 1) + 1 = n
    BY <1>1
  <2> QED BY <2>1, <2>2
<1>5. Due = round.windowEnd + Before(i) + Used(round.attempt)
  BY DEF Due, i
<1>6. Timeout \in Nat /\ LongestRequest \in Nat
  BY RetryAssumption, AttemptsAddUp
<1>7. round.windowEnd + Before(i) \in Nat
  BY <1>3
<1>8. Due \in Nat /\ Due + Timeout <= round.windowEnd + Before(i) + LongestRequest
  BY <1>2, <1>5, <1>6, <1>7
<1>9. Due + Timeout <= round.windowEnd + LongestRound(n)
  BY <1>3, <1>4, <1>6, <1>8
<1> QED BY <1>8, <1>9, Zenon DEF n, i

\* The loop of requests keeps to its time.
LEMMA TimeFetch ==
    ASSUME TypeInv, TimeInv, SendRequest \/ AnswerArrives \/ RequestFails \/ Retry
    PROVE  TimeInv'
<1>1. /\ RoundInv /\ clock \in Nat
  BY DEF TypeInv, TypeOK, ServerTypeOK
<1>2. /\ round # NoRound /\ clock' = clock
      /\ round'.windowEnd = round.windowEnd /\ round'.plan = round.plan
  BY <1>1, FetchFields
<1>3. /\ round.windowEnd \in Nat /\ round.wake \in Nat /\ round.sent \in Nat
      /\ Len(round.plan) \in Nat /\ round.next \in Nat \ {0}
      /\ round.attempt \in 1..MaxAttempts /\ round.attempt \in Nat \ {0}
      /\ round.phase = "sent" => round.next <= Len(round.plan)
  BY <1>1, <1>2, AttemptsArePositive DEF RoundInv, TimeInv
<1>4. Spacing \in Nat /\ Timeout \in Nat /\ LongestRequest \in Nat
  BY RetryAssumption, AttemptsAddUp
<1>5. CASE SendRequest
  <2>1. /\ round.phase = "asleep" /\ round.next <= Len(round.plan) /\ clock >= round.wake
        /\ round'.next = round.next /\ round'.attempt = round.attempt
        /\ round'.phase = "sent" /\ round'.sent = clock
    BY <1>1, <1>2, <1>3, <1>5, FetchFields DEF Fetched
  <2>2. clock <= round.wake /\ round.wake <= Due
    BY <1>2, <2>1 DEF TimeInv
  <2>3. Due' = Due
    BY <1>2, <2>1 DEF Due
  <2>4. Due \in Nat
    BY <1>1, <1>2, <1>3, <2>1, DueIsBounded
  <2>5. round'.wake = round.wake
    BY <1>2, <1>5 DEF SendRequest, Send, TypeInv, RoundInv, RoundFields
  <2> QED BY <1>1, <1>2, <1>3, <1>4, <2>1, <2>2, <2>3, <2>4, <2>5 DEF TimeInv
<1>6. CASE AnswerArrives \/ RequestFails
  <2>1. /\ round.phase = "sent" /\ round.next <= Len(round.plan)
        /\ round'.next = round.next + 1 /\ round'.attempt = 1 /\ round'.phase = "asleep"
        /\ round'.wake = clock + Spacing /\ round'.sent = round.sent
    BY <1>1, <1>3, <1>6, FetchFields DEF GoesOn
  <2>2. round.sent <= Due /\ clock <= round.sent + Timeout
    BY <1>2, <2>1 DEF TimeInv
  <2>3. /\ Due \in Nat /\ LongestRound(Len(round.plan)) \in Nat
        /\ Due + Timeout <= round.windowEnd + LongestRound(Len(round.plan))
        /\ Due + Timeout <= round.windowEnd + Before(round.next - 1) + LongestRequest
    <3>1. LongestRound(Len(round.plan)) \in Nat
      <4>1. PICK n \in Nat : Len(round.plan) = n + 1
        BY <1>3, <2>1, Len(round.plan) - 1 \in Nat, Len(round.plan) = (Len(round.plan) - 1) + 1
      <4>2. LongestRound(n + 1) = Before(n) + LongestRequest /\ Before(n) \in Nat
        BY RequestsAddUp, Zenon
      <4> QED BY <1>4, <4>1, <4>2
    <3> QED BY <1>1, <1>2, <1>3, <2>1, <3>1, DueIsBounded
  <2>4. Due' = round.windowEnd + Before(round.next - 1) + LongestRequest + Spacing
    <3>1. PICK i \in Nat : round.next = i + 1
      BY <1>3, round.next - 1 \in Nat, round.next = (round.next - 1) + 1
    <3>2. /\ Before(i + 1) = Before(i) + LongestRequest + Spacing /\ Before(i) \in Nat
          /\ Used(1) = 0
      BY RequestsAddUp, AttemptsAddUp, Zenon
    <3>3. round.next - 1 = i /\ (round.next + 1) - 1 = i + 1
      BY <3>1
    <3>4. round'.next - 1 = i + 1
      BY <2>1, <3>1
    <3>5. Due' = round.windowEnd + Before(i + 1) + Used(1)
      BY <1>2, <2>1, <3>4, Zenon DEF Due
    <3>6. Due' = round.windowEnd + (Before(i) + LongestRequest + Spacing)
      BY <1>3, <1>4, <3>2, <3>5
    <3>7. Before(round.next - 1) = Before(i)
      BY <3>3
    <3>8. \A a, b, c, d \in Nat : a + (b + c + d) = a + b + c + d
      OBVIOUS
    <3>9. round.windowEnd + (Before(i) + LongestRequest + Spacing)
            = round.windowEnd + Before(i) + LongestRequest + Spacing
      <4> DEFINE w == round.windowEnd
                 before == Before(i)
      <4>1. w \in Nat /\ before \in Nat
        BY <1>3, <3>2
      <4> HIDE DEF w, before
      <4>2. w + (before + LongestRequest + Spacing) = w + before + LongestRequest + Spacing
        BY <1>4, <3>8, <4>1
      <4> QED BY <4>2 DEF w, before
    <3> QED BY <3>6, <3>7, <3>9, Zenon
  <2>5. clock <= Due + Timeout
    BY <1>1, <1>3, <1>4, <2>2, <2>3
  <2>6. Before(round.next - 1) \in Nat
    BY <1>3, round.next - 1 \in Nat, RequestsAddUp
  <2>7. clock <= round.windowEnd + Before(round.next - 1) + LongestRequest
    <3>1. Due \in Nat /\ round.windowEnd + Before(round.next - 1) \in Nat
      BY <1>3, <2>3, <2>6
    <3> QED BY <1>1, <1>4, <2>3, <2>5, <3>1
  <2>8. clock <= round.windowEnd + LongestRound(Len(round.plan))
    BY <1>1, <1>3, <1>4, <2>3, <2>5
  <2>9. clock + Spacing <= Due' /\ clock <= clock + Spacing /\ clock + Spacing \in Nat
    BY <1>1, <1>3, <1>4, <2>4, <2>6, <2>7
  <2> QED BY <1>1, <1>2, <1>3, <2>1, <2>8, <2>9 DEF TimeInv
<1>7. CASE Retry
  <2> DEFINE pause == Backoff * 2 ^ (round.attempt - 1)
  <2>1. /\ round.phase = "sent" /\ round.next <= Len(round.plan)
        /\ round'.next = round.next /\ round'.attempt = round.attempt + 1
        /\ round'.phase = "asleep" /\ round'.wake = clock + pause
    BY <1>1, <1>3, <1>7, FetchFields
  <2>2. round.sent <= Due /\ clock <= round.sent + Timeout
    BY <1>2, <2>1 DEF TimeInv
  <2>3. /\ pause \in Nat /\ Used(round.attempt) \in Nat
        /\ Used(round.attempt + 1) = Used(round.attempt) + Timeout + pause
    BY <1>3, AttemptsAddUp, Zenon
  <2> HIDE DEF pause
  <2>4. Before(round.next - 1) \in Nat
    BY <1>3, round.next - 1 \in Nat, RequestsAddUp
  <2>5. Due' = Due + Timeout + pause /\ Due \in Nat
    <3>1. round'.windowEnd = round.windowEnd /\ round.windowEnd \in Nat
      BY <1>2, <1>3, <1>4
    <3>2. Due' = round.windowEnd + Before(round.next - 1) + Used(round.attempt + 1)
      BY <2>1, <3>1 DEF Due
    <3>3. Due = round.windowEnd + Before(round.next - 1) + Used(round.attempt)
      BY DEF Due
    <3> QED BY <1>4, <2>3, <2>4, <3>1, <3>2, <3>3
  <2>6. clock + pause \in Nat /\ clock <= clock + pause /\ clock + pause <= Due'
    BY <1>1, <1>3, <1>4, <2>2, <2>3, <2>5
  <2>7. round'.sent = round.sent
    BY <1>2, <1>7 DEF Retry, RetryLater, TypeInv, RoundInv, RoundFields
  <2> QED BY <1>1, <1>2, <1>3, <2>1, <2>6, <2>7 DEF TimeInv
<1> QED BY <1>5, <1>6, <1>7

\* Every step keeps TimeInv: time passes no further than a timer or a timeout.
LEMMA TimeNext == TypeInv /\ TimeInv /\ [Next]_vars => TimeInv'
<1> SUFFICES ASSUME TypeInv, TimeInv, [Next]_vars
             PROVE  TimeInv'
  OBVIOUS
<1>1. ASSUME UNCHANGED <<clock, round>>
      PROVE  TimeInv'
  BY <1>1 DEF TimeInv, Due
<1>2. ASSUME round' = NoRound
      PROVE  TimeInv'
  BY <1>2 DEF TimeInv
<1>3. CASE Process
  <2>1. CASE \E class \in schedules : Begin(class)
    BY <2>1, TimeBegin
  <2>2. CASE SendRequest \/ AnswerArrives \/ RequestFails \/ Retry
    BY <2>2, TimeFetch
  <2>3. CASE Collect \/ CollectRaises
    BY <1>1, <2>3 DEF Collect, CollectRaises, clientvars
  <2>4. CASE Write \/ WriteFails
    BY <1>2, <2>4 DEF Write, WriteFails
  <2> QED BY <1>3, <2>1, <2>2, <2>3, <2>4 DEF Process
<1>4. CASE ServerChanges
  <2>1. clock' = clock /\ round' = round
    BY <1>4 DEF ServerChanges, ServerStep, JobStarts, JobEnds, BackupStarts, BackupCompletes,
                clientvars
  <2> QED BY <1>1, <2>1
<1>5. CASE TimePasses
  <2>1. round' = round /\ clock' = clock + 1 /\ clock \in Nat
    BY <1>5 DEF TimePasses, Tick, clientvars, TypeInv, TypeOK, ServerTypeOK
  <2>2. CASE round = NoRound
    BY <2>1, <2>2 DEF TimeInv
  <2>3. CASE round # NoRound /\ round.phase = "sent"
    <3>1. clock < round.sent + Timeout /\ round.next <= Len(round.plan) /\ Len(round.plan) \in Nat
          /\ round.next \in Nat /\ round.sent \in Nat /\ Timeout \in Nat
      BY <1>5, <2>3, RetryAssumption DEF TimePasses, Tick, TypeInv, RoundInv, TimeInv
    <3>2. clock + 1 <= round.sent + Timeout
      BY <2>1, <3>1
    <3> QED BY <2>1, <2>3, <3>1, <3>2 DEF TimeInv, Due
  <2>4. CASE round # NoRound /\ round.phase # "sent"
    <3>1. clock < round.wake /\ round.next <= Len(round.plan) /\ Len(round.plan) \in Nat
          /\ round.next \in Nat /\ round.wake \in Nat
      BY <1>5, <2>4 DEF TimePasses, Tick, TypeInv, RoundInv, TimeInv, Fetched
    <3>2. clock + 1 <= round.wake
      BY <2>1, <3>1
    <3> QED BY <2>1, <2>4, <3>1, <3>2 DEF TimeInv, Due
  <2> QED BY <2>2, <2>3, <2>4
<1>6. CASE Restart \/ UNCHANGED vars
  BY <1>1, <1>2, <1>6 DEF Restart, vars, clientvars
<1> QED BY <1>3, <1>4, <1>5, <1>6 DEF Next

\* However the server answers, the requests of a round are over after the attempts,
\* backoffs and pauses that the configuration allows.
THEOREM RoundsAreBounded == Spec => []RoundIsBounded
<1>1. Init => TimeInv
  BY DEF Init, TimeInv
<1>2. TypeInv /\ TimeInv => RoundIsBounded
  <2> SUFFICES ASSUME TypeInv, TimeInv, round # NoRound
               PROVE  clock - round.windowEnd <= LongestRound(Len(round.plan))
    BY DEF RoundIsBounded
  <2> DEFINE bound == LongestRound(Len(round.plan))
  <2>1. /\ RoundInv /\ clock \in Nat /\ round.windowEnd \in Nat /\ Len(round.plan) \in Nat
        /\ round.next \in Nat /\ round.phase \in {"asleep", "sent"}
        /\ round.wake \in Nat /\ round.sent \in Nat /\ Timeout \in Nat
    BY RetryAssumption DEF TypeInv, TypeOK, ServerTypeOK, RoundInv, TimeInv
  <2>2. bound \in Nat
    <3>1. CASE Len(round.plan) = 0
      BY <3>1, RequestsAddUp
    <3>2. CASE Len(round.plan) # 0
      <4>1. PICK n \in Nat : Len(round.plan) = n + 1
        BY <2>1, <3>2, Len(round.plan) - 1 \in Nat, Len(round.plan) = (Len(round.plan) - 1) + 1
      <4>2. /\ LongestRound(n + 1) = Before(n) + LongestRequest /\ Before(n) \in Nat
            /\ LongestRequest \in Nat
        BY RequestsAddUp, AttemptsAddUp, Zenon
      <4> QED BY <4>1, <4>2
    <3> QED BY <3>1, <3>2
  <2>3. CASE round.next > Len(round.plan)
    <3>1. clock <= round.windowEnd + bound
      BY <2>3 DEF TimeInv
    <3> HIDE DEF bound
    <3>2. clock - round.windowEnd <= bound
      BY <2>1, <2>2, <3>1
    <3> QED BY <3>2 DEF bound
  <2>4. CASE round.next <= Len(round.plan)
    <3>1. Due \in Nat /\ Due + Timeout <= round.windowEnd + bound
      BY <2>1, <2>4, DueIsBounded
    <3>2. clock <= Due + Timeout
      <4>1. \/ clock <= round.wake /\ round.wake <= Due
            \/ round.sent <= Due /\ clock <= round.sent + Timeout
        BY <2>1, <2>4 DEF TimeInv
      <4> QED BY <2>1, <3>1, <4>1
    <3> HIDE DEF bound
    <3>3. clock - round.windowEnd <= bound
      BY <2>1, <2>2, <3>1, <3>2
    <3> QED BY <3>3 DEF bound
  <2> QED BY <2>1, <2>3, <2>4
<1> QED BY <1>1, <1>2, TypeInit, TypeNext, TimeNext, PTL DEF Spec

-----------------------------------------------------------------------------
(* The gauges.                                                               *)

JobLabels == {"success", "failed", "running"}

\* No job is counted when the answer to "jobs" is missing.
LEMMA NoAnswerNoCounts ==
    ASSUME NEW responses, "jobs" \notin DOMAIN responses
    PROVE  LET summary == ParsePayload(responses).summary
           IN  DOMAIN summary.success = {} /\ DOMAIN summary.failed = {}
               /\ DOMAIN summary.running = {}
<1> DEFINE jobs0 == MapSeq(Items(responses, "jobs"), NormalizeJob)
           clients == MapSeq(Items(responses, "clients"), NormalizeClient)
           policies == MapSeq(Items(responses, "policies"), NormalizePolicy)
           workflows == NormalizeWorkflows(Items(responses, "policies"))
           backups0 == MapSeq(Items(responses, "backups"), NormalizeBackup)
<1>1. DOMAIN jobs0 = {}
  BY DEF MapSeq, Items
<1>2. ParsePayload(responses).summary = BuildSummary(jobs0, clients, policies, workflows, backups0)
  BY DEF ParsePayload
<1>3. ASSUME NEW status
      PROVE  DOMAIN CountByPolicy(jobs0, WithStatus(jobs0, status)) = {}
  BY <1>1 DEF CountByPolicy, WithStatus
<1> HIDE DEF jobs0, clients, policies, workflows, backups0
<1>4. LET summary == ParsePayload(responses).summary
          counts(status) == CountByPolicy(jobs0, WithStatus(jobs0, status))
      IN  /\ summary.success = counts("success")
          /\ summary.failed = counts("failed")
          /\ summary.running = counts("running")
  BY <1>2 DEF BuildSummary
<1> QED BY <1>3, <1>4

\* The count of an endpoint that failed is unknown, and no other count is touched.
LEMMA MarkedCounts ==
    ASSUME NEW responses, NEW errors, NEW end
    PROVE  LET summary == ParsePayload(responses).summary
               marked == Over(MarkFailedCounts(summary, errors), [query_end |-> end])
           IN  /\ marked.success = summary.success /\ marked.failed = summary.failed
               /\ marked.running = summary.running /\ marked.workflows = summary.workflows
               /\ marked.query_end = end
               /\ marked.job_count = IF "jobs" \in errors THEN Unknown ELSE summary.job_count
               /\ marked.total_backup_bytes = IF "backups" \in errors THEN Unknown
                                              ELSE summary.total_backup_bytes
<1> DEFINE summary == ParsePayload(responses).summary
           marks == MarkFailedCounts(summary, errors)
<1>1. DOMAIN summary = {"job_count", "client_count", "policy_count", "workflow_count",
                        "backup_count", "total_backup_bytes", "success", "failed", "running",
                        "workflows"}
  <2> DEFINE jobs0 == MapSeq(Items(responses, "jobs"), NormalizeJob)
             clients == MapSeq(Items(responses, "clients"), NormalizeClient)
             policies == MapSeq(Items(responses, "policies"), NormalizePolicy)
             workflows == NormalizeWorkflows(Items(responses, "policies"))
             backups0 == MapSeq(Items(responses, "backups"), NormalizeBackup)
  <2>1. summary = BuildSummary(jobs0, clients, policies, workflows, backups0)
    BY DEF ParsePayload
  <2> HIDE DEF jobs0, clients, policies, workflows, backups0, summary
  <2> QED BY <2>1 DEF BuildSummary
<1> HIDE DEF summary
<1>2. /\ DOMAIN marks = DOMAIN summary
      /\ marks.success = summary.success /\ marks.failed = summary.failed
      /\ marks.running = summary.running /\ marks.workflows = summary.workflows
      /\ marks.job_count = IF "jobs" \in errors THEN Unknown ELSE summary.job_count
      /\ marks.total_backup_bytes = IF "backups" \in errors THEN Unknown
                                    ELSE summary.total_backup_bytes
  BY <1>1 DEF MarkFailedCounts
<1> HIDE DEF marks
<1> QED BY <1>1, <1>2 DEF Over, summary, marks

\* A round that had no answer for the jobs changes no gauge of them.
THEOREM GaugesKeepTheirJobs == Spec => UnansweredJobsLeaveGauges
<1>1. ASSUME Collect, "jobs" \notin DOMAIN round.responses,
             NEW l \in DOMAIN gauges, l[1] \in JobLabels
      PROVE  gauges'[l] = gauges[l]
  <2> DEFINE parsed == ParsePayload(round.responses)
             summary == Over(MarkFailedCounts(parsed.summary, round.errors),
                             [query_end |-> round.windowEnd])
             payload == [parsed EXCEPT !.summary = summary]
             class == ActiveClass(round.class)
             ofJobs == IF class \in {"all", "fast", "jobs"} THEN JobGauges(payload.summary) ELSE <<>>
             ofOthers == IF class \in {"all", "slow", "inventory"}
                         THEN InventoryGauges(payload) ELSE <<>>
  <2>1. gauges' = PublishMetrics(payload, class)
    BY <1>1, CollectFields
  <2>2. gauges' = Over(ofJobs, Over(ofOthers, gauges))
    BY <2>1 DEF PublishMetrics
  <2>3. payload.summary = summary
    BY DEF ParsePayload
  <2>4. /\ DOMAIN summary.success = {} /\ DOMAIN summary.failed = {}
        /\ DOMAIN summary.running = {}
    <3>1. /\ DOMAIN parsed.summary.success = {} /\ DOMAIN parsed.summary.failed = {}
          /\ DOMAIN parsed.summary.running = {}
      BY <1>1, NoAnswerNoCounts
    <3>2. /\ summary.success = parsed.summary.success /\ summary.failed = parsed.summary.failed
          /\ summary.running = parsed.summary.running
      BY MarkedCounts
    <3> HIDE DEF parsed, summary
    <3> QED BY <3>1, <3>2
  <2> HIDE DEF summary, payload, class
  <2>5. DOMAIN JobGauges(payload.summary) = {}
    BY <2>3, <2>4 DEF JobGauges, Labelled, Over
  <2>6. DOMAIN ofJobs = {}
    BY <2>5
  <2>7. l \notin DOMAIN InventoryGauges(payload)
    <3>1. \A k \in DOMAIN Labelled("workflows", payload.summary.workflows) : k[1] = "workflows"
      BY DEF Labelled
    <3> DEFINE ofWorkflows == Labelled("workflows", payload.summary.workflows)
               label == IF payload.clients = <<>> THEN {} ELSE {<<"clients", "">>}
    <3>2. \A k \in label : k[1] = "clients"
      <4>1. \A k \in label : k = <<"clients", "">>
        BY Zenon
      <4>2. <<"clients", "">>[1] = "clients"
        OBVIOUS
      <4> HIDE DEF label
      <4> QED BY <4>1, <4>2, Zenon
    <3>3. DOMAIN InventoryGauges(payload) = DOMAIN ofWorkflows \cup label
      BY DEF InventoryGauges, Over
    <3> HIDE DEF ofWorkflows, label
    <3>4. \A k \in DOMAIN InventoryGauges(payload) : k[1] \in {"workflows", "clients"}
      BY <3>1, <3>2, <3>3 DEF ofWorkflows
    <3> QED BY <1>1, <3>4 DEF JobLabels
  <2>8. l \notin DOMAIN ofOthers
    BY <2>7
  <2> HIDE DEF ofJobs, ofOthers
  <2> QED BY <1>1, <2>2, <2>6, <2>8 DEF Over
<1>2. [Next]_vars
        => [(Collect /\ "jobs" \notin DOMAIN round.responses)
              => \A l \in DOMAIN gauges : l[1] \in {"success", "failed", "running"}
                                            => gauges'[l] = gauges[l]]_vars
  BY <1>1 DEF JobLabels
<1> QED BY <1>2, PTL DEF Spec, UnansweredJobsLeaveGauges
=============================================================================
