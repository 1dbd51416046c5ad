---------------------- MODULE CollectorSchedulerProofs ----------------------
(***************************************************************************)
(* Proofs about CollectorScheduler, for every set of collectors, schedules *)
(* and requests: the invariants of the lock and of its queue, the state    *)
(* stop() leaves behind, and the refinement of SerialCollection.           *)
(***************************************************************************)
EXTENDS CollectorScheduler, SequenceTheorems, TLAPS

-----------------------------------------------------------------------------
(* The three operations on a queue of distinct elements.                    *)

\* asyncio.Lock.acquire() appends the future of a waiter to _waiters.
LEMMA AppendToQueue ==
    ASSUME NEW S, NEW s \in Seq(S), NEW e \in S
    PROVE  /\ Append(s, e) \in Seq(S)
           /\ Append(s, e) # <<>>
           /\ ToSet(Append(s, e)) = ToSet(s) \cup {e}
           /\ IsInjective(s) /\ e \notin ToSet(s) => IsInjective(Append(s, e))
<1>1. /\ Append(s, e) \in Seq(S)
      /\ Len(Append(s, e)) = Len(s) + 1
      /\ \A i \in 1..Len(s) : Append(s, e)[i] = s[i]
      /\ Append(s, e)[Len(s) + 1] = e
  BY AppendProperties
<1>2. Len(s) \in Nat /\ DOMAIN s = 1..Len(s) /\ DOMAIN Append(s, e) = 1..Len(s) + 1
  BY <1>1, LenProperties
<1>3. Append(s, e) # <<>>
  BY <1>1, <1>2, EmptySeq
<1>4. ToSet(Append(s, e)) = ToSet(s) \cup {e}
  BY <1>1, <1>2 DEF ToSet
<1>5. ASSUME IsInjective(s), e \notin ToSet(s)
      PROVE  IsInjective(Append(s, e))
  BY <1>1, <1>2, <1>5 DEF ToSet, IsInjective
<1> QED BY <1>1, <1>3, <1>4, <1>5

\* The waiter that got the lock is the first one, and leaves the queue.
LEMMA LeaveAsFirst ==
    ASSUME NEW S, NEW s \in Seq(S), s # <<>>, IsInjective(s)
    PROVE  /\ Tail(s) \in Seq(S)
           /\ Head(s) \in ToSet(s)
           /\ ToSet(Tail(s)) = ToSet(s) \ {Head(s)}
           /\ IsInjective(Tail(s))
<1>1. /\ Head(s) = s[1]
      /\ Tail(s) \in Seq(S)
      /\ Len(Tail(s)) = Len(s) - 1
      /\ \A i \in 1..Len(Tail(s)) : Tail(s)[i] = s[i + 1]
  BY HeadTailProperties
<1>2. /\ Len(s) \in Nat \ {0}
      /\ DOMAIN s = 1..Len(s)
      /\ DOMAIN Tail(s) = 1..Len(s) - 1
  BY <1>1, LenProperties, EmptySeq
<1>3. Head(s) \in ToSet(s)
  BY <1>1, <1>2 DEF ToSet
<1>4. ToSet(Tail(s)) = ToSet(s) \ {Head(s)}
  <2>1. ASSUME NEW x \in ToSet(Tail(s)) PROVE x \in ToSet(s) \ {Head(s)}
    <3>1. PICK i \in 1..Len(s) - 1 : x = s[i + 1]
      BY <1>1, <1>2 DEF ToSet
    <3>2. i + 1 \in 1..Len(s) /\ i + 1 # 1
      BY <1>2
    <3> QED BY <1>1, <1>2, <3>1, <3>2 DEF ToSet, IsInjective
  <2>2. ASSUME NEW x \in ToSet(s), x # Head(s) PROVE x \in ToSet(Tail(s))
    <3>1. PICK i \in 1..Len(s) : x = s[i]
      BY <1>2 DEF ToSet
    <3>2. i # 1
      BY <1>1, <2>2, <3>1
    <3>3. i - 1 \in 1..Len(s) - 1 /\ Tail(s)[i - 1] = s[i]
      BY <1>1, <1>2, <3>2
    <3> QED BY <1>2, <3>1, <3>3 DEF ToSet
  <2> QED BY <2>1, <2>2
<1>5. IsInjective(Tail(s))
  BY <1>1, <1>2 DEF IsInjective
<1> QED BY <1>1, <1>3, <1>4, <1>5

\* A cancelled waiter leaves the queue from wherever it is.
LEMMA LeaveFrom ==
    ASSUME NEW S, NEW s \in Seq(S), IsInjective(s), NEW k \in DOMAIN s
    PROVE  /\ RemoveAt(s, k) \in Seq(S)
           /\ ToSet(RemoveAt(s, k)) = ToSet(s) \ {s[k]}
           /\ IsInjective(RemoveAt(s, k))
<1> DEFINE a == SubSeq(s, 1, k - 1)
           b == SubSeq(s, k + 1, Len(s))
           t == a \o b
<1>0. RemoveAt(s, k) = t
  BY DEF RemoveAt
<1>1. Len(s) \in Nat /\ DOMAIN s = 1..Len(s) /\ k \in 1..Len(s)
  BY LenProperties
<1>2. a \in Seq(S) /\ Len(a) = k - 1 /\ \A i \in 1..k - 1 : a[i] = s[i]
  BY <1>1, SubSeqProperties
<1>3. b \in Seq(S) /\ Len(b) = Len(s) - k /\ \A i \in 1..Len(s) - k : b[i] = s[k + i]
  BY <1>1, SubSeqProperties
<1> HIDE DEF a, b
<1>9. Len(a) = k - 1 /\ Len(b) = Len(s) - k
  BY <1>2, <1>3
<1>4. /\ t \in Seq(S)
      /\ Len(t) = Len(a) + Len(b)
      /\ \A i \in 1..Len(a) + Len(b) : t[i] = IF i <= Len(a) THEN a[i] ELSE b[i - Len(a)]
  BY <1>2, <1>3, ConcatProperties
<1> HIDE DEF t
<1>5. \A i \in 1..Len(s) - 1 : t[i] = s[IF i < k THEN i ELSE i + 1]
  <2> SUFFICES ASSUME NEW i \in 1..Len(s) - 1
               PROVE  t[i] = s[IF i < k THEN i ELSE i + 1]
    OBVIOUS
  <2>1. CASE i < k
    <3>1. i \in 1..k - 1 /\ i <= k - 1 /\ i \in 1..Len(a) + Len(b)
      BY <1>1, <1>9, <2>1
    <3>2. t[i] = a[i]
      BY <1>4, <1>9, <3>1
    <3> QED BY <1>2, <2>1, <3>1, <3>2
  <2>2. CASE ~(i < k)
    <3>1. /\ i - (k - 1) \in 1..Len(s) - k
          /\ k + (i - (k - 1)) = i + 1
          /\ ~(i <= k - 1)
          /\ i \in 1..Len(a) + Len(b)
      <4>1. /\ i \in Nat /\ k \in Nat /\ Len(s) \in Nat
            /\ k <= i /\ i <= Len(s) - 1 /\ 1 <= i
        BY <1>1, <2>2
      <4>2. i \in 1..Len(a) + Len(b)
        BY <1>9, <4>1
      <4> QED BY <4>1, <4>2
    <3>2. t[i] = b[i - (k - 1)]
      BY <1>2, <1>4, <3>1
    <3> QED BY <1>3, <2>2, <3>1, <3>2
  <2> QED BY <2>1, <2>2
<1>6. DOMAIN t = 1..Len(s) - 1
  BY <1>1, <1>2, <1>3, <1>4, LenProperties
<1>7. ToSet(t) = ToSet(s) \ {s[k]}
  <2>1. ASSUME NEW x \in ToSet(t) PROVE x \in ToSet(s) \ {s[k]}
    <3>1. PICK i \in 1..Len(s) - 1 : x = s[IF i < k THEN i ELSE i + 1]
      BY <1>5, <1>6 DEF ToSet
    <3>2. (IF i < k THEN i ELSE i + 1) \in 1..Len(s) /\ (IF i < k THEN i ELSE i + 1) # k
      BY <1>1
    <3> QED BY <1>1, <3>1, <3>2 DEF ToSet, IsInjective
  <2>2. ASSUME NEW x \in ToSet(s), x # s[k] PROVE x \in ToSet(t)
    <3>1. PICK i \in 1..Len(s) : x = s[i]
      BY <1>1 DEF ToSet
    <3>2. CASE i < k
      <4>1. i \in 1..Len(s) - 1 /\ t[i] = s[i]
        BY <1>1, <1>5, <3>2
      <4> QED BY <1>6, <3>1, <4>1 DEF ToSet
    <3>3. CASE i > k
      <4>1. i - 1 \in 1..Len(s) - 1 /\ ~(i - 1 < k) /\ (i - 1) + 1 = i
        BY <1>1, <3>3
      <4>2. t[i - 1] = s[i]
        BY <1>5, <4>1
      <4> QED BY <1>6, <3>1, <4>1, <4>2 DEF ToSet
    <3> QED BY <1>1, <2>2, <3>1, <3>2, <3>3
  <2> QED BY <2>1, <2>2
<1>8. IsInjective(t)
  <2> SUFFICES ASSUME NEW i \in 1..Len(s) - 1, NEW j \in 1..Len(s) - 1, t[i] = t[j]
               PROVE  i = j
    BY <1>6 DEF IsInjective
  <2> DEFINE place(n) == IF n < k THEN n ELSE n + 1
  <2>1. place(i) \in 1..Len(s) /\ place(j) \in 1..Len(s)
    BY <1>1
  <2>2. s[place(i)] = s[place(j)]
    BY <1>5
  <2>3. place(i) = place(j)
    <3> HIDE DEF place
    <3> QED BY <1>1, <2>1, <2>2 DEF IsInjective
  <2> QED BY <1>1, <2>3
<1> QED BY <1>0, <1>4, <1>7, <1>8

LEMMA EmptyQueue ==
    ASSUME NEW S, NEW s \in Seq(S)
    PROVE  s = <<>> <=> ToSet(s) = {}
<1>1. CASE s = <<>>
  BY <1>1 DEF ToSet
<1>2. CASE s # <<>>
  <2>1. DOMAIN s = 1..Len(s) /\ Len(s) \in Nat \ {0}
    BY <1>2, LenProperties, EmptySeq
  <2>2. s[1] \in ToSet(s)
    BY <2>1 DEF ToSet
  <2> QED BY <1>2, <2>2
<1> QED BY <1>1, <1>2

-----------------------------------------------------------------------------
(* The inductive invariant.  The lock's ownership and its queue depend on   *)
(* each other: a waiter that is granted the lock does not look at _locked,  *)
(* so that ownership needs `woken only when free', which needs that every   *)
(* release and cancellation keeps the queue in step with the tasks.         *)

NothingBeforeStart == phase = "init" => \A t \in Tasks : pc[t] = "none"

IInv == TypeOK /\ NothingBeforeStart /\ OneRoundAtATime /\ QueueIsServed

Holding == {"cooldown", "collecting", "writing"}

LEMMA OwnerType == \A t \in Tasks : Owner(t) \in Collectors /\ ClassOf(t) \in Classes
BY DEF Tasks, Owner, ClassOf

\* A task moves on without touching the lock or its queue.
LEMMA MoveTask ==
    ASSUME IInv, NEW t \in Tasks, NEW s \in TaskStates,
           pc' = [pc EXCEPT ![t] = s],
           UNCHANGED <<locked, waiters, woken>>,
           pc[t] = "waiting" <=> s = "waiting",
           Holds(t) <=> s \in Holding
    PROVE  OneRoundAtATime' /\ QueueIsServed'
<1>1. \A u \in Tasks : (Holds(u) <=> Holds(u)') /\ (pc[u] = "waiting" <=> pc'[u] = "waiting")
  BY DEF IInv, TypeOK, Holds, Holding
<1>2. OneRoundAtATime'
  BY <1>1 DEF IInv, OneRoundAtATime
<1>3. QueueIsServed'
  BY <1>1 DEF IInv, QueueIsServed
<1> QED BY <1>2, <1>3

\* A task takes a lock that is free.
LEMMA TakeLock ==
    ASSUME IInv, NEW t \in Tasks, ~locked[Owner(t)], EnterRound(t)
    PROVE  OneRoundAtATime'
<1> DEFINE c == Owner(t)
<1>1. c \in Collectors
  BY OwnerType
<1>2. \A u \in Tasks : Owner(u) = c => ~Holds(u)
  BY <1>1 DEF IInv, OneRoundAtATime
<1>3. Holds(t)' /\ \A u \in Tasks : u # t => (Holds(u)' <=> Holds(u))
  BY DEF IInv, TypeOK, EnterRound, Holds
<1>4. locked'[c] /\ \A d \in Collectors : d # c => locked'[d] = locked[d]
  BY <1>1 DEF IInv, TypeOK, EnterRound
<1> QED BY <1>1, <1>2, <1>3, <1>4 DEF IInv, OneRoundAtATime

\* The holder leaves its round and releases the lock.
LEMMA FreeLock ==
    ASSUME IInv, NEW t \in Tasks, Holds(t), Release(Owner(t)), UNCHANGED waiters,
           NEW s \in TaskStates \ (Holding \cup {"waiting"}),
           pc' = [pc EXCEPT ![t] = s]
    PROVE  OneRoundAtATime' /\ QueueIsServed'
<1> DEFINE c == Owner(t)
<1>1. c \in Collectors
  BY OwnerType
<1>2. \A u \in Tasks : Owner(u) = c /\ Holds(u) => u = t
  BY <1>1 DEF IInv, OneRoundAtATime
<1>3. ~Holds(t)' /\ \A u \in Tasks : u # t => (Holds(u)' <=> Holds(u))
  BY DEF IInv, TypeOK, Holds, Holding
<1>4. ~locked'[c] /\ \A d \in Collectors : d # c => locked'[d] = locked[d]
  BY <1>1 DEF IInv, TypeOK, Release
<1>5. /\ woken'[c] = (waiters[c] # <<>>)
      /\ \A d \in Collectors : d # c => woken'[d] = woken[d]
  BY <1>1 DEF IInv, TypeOK, Release
<1>6. \A u \in Tasks : pc'[u] = "waiting" <=> pc[u] = "waiting"
  BY DEF IInv, TypeOK, Holds, Holding
<1>7. OneRoundAtATime'
  BY <1>1, <1>2, <1>3, <1>4 DEF IInv, OneRoundAtATime
<1>8. QueueIsServed'
  BY <1>1, <1>4, <1>5, <1>6 DEF IInv, QueueIsServed
<1> QED BY <1>7, <1>8

\* A due round queues behind the others (Enqueue).
LEMMA EnqueueStep ==
    ASSUME IInv, NEW t \in Tasks, Enqueue(t)
    PROVE  IInv'
<1> DEFINE c == Owner(t)
<1>1. c \in Collectors /\ waiters[c] \in Seq(Tasks) /\ pc[t] = "due"
  BY OwnerType DEF IInv, TypeOK, Enqueue
<1>2. t \notin ToSet(waiters[c])
  BY <1>1 DEF IInv, QueueIsServed
<1>3. /\ Append(waiters[c], t) \in Seq(Tasks)
      /\ Append(waiters[c], t) # <<>>
      /\ ToSet(Append(waiters[c], t)) = ToSet(waiters[c]) \cup {t}
      /\ IsInjective(Append(waiters[c], t))
  BY <1>1, <1>2, AppendToQueue DEF IInv, QueueIsServed
<1>4. /\ waiters'[c] = Append(waiters[c], t)
      /\ \A d \in Collectors : d # c => waiters'[d] = waiters[d]
  BY <1>1 DEF IInv, TypeOK, Enqueue
<1>5. pc'[t] = "waiting" /\ \A u \in Tasks : u # t => pc'[u] = pc[u]
  BY DEF IInv, TypeOK, Enqueue
<1>6. TypeOK'
  BY <1>1, <1>3 DEF IInv, TypeOK, TaskStates, Enqueue
<1>7. NothingBeforeStart'
  BY DEF Enqueue, Alive, NothingBeforeStart
<1>8. OneRoundAtATime'
  <2>1. \A u \in Tasks : Holds(u)' <=> Holds(u)
    BY <1>1, <1>5 DEF Holds
  <2> QED BY <2>1 DEF IInv, OneRoundAtATime, Enqueue
<1>9. QueueIsServed'
  <2>1. woken[c] <=> ~locked[c] /\ Append(waiters[c], t) # <<>>
    BY <1>1, <1>3 DEF IInv, QueueIsServed, Enqueue, CanTake
  <2>2. locked' = locked /\ woken' = woken
    BY DEF Enqueue
  <2> SUFFICES ASSUME NEW d \in Collectors
               PROVE  /\ \A u \in Tasks : pc'[u] = "waiting" /\ Owner(u) = d <=> u \in ToSet(waiters'[d])
                      /\ IsInjective(waiters'[d])
                      /\ woken'[d] <=> ~locked'[d] /\ waiters'[d] # <<>>
    BY DEF QueueIsServed
  <2>3. CASE d = c
    <3>1. \A u \in Tasks : pc'[u] = "waiting" /\ Owner(u) = d <=> u \in ToSet(waiters'[d])
      <4>1. ToSet(waiters'[c]) = ToSet(waiters[c]) \cup {t}
        BY <1>3, <1>4
      <4> SUFFICES ASSUME NEW u \in Tasks
                   PROVE  pc'[u] = "waiting" /\ Owner(u) = c <=> u \in ToSet(waiters'[c])
        BY <2>3
      <4>2. pc[u] = "waiting" /\ Owner(u) = c <=> u \in ToSet(waiters[c])
        BY <1>1 DEF IInv, QueueIsServed
      <4>3. CASE u = t
        BY <1>5, <4>1, <4>3
      <4>4. CASE u # t
        BY <1>5, <4>1, <4>2, <4>4
      <4> QED BY <4>3, <4>4
    <3>2. woken'[d] <=> ~locked'[d] /\ waiters'[d] # <<>>
      BY <1>4, <2>1, <2>2, <2>3
    <3> QED BY <1>3, <1>4, <2>3, <3>1, <3>2
  <2>4. CASE d # c
    BY <1>4, <1>5, <2>2, <2>4 DEF IInv, QueueIsServed
  <2> QED BY <2>3, <2>4
<1> QED BY <1>6, <1>7, <1>8, <1>9 DEF IInv

\* The first waiter resumes with the lock (Granted).
LEMMA GrantedStep ==
    ASSUME IInv, NEW t \in Tasks, Granted(t)
    PROVE  IInv'
<1> DEFINE c == Owner(t)
           w == waiters[c]
<1>1. c \in Collectors /\ w \in Seq(Tasks)
  BY OwnerType DEF IInv, TypeOK
<1>2. w # <<>> /\ IsInjective(w) /\ ~locked[c] /\ Head(w) = t
  BY <1>1 DEF IInv, QueueIsServed, Granted
<1>3. /\ Tail(w) \in Seq(Tasks)
      /\ ToSet(Tail(w)) = ToSet(w) \ {t}
      /\ IsInjective(Tail(w))
  BY <1>1, <1>2, LeaveAsFirst
<1>4. /\ waiters'[c] = Tail(w)
      /\ \A d \in Collectors : d # c => waiters'[d] = waiters[d]
      /\ locked'[c] /\ ~woken'[c]
      /\ \A d \in Collectors : d # c => locked'[d] = locked[d] /\ woken'[d] = woken[d]
  BY <1>1 DEF IInv, TypeOK, Granted, EnterRound
<1>5. pc'[t] # "waiting" /\ \A u \in Tasks : u # t => pc'[u] = pc[u]
  BY DEF IInv, TypeOK, Granted, EnterRound
<1>6. TypeOK'
  BY <1>1, <1>3 DEF IInv, TypeOK, TaskStates, Granted, EnterRound
<1>7. NothingBeforeStart'
  BY DEF Granted, Alive, NothingBeforeStart
<1>8. OneRoundAtATime'
  BY <1>2, TakeLock DEF Granted
<1>9. QueueIsServed'
  <2> SUFFICES ASSUME NEW d \in Collectors
               PROVE  /\ \A u \in Tasks : pc'[u] = "waiting" /\ Owner(u) = d <=> u \in ToSet(waiters'[d])
                      /\ IsInjective(waiters'[d])
                      /\ woken'[d] <=> ~locked'[d] /\ waiters'[d] # <<>>
    BY DEF QueueIsServed
  <2>1. CASE d = c
    BY <1>1, <1>3, <1>4, <1>5, <2>1 DEF IInv, QueueIsServed
  <2>2. CASE d # c
    BY <1>4, <1>5, <2>2 DEF IInv, QueueIsServed
  <2> QED BY <2>1, <2>2
<1> QED BY <1>6, <1>7, <1>8, <1>9 DEF IInv

\* A cancelled waiter leaves the queue and wakes the next one (CancelWaiter).
LEMMA CancelWaiterStep ==
    ASSUME IInv, NEW t \in Tasks, CancelWaiter(t)
    PROVE  IInv'
<1> DEFINE c == Owner(t)
           w == waiters[c]
<1>1. c \in Collectors /\ w \in Seq(Tasks) /\ IsInjective(w) /\ pc[t] = "waiting"
  BY OwnerType DEF IInv, TypeOK, QueueIsServed, CancelWaiter
<1>2. PICK i \in DOMAIN w : w[i] = t /\ waiters' = [waiters EXCEPT ![c] = RemoveAt(w, i)]
  BY <1>1 DEF IInv, TypeOK, CancelWaiter
<1>3. /\ RemoveAt(w, i) \in Seq(Tasks)
      /\ ToSet(RemoveAt(w, i)) = ToSet(w) \ {t}
      /\ IsInjective(RemoveAt(w, i))
  BY <1>1, <1>2, LeaveFrom
<1>4. /\ waiters'[c] = RemoveAt(w, i)
      /\ \A d \in Collectors : d # c => waiters'[d] = waiters[d]
      /\ woken'[c] <=> ~locked[c] /\ waiters'[c] # <<>>
      /\ \A d \in Collectors : d # c => woken'[d] = woken[d]
      /\ locked' = locked
  BY <1>1, <1>2 DEF IInv, TypeOK, CancelWaiter
<1>5. pc'[t] = "cancelled" /\ \A u \in Tasks : u # t => pc'[u] = pc[u]
  BY DEF IInv, TypeOK, CancelWaiter
<1>6. TypeOK'
  <2>1. waiters' \in [Collectors -> Seq(Tasks)]
    BY <1>1, <1>2, <1>3 DEF IInv, TypeOK
  <2>2. woken' \in [Collectors -> BOOLEAN]
    BY <1>1, <1>4 DEF IInv, TypeOK, CancelWaiter
  <2>3. pc' \in [Tasks -> TaskStates]
    BY DEF IInv, TypeOK, TaskStates, CancelWaiter
  <2> QED BY <2>1, <2>2, <2>3 DEF IInv, TypeOK, CancelWaiter
<1>7. NothingBeforeStart'
  BY DEF CancelWaiter, NothingBeforeStart
<1>8. OneRoundAtATime'
  <2>1. \A u \in Tasks : Holds(u)' <=> Holds(u)
    BY <1>1, <1>5 DEF Holds
  <2> QED BY <1>4, <2>1 DEF IInv, OneRoundAtATime
<1>9. QueueIsServed'
  <2> SUFFICES ASSUME NEW d \in Collectors
               PROVE  /\ \A u \in Tasks : pc'[u] = "waiting" /\ Owner(u) = d <=> u \in ToSet(waiters'[d])
                      /\ IsInjective(waiters'[d])
                      /\ woken'[d] <=> ~locked'[d] /\ waiters'[d] # <<>>
    BY DEF QueueIsServed
  <2>1. CASE d = c
    <3>1. \A u \in Tasks : pc'[u] = "waiting" /\ Owner(u) = d <=> u \in ToSet(waiters'[d])
      BY <1>1, <1>3, <1>4, <1>5, <2>1 DEF IInv, QueueIsServed
    <3> QED BY <1>3, <1>4, <2>1, <3>1
  <2>2. CASE d # c
    BY <1>4, <1>5, <2>2 DEF IInv, QueueIsServed
  <2> QED BY <2>1, <2>2
<1> QED BY <1>6, <1>7, <1>8, <1>9 DEF IInv

\* What the invariant says of a task and a lock, the actions that leave both
\* alone preserve.
LEMMA SameLocks ==
    ASSUME IInv, UNCHANGED <<pc, locked, waiters, woken>>
    PROVE  OneRoundAtATime' /\ QueueIsServed'
BY DEF IInv, OneRoundAtATime, QueueIsServed, Holds

LEMMA InitInvariant == Init => IInv
<1> SUFFICES ASSUME Init PROVE IInv
  OBVIOUS
<1>1. TypeOK
  BY EmptySeq DEF Init, TypeOK, Phases, TaskStates, OnceStates
<1>2. OneRoundAtATime
  BY DEF Init, OneRoundAtATime, Holds
<1>3. QueueIsServed
  <2>1. ToSet(<<>>) = {} /\ IsInjective(<<>>)
    BY DEF ToSet, IsInjective
  <2> QED BY <2>1 DEF Init, QueueIsServed
<1>4. NothingBeforeStart
  BY DEF Init, NothingBeforeStart
<1> QED BY <1>1, <1>2, <1>3, <1>4 DEF IInv

LEMMA RoundStepInvariant ==
    ASSUME IInv, NEW t \in Tasks, RoundStep(t)
    PROVE  IInv'
<1> USE DEF Alive, NothingBeforeStart
<1>0. pc[t] \in TaskStates /\ Owner(t) \in Collectors
  BY OwnerType DEF IInv, TypeOK
<1>1. CASE FirstSleep(t)
  <2>1. TypeOK' /\ NothingBeforeStart'
    BY <1>1 DEF IInv, TypeOK, TaskStates, FirstSleep
  <2> QED BY <1>1, <2>1, MoveTask DEF IInv, FirstSleep, TaskStates, Holds, Holding
<1>2. CASE FailFirst(t)
  <2>1. TypeOK' /\ NothingBeforeStart'
    BY <1>2 DEF IInv, TypeOK, FailFirst
  <2> QED BY <1>2, <2>1, SameLocks DEF IInv, FailFirst
<1>3. CASE Spin(t)
  BY <1>3, SameLocks DEF IInv, TypeOK, Spin, vars
<1>4. CASE SlotDue(t)
  <2>1. TypeOK' /\ NothingBeforeStart'
    BY <1>4 DEF IInv, TypeOK, TaskStates, SlotDue
  <2> QED BY <1>4, <2>1, MoveTask DEF IInv, SlotDue, TaskStates, Holds, Holding
<1>5. CASE SkipOverlap(t)
  <2>1. TypeOK' /\ NothingBeforeStart'
    BY <1>5 DEF IInv, TypeOK, TaskStates, SkipOverlap
  <2> QED BY <1>5, <2>1, MoveTask DEF IInv, SkipOverlap, TaskStates, Holds, Holding
<1>6. CASE Acquire(t)
  <2>1. TypeOK' /\ NothingBeforeStart'
    BY <1>6 DEF IInv, TypeOK, TaskStates, Acquire, EnterRound
  <2>2. OneRoundAtATime'
    BY <1>6, TakeLock DEF Acquire, CanTake
  <2>3. QueueIsServed'
    <3>1. /\ locked'[Owner(t)]
          /\ \A d \in Collectors : d # Owner(t) => locked'[d] = locked[d]
      BY <1>0, <1>6 DEF IInv, TypeOK, Acquire, EnterRound
    <3>2. \A u \in Tasks : pc'[u] = "waiting" <=> pc[u] = "waiting"
      BY <1>6 DEF IInv, TypeOK, Acquire, EnterRound
    <3>3. ~woken[Owner(t)] /\ waiters' = waiters /\ woken' = woken
      BY <1>0, <1>6 DEF IInv, QueueIsServed, Acquire, CanTake
    <3> QED BY <1>0, <3>1, <3>2, <3>3 DEF IInv, QueueIsServed
  <2> QED BY <2>1, <2>2, <2>3 DEF IInv
<1>7. CASE Enqueue(t)
  BY <1>7, EnqueueStep
<1>8. CASE Granted(t)
  BY <1>8, GrantedStep
<1>9. CASE CooldownOver(t)
  <2>1. TypeOK' /\ NothingBeforeStart'
    BY <1>9 DEF IInv, TypeOK, TaskStates, CooldownOver
  <2> QED BY <1>9, <2>1, MoveTask DEF IInv, CooldownOver, TaskStates, Holds, Holding
<1>10. CASE CollectReturns(t)
  <2>1. TypeOK' /\ NothingBeforeStart'
    BY <1>10 DEF IInv, TypeOK, TaskStates, CollectReturns
  <2> QED BY <1>10, <2>1, MoveTask DEF IInv, CollectReturns, TaskStates, Holds, Holding
<1>11. CASE WriteReturns(t) \/ RoundFails(t)
  <2>1. TypeOK' /\ NothingBeforeStart'
    BY <1>11, <1>0, SpacingAssumption
    DEF IInv, TypeOK, TaskStates, WriteReturns, RoundFails, EndRound, Release
  <2>2. Holds(t) /\ Release(Owner(t)) /\ UNCHANGED waiters /\ pc' = [pc EXCEPT ![t] = "sleeping"]
    BY <1>11 DEF WriteReturns, RoundFails, EndRound, Holds
  <2>3. "sleeping" \in TaskStates \ (Holding \cup {"waiting"})
    BY DEF TaskStates, Holding
  <2> QED BY <2>1, <2>2, <2>3, FreeLock DEF IInv
<1> QED
  BY <1>1, <1>2, <1>3, <1>4, <1>5, <1>6, <1>7, <1>8, <1>9, <1>10, <1>11 DEF RoundStep

LEMMA CancelStepInvariant ==
    ASSUME IInv, NEW t \in Tasks, CancelStep(t)
    PROVE  IInv'
<1>1. CASE CancelIdle(t)
  <2>1. TypeOK' /\ NothingBeforeStart'
    BY <1>1 DEF IInv, TypeOK, TaskStates, CancelIdle, NothingBeforeStart
  <2> QED BY <1>1, <2>1, MoveTask DEF IInv, CancelIdle, TaskStates, Holds, Holding
<1>2. CASE CancelWaiter(t)
  BY <1>2, CancelWaiterStep
<1>3. CASE CancelRound(t)
  <2>1. TypeOK' /\ NothingBeforeStart'
    BY <1>3, OwnerType, SpacingAssumption
    DEF IInv, TypeOK, TaskStates, CancelRound, Release, NothingBeforeStart
  <2>2. "cancelled" \in TaskStates \ (Holding \cup {"waiting"})
    BY DEF TaskStates, Holding
  <2> QED BY <1>3, <2>1, <2>2, FreeLock DEF IInv, CancelRound
<1> QED BY <1>1, <1>2, <1>3 DEF CancelStep

LEMMA OnceStepInvariant ==
    ASSUME IInv, NEW r \in Requests, OnceStep(r)
    PROVE  IInv'
<1>1. UNCHANGED <<pc, locked, waiters, woken, phase>>
  BY DEF OnceStep, RunOnce, OnceGathered, OnceWriteReturns, OnceForgotten,
         OnceCollectReturns, OnceCollectRaises
<1>2. TypeOK'
  <2>1. CASE RunOnce(r)
    BY <2>1, SchedulesAssumption DEF IInv, TypeOK, OnceStates, RunOnce
  <2>2. CASE OnceGathered(r) \/ OnceWriteReturns(r) \/ OnceForgotten(r)
    BY <2>2 DEF IInv, TypeOK, OnceStates, OnceGathered, OnceWriteReturns, OnceForgotten
  <2>3. ASSUME NEW c \in Collectors, OnceCollectReturns(r, c) PROVE TypeOK'
    <3>1. Tail(todo[r][c]) \in Seq(Classes)
      BY <2>3, HeadTailProperties DEF IInv, TypeOK, OnceCollectReturns
    <3> QED BY <2>3, <3>1 DEF IInv, TypeOK, OnceCollectReturns
  <2>4. ASSUME NEW c \in Collectors, OnceCollectRaises(r, c) PROVE TypeOK'
    BY <2>4, EmptySeq DEF IInv, TypeOK, OnceStates, OnceCollectRaises
  <2> QED BY <2>1, <2>2, <2>3, <2>4 DEF OnceStep
<1>3. OneRoundAtATime' /\ QueueIsServed'
  BY <1>1, SameLocks
<1> QED BY <1>1, <1>2, <1>3 DEF IInv, NothingBeforeStart

LEMMA NextInvariant == IInv /\ [Next]_vars => IInv'
<1> SUFFICES ASSUME IInv, [Next]_vars PROVE IInv'
  OBVIOUS
<1>1. CASE Start
  <2>1. TypeOK' /\ NothingBeforeStart'
    BY <1>1 DEF IInv, TypeOK, Phases, TaskStates, Start, NothingBeforeStart
  <2>2. \A t \in Tasks : pc[t] = "none" /\ pc'[t] = "new"
    BY <1>1 DEF IInv, NothingBeforeStart, Start
  <2>3. OneRoundAtATime' /\ QueueIsServed'
    BY <1>1, <2>2 DEF IInv, OneRoundAtATime, QueueIsServed, Holds, Start
  <2> QED BY <2>1, <2>3 DEF IInv
<1>2. CASE Tick
  <2>1. TypeOK' /\ NothingBeforeStart'
    BY <1>2 DEF IInv, TypeOK, Tick, NothingBeforeStart
  <2> QED BY <1>2, <2>1, SameLocks DEF IInv, Tick
<1>3. ASSUME NEW t \in Tasks, RoundStep(t) \/ CancelStep(t) PROVE IInv'
  BY <1>3, RoundStepInvariant, CancelStepInvariant
<1>4. ASSUME NEW r \in Requests, OnceStep(r) PROVE IInv'
  BY <1>4, OnceStepInvariant
<1>5. CASE StopStep
  <2>1. TypeOK' /\ NothingBeforeStart'
    BY <1>5 DEF IInv, TypeOK, Phases, NothingBeforeStart, StopStep, Stop, Alive,
                AllCancelled, CloseCollector, CloseWriter, Stopped, vars
  <2>2. UNCHANGED <<pc, locked, waiters, woken>>
    BY <1>5 DEF StopStep, Stop, AllCancelled, CloseCollector, CloseWriter, Stopped, vars
  <2> QED BY <2>1, <2>2, SameLocks DEF IInv
<1>6. CASE UNCHANGED vars
  BY <1>6, SameLocks DEF IInv, TypeOK, NothingBeforeStart, vars
<1> QED BY <1>1, <1>2, <1>3, <1>4, <1>5, <1>6 DEF Next

THEOREM InductiveInvariant == Spec => []IInv
<1>1. Init => IInv
  BY InitInvariant
<1>2. IInv /\ [Next]_vars => IInv'
  BY NextInvariant
<1> QED BY <1>1, <1>2, PTL DEF Spec

\* Every variable keeps to its type, in particular the queues of the locks
\* hold tasks only.
THEOREM TypeCorrect == Spec => []TypeOK
<1>1. IInv => TypeOK
  BY DEF IInv
<1> QED BY <1>1, InductiveInvariant, PTL

\* At most one task of a collector is between the entry and the exit of its
\* `async with lock`, and the lock is held exactly then (OneRoundAtATime).
THEOREM LockIsExclusive == Spec => []OneRoundAtATime
<1>1. IInv => OneRoundAtATime
  BY DEF IInv
<1> QED BY <1>1, InductiveInvariant, PTL

\* No round is lost in the queue of a lock, and a free lock with a queue has
\* woken its first waiter (QueueIsServed).
THEOREM NoLostWakeup == Spec => []QueueIsServed
<1>1. IInv => QueueIsServed
  BY DEF IInv
<1> QED BY <1>1, InductiveInvariant, PTL

-----------------------------------------------------------------------------
(* What stop() leaves behind.  Requests end before stop() begins, so that   *)
(* none can be in flight later; an orphan of a failed one may be.           *)

StopInv ==
    /\ phase \in {"cancelling", "closing", "stopped"} =>
          \A r \in Requests : once[r] \in {"idle", "failed"}
    /\ phase \in {"closing", "stopped"} => \A t \in Tasks : pc[t] = "cancelled"
    /\ \A r \in Requests, c \in Collectors :
          todo[r][c] # <<>> => once[r] \in {"collecting", "failed"}

LEMMA StopInvStep == IInv /\ StopInv /\ [Next]_vars => StopInv'
<1> SUFFICES ASSUME IInv, StopInv, [Next]_vars PROVE StopInv'
  OBVIOUS
<1>1. CASE Start
  BY <1>1 DEF StopInv, Start
<1>2. CASE Tick
  BY <1>2 DEF StopInv, Tick
<1>3. ASSUME NEW t \in Tasks, RoundStep(t) PROVE StopInv'
  <2>1. (UNCHANGED <<phase, once, todo>> /\ phase = "running") \/ UNCHANGED vars
    BY <1>3 DEF RoundStep, FirstSleep, FailFirst, Spin, SlotDue, SkipOverlap, Acquire, Enqueue,
                Granted, CooldownOver, CollectReturns, WriteReturns, RoundFails, EndRound, Alive
  <2> QED BY <2>1 DEF StopInv, vars
<1>4. ASSUME NEW t \in Tasks, CancelStep(t) PROVE StopInv'
  <2>1. UNCHANGED <<phase, once, todo>> /\ phase = "cancelling"
    BY <1>4 DEF CancelStep, CancelIdle, CancelWaiter, CancelRound
  <2> QED BY <2>1 DEF StopInv
<1>5. ASSUME NEW r \in Requests, OnceStep(r) PROVE StopInv'
  <2> USE DEF IInv, TypeOK, StopInv
  <2>1. CASE RunOnce(r)
    BY <2>1 DEF RunOnce, Alive
  <2>2. CASE OnceGathered(r) \/ OnceWriteReturns(r) \/ OnceForgotten(r)
    BY <2>2 DEF OnceGathered, OnceWriteReturns, OnceForgotten, AllCollected
  <2>3. ASSUME NEW c \in Collectors, OnceCollectReturns(r, c) PROVE StopInv'
    BY <2>3 DEF OnceCollectReturns
  <2>4. ASSUME NEW c \in Collectors, OnceCollectRaises(r, c) PROVE StopInv'
    BY <2>4 DEF OnceCollectRaises
  <2> QED BY <1>5, <2>1, <2>2, <2>3, <2>4 DEF OnceStep
<1>6. CASE StopStep
  BY <1>6 DEF StopInv, StopStep, Stop, AllCancelled, CloseCollector, CloseWriter, Stopped, vars
<1>7. CASE UNCHANGED vars
  BY <1>7 DEF StopInv, vars
<1> QED BY <1>1, <1>2, <1>3, <1>4, <1>5, <1>6, <1>7 DEF Next

\* stop() closes the collectors after every task has ended, every lock is
\* free and every request is over (CloseAfterUse).
THEOREM StopClosesAfterUse == Spec => []CloseAfterUse
<1>1. Init => StopInv
  BY DEF Init, StopInv
<1>2. IInv /\ StopInv => CloseAfterUse
  <2> SUFFICES ASSUME IInv, StopInv, phase \in {"closing", "stopped"}
               PROVE  /\ \A t \in Tasks : pc[t] = "cancelled"
                      /\ \A c \in Collectors : ~locked[c] /\ waiters[c] = <<>>
                      /\ \A r \in Requests, c \in Collectors :
                            todo[r][c] # <<>> => once[r] = "failed"
    BY DEF CloseAfterUse
  <2>1. \A t \in Tasks : pc[t] = "cancelled"
    BY DEF StopInv
  <2>2. ASSUME NEW c \in Collectors PROVE ~locked[c] /\ waiters[c] = <<>>
    <3>1. ~locked[c]
      BY <2>1 DEF IInv, OneRoundAtATime, Holds
    <3>2. waiters[c] \in Seq(Tasks) /\ ToSet(waiters[c]) \subseteq Tasks
      BY ElementOfSeq, LenProperties DEF IInv, TypeOK, ToSet
    <3>3. ToSet(waiters[c]) = {}
      BY <2>1, <3>2 DEF IInv, QueueIsServed
    <3> QED BY <3>1, <3>2, <3>3, EmptyQueue
  <2>3. \A r \in Requests, c \in Collectors : todo[r][c] # <<>> => once[r] = "failed"
    BY DEF StopInv
  <2> QED BY <2>1, <2>2, <2>3
<1> QED BY <1>1, <1>2, StopInvStep, InductiveInvariant, PTL DEF Spec

-----------------------------------------------------------------------------
(* The refinement of SerialCollection.  A round begins its collection when  *)
(* the task enters "collecting", and ends it with the finally of the round. *)

AtServer == {"collecting", "writing"}

Left(c) == IF c \in Networker THEN cool[c] ELSE 0

\* No task enters or leaves AtServer: SerialCollection stutters.
LEMMA SerialStutters ==
    ASSUME \A u \in Tasks : pc'[u] \in AtServer <=> pc[u] \in AtServer,
           UNCHANGED cool
    PROVE  UNCHANGED Serial!avars
<1>1. \A c \in Collectors : Collecting(c)' = Collecting(c)
  BY DEF Collecting, AtServer
<1>2. \A c \in Collectors : InFlight(c)' = InFlight(c)
  BY <1>1 DEF InFlight
<1> QED BY <1>2 DEF Serial!avars

\* The holder of the lock, past any cooldown, begins to collect.
LEMMA SerialBegins ==
    ASSUME IInv, NEW t \in Tasks,
           \A u \in Tasks : Owner(u) = Owner(t) /\ Holds(u) => u = t,
           pc[t] \notin AtServer,
           ~MustCool(Owner(t)),
           pc' = [pc EXCEPT ![t] = "collecting"],
           UNCHANGED cool
    PROVE  Serial!Next
<1> DEFINE c == Owner(t)
<1>1. c \in Collectors /\ cool[c] \in Nat
  BY OwnerType DEF IInv, TypeOK
<1>2. Collecting(c) = {} /\ Collecting(c)' = {t}
  BY DEF IInv, TypeOK, Collecting, Holds, AtServer
<1>3. InFlight(c) = NoTask /\ InFlight(c)' = t
  BY <1>2 DEF InFlight, TheTask
<1>4. \A d \in Collectors : d # c => InFlight(d)' = InFlight(d)
  <2>1. \A d \in Collectors : d # c => Collecting(d)' = Collecting(d)
    BY DEF IInv, TypeOK, Collecting
  <2> QED BY <2>1 DEF InFlight
<1>5. Left(c) = 0
  BY <1>1 DEF MustCool, Left
<1>6. Serial!Begin(c, t)
  BY <1>1, <1>3, <1>4, <1>5 DEF Serial!Begin, Left
<1> QED BY <1>1, <1>6 DEF Serial!Next

\* A task in AtServer ends its round, and the cooldown starts anew.
LEMMA SerialEnds ==
    ASSUME IInv, NEW t \in Tasks, NEW s \in TaskStates \ AtServer,
           pc[t] \in AtServer,
           pc' = [pc EXCEPT ![t] = s],
           cool' = [cool EXCEPT ![Owner(t)] = Spacing[Owner(t)]]
    PROVE  Serial!Next
<1> DEFINE c == Owner(t)
<1>1. c \in Collectors
  BY OwnerType
<1>2. \A u \in Tasks : Owner(u) = c /\ pc[u] \in AtServer => u = t
  BY <1>1 DEF IInv, OneRoundAtATime, Holds, AtServer
<1>3. Collecting(c) = {t} /\ Collecting(c)' = {}
  BY <1>2 DEF IInv, TypeOK, Collecting, AtServer
<1>4. InFlight(c) = t /\ InFlight(c)' = NoTask
  BY <1>3 DEF InFlight, TheTask
<1>5. \A d \in Collectors : d # c => InFlight(d)' = InFlight(d)
  <2>1. \A d \in Collectors : d # c => Collecting(d)' = Collecting(d)
    BY DEF IInv, TypeOK, Collecting
  <2> QED BY <2>1 DEF InFlight
<1>6. /\ cool'[c] = Spacing[c]
      /\ \A d \in Collectors : d # c => cool'[d] = cool[d]
  BY <1>1 DEF IInv, TypeOK
<1>7. Serial!End(c)
  BY <1>1, <1>4, <1>5, <1>6, NoTaskAssumption DEF Serial!End
<1> QED BY <1>1, <1>7 DEF Serial!Next

LEMMA SerialTicks ==
    ASSUME IInv, Tick
    PROVE  Serial!Next
<1>1. \A c \in Collectors : InFlight(c)' = InFlight(c)
  BY DEF Tick, InFlight, Collecting, TheTask
<1>2. \A c \in Collectors : cool[c] \in Nat /\ cool'[c] = IF cool[c] = 0 THEN 0 ELSE cool[c] - 1
  BY DEF IInv, TypeOK, Tick
<1>3. Serial!Tick
  BY <1>1, <1>2 DEF Serial!Tick
<1> QED BY <1>3 DEF Serial!Next

LEMMA SerialRoundStep ==
    ASSUME IInv, NEW t \in Tasks, RoundStep(t) \/ CancelStep(t)
    PROVE  [Serial!Next]_Serial!avars
<1> USE DEF AtServer
<1>0. pc \in [Tasks -> TaskStates] /\ Owner(t) \in Collectors
  BY OwnerType DEF IInv, TypeOK
<1>1. CASE \/ FirstSleep(t) \/ FailFirst(t) \/ Spin(t) \/ SlotDue(t) \/ SkipOverlap(t)
           \/ Enqueue(t) \/ CollectReturns(t) \/ CancelIdle(t) \/ CancelWaiter(t)
  <2>1. /\ UNCHANGED cool
        /\ \A u \in Tasks : pc'[u] \in AtServer <=> pc[u] \in AtServer
    BY <1>0, <1>1 DEF FirstSleep, FailFirst, Spin, SlotDue, SkipOverlap, Enqueue,
                      CollectReturns, CancelIdle, CancelWaiter, vars
  <2> QED BY <2>1, SerialStutters
<1>2. CASE Acquire(t) \/ Granted(t)
  <2>1. /\ EnterRound(t) /\ UNCHANGED cool
        /\ pc[t] \in {"due", "waiting"}
        /\ ~locked[Owner(t)]
    BY <1>0, <1>2 DEF Acquire, CanTake, Granted, IInv, QueueIsServed
  <2>2. \A u \in Tasks : Owner(u) = Owner(t) => ~Holds(u)
    BY <1>0, <2>1 DEF IInv, OneRoundAtATime
  <2>3. CASE MustCool(Owner(t))
    <3>1. \A u \in Tasks : pc'[u] \in AtServer <=> pc[u] \in AtServer
      BY <1>0, <2>1, <2>3 DEF EnterRound
    <3> QED BY <2>1, <3>1, SerialStutters
  <2>4. CASE ~MustCool(Owner(t))
    <3>1. pc' = [pc EXCEPT ![t] = "collecting"]
      BY <2>1, <2>4 DEF EnterRound
    <3> QED BY <2>1, <2>2, <2>4, <3>1, SerialBegins
  <2> QED BY <2>3, <2>4
<1>3. CASE CooldownOver(t)
  <2>1. \A u \in Tasks : Owner(u) = Owner(t) /\ Holds(u) => u = t
    BY <1>0, <1>3 DEF IInv, OneRoundAtATime, Holds, CooldownOver
  <2>2. ~MustCool(Owner(t)) /\ pc[t] = "cooldown"
    BY <1>3 DEF CooldownOver, MustCool
  <2>3. pc' = [pc EXCEPT ![t] = "collecting"] /\ UNCHANGED cool
    BY <1>3 DEF CooldownOver
  <2> QED BY <2>1, <2>2, <2>3, SerialBegins
<1>4. CASE WriteReturns(t) \/ RoundFails(t)
  <2>1. "sleeping" \in TaskStates \ AtServer
    BY DEF TaskStates
  <2> QED BY <1>4, <2>1, SerialEnds DEF WriteReturns, RoundFails, EndRound
<1>5. CASE CancelRound(t)
  <2>1. "cancelled" \in TaskStates \ AtServer
    BY DEF TaskStates
  <2>2. CASE pc[t] = "cooldown"
    <3>1. /\ UNCHANGED cool
          /\ \A u \in Tasks : pc'[u] \in AtServer <=> pc[u] \in AtServer
      BY <1>0, <1>5, <2>2 DEF CancelRound
    <3> QED BY <3>1, SerialStutters
  <2>3. CASE pc[t] # "cooldown"
    <3>1. /\ pc[t] \in AtServer
          /\ pc' = [pc EXCEPT ![t] = "cancelled"]
          /\ cool' = [cool EXCEPT ![Owner(t)] = Spacing[Owner(t)]]
      BY <1>5, <2>3 DEF CancelRound, Holds
    <3> QED BY <2>1, <3>1, SerialEnds
  <2> QED BY <2>2, <2>3
<1> QED BY <1>1, <1>2, <1>3, <1>4, <1>5 DEF RoundStep, CancelStep

LEMMA SerialStep == IInv /\ [Next]_vars => [Serial!Next]_Serial!avars
<1> SUFFICES ASSUME IInv, [Next]_vars PROVE [Serial!Next]_Serial!avars
  OBVIOUS
<1>1. ASSUME UNCHANGED <<pc, cool>> PROVE UNCHANGED Serial!avars
  BY <1>1, SerialStutters
<1>2. CASE Start
  <2>1. /\ UNCHANGED cool
        /\ \A u \in Tasks : pc'[u] \in AtServer <=> pc[u] \in AtServer
    BY <1>2 DEF IInv, NothingBeforeStart, Start, AtServer
  <2> QED BY <2>1, SerialStutters
<1>3. CASE Tick
  BY <1>3, SerialTicks
<1>4. ASSUME NEW t \in Tasks, RoundStep(t) \/ CancelStep(t)
      PROVE  [Serial!Next]_Serial!avars
  BY <1>4, SerialRoundStep
<1>5. ASSUME NEW r \in Requests, OnceStep(r) PROVE UNCHANGED <<pc, cool>>
  BY <1>5 DEF OnceStep, RunOnce, OnceGathered, OnceWriteReturns, OnceForgotten,
              OnceCollectReturns, OnceCollectRaises
<1>6. CASE StopStep \/ UNCHANGED vars
  BY <1>1, <1>6 DEF StopStep, Stop, AllCancelled, CloseCollector, CloseWriter, Stopped, vars
<1> QED BY <1>1, <1>2, <1>3, <1>4, <1>5, <1>6 DEF Next

\* The scheduled collections of a collector never overlap, and the next one
\* of a Networker collector begins no earlier than its spacing after the end
\* of the last, whatever run_once, failures and stop() do meanwhile.
THEOREM ImplementsSerialCollection == Spec => ScheduledCollectionsAreSerial
<1>1. Init => Serial!Init
  <2> SUFFICES ASSUME Init PROVE Serial!Init
    OBVIOUS
  <2>1. \A c \in Collectors : InFlight(c) = NoTask /\ Left(c) = 0
    BY DEF Init, InFlight, TheTask, Collecting, Left
  <2> QED BY <2>1 DEF Serial!Init, Left
<1> QED BY <1>1, SerialStep, InductiveInvariant, PTL
        DEF Spec, ScheduledCollectionsAreSerial, Serial!Spec
=============================================================================
