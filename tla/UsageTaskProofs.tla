--------------------------- MODULE UsageTaskProofs ---------------------------
(***************************************************************************)
(* The limiter counts its slots and leaves none empty, its queue is        *)
(* bounded, and a check of a database leaves its verdict: for any number   *)
(* of documents, works and replicas.                                       *)
(***************************************************************************)
EXTENDS UsageTask, FiniteSetTheorems, TLAPS

-----------------------------------------------------------------------------
(* The limiter *)

TaskStates == {"free", "queued", "running", "settled"}
In(t, s) == \E i \in 1..Len(s) : s[i] = t

QueueOK ==
    /\ queue \in Seq(Tasks)
    /\ \A i, j \in 1..Len(queue) : queue[i] = queue[j] => i = j
    /\ \A t \in Tasks : task[t] = "queued" <=> In(t, queue)

\* While a function waits there is no room, or there are checks to come for the room there
\* is, or for every function that waits.
NoneForgotten ==
    queue # <<>> => activeCount + checks >= Concurrency \/ checks >= Len(queue)

LimiterInv ==
    /\ task \in [Tasks -> TaskStates]
    /\ checks \in Nat
    /\ activeCount \in Nat
    /\ QueueOK
    /\ ActiveBound
    /\ NoneForgotten

LEMMA RunningFinite == IsFiniteSet(Running)
  BY FS_Subset, UsageAssumption DEF Running

LEMMA LimitInitOK == LimitInit => LimiterInv
<1> SUFFICES ASSUME LimitInit PROVE LimiterInv
  OBVIOUS
<1>1. Running = {}
  BY DEF LimitInit, Running
<1>2. queue = <<>> /\ activeCount = 0 /\ checks = 0 /\ task \in [Tasks -> TaskStates]
  BY DEF LimitInit, TaskStates
<1>3. QueueOK
  BY DEF LimitInit, QueueOK, In
<1>4. ActiveBound
  BY <1>1, <1>2, FS_EmptySet, ConcurrencyAssumption DEF ActiveBound
<1> QED  BY <1>2, <1>3, <1>4 DEF LimiterInv, NoneForgotten

\* The head of the queue leaves it.
LEMMA HeadFacts ==
  ASSUME LimiterInv, queue # <<>>
  PROVE  /\ Head(queue) \in Tasks /\ task[Head(queue)] = "queued"
         /\ Tail(queue) \in Seq(Tasks)
         /\ Len(queue) \in Nat \ {0} /\ Len(Tail(queue)) = Len(queue) - 1
         /\ \A i, j \in 1..Len(Tail(queue)) : Tail(queue)[i] = Tail(queue)[j] => i = j
         /\ \A t \in Tasks : In(t, Tail(queue)) <=> In(t, queue) /\ t # Head(queue)
<1> DEFINE n == Len(queue)
           q == Tail(queue)
<1>1. n \in Nat \ {0} /\ q \in Seq(Tasks) /\ Len(q) = n - 1 /\ Head(queue) = queue[1]
  BY DEF LimiterInv, QueueOK
<1>2. \A i \in 1..Len(q) : q[i] = queue[i + 1] /\ i + 1 \in 2..n
  BY <1>1 DEF LimiterInv, QueueOK
<1>3. Head(queue) \in Tasks /\ task[Head(queue)] = "queued"
  BY <1>1 DEF LimiterInv, QueueOK, In
<1>4. \A i, j \in 1..Len(q) : q[i] = q[j] => i = j
  BY <1>1, <1>2 DEF LimiterInv, QueueOK
<1>5. ASSUME NEW t \in Tasks PROVE In(t, q) <=> In(t, queue) /\ t # Head(queue)
  <2>1. ASSUME In(t, q) PROVE In(t, queue) /\ t # Head(queue)
    <3>1. PICK i \in 1..Len(q) : q[i] = t
      BY <2>1 DEF In
    <3>2. i + 1 \in 1..n /\ i + 1 # 1 /\ queue[i + 1] = t
      BY <1>1, <1>2, <3>1
    <3> QED  BY <1>1, <3>2 DEF In, LimiterInv, QueueOK
  <2>2. ASSUME In(t, queue), t # Head(queue) PROVE In(t, q)
    <3>1. PICK i \in 1..n : queue[i] = t
      BY <2>2 DEF In
    <3>2. i # 1
      BY <1>1, <2>2, <3>1
    <3>3. i - 1 \in 1..Len(q) /\ q[i - 1] = queue[(i - 1) + 1]
      BY <1>1, <1>2, <3>1, <3>2
    <3>4. q[i - 1] = t
      BY <3>1, <3>3
    <3> QED  BY <3>3, <3>4 DEF In
  <2> QED  BY <2>1, <2>2
<1> QED  BY <1>1, <1>3, <1>4, <1>5

\* The head of the queue runs.
LEMMA HeadRuns ==
  ASSUME LimiterInv, queue # <<>>,
         queue' = Tail(queue),
         NEW free \in SUBSET Tasks, \A t \in free : task[t] = "settled",
         task' = [t \in Tasks |-> IF t = Head(queue) THEN "running"
                                  ELSE IF t \in free THEN "free" ELSE task[t]]
  PROVE  /\ task' \in [Tasks -> TaskStates]
         /\ QueueOK'
         /\ Running' = (Running \ free) \cup {Head(queue)}
         /\ Head(queue) \notin Running
<1>1. Head(queue) \in Tasks /\ task[Head(queue)] = "queued"
  BY HeadFacts
<1>2. task' \in [Tasks -> TaskStates]
  BY DEF LimiterInv, TaskStates
<1>3. QueueOK'
  <2>1. queue' \in Seq(Tasks) /\ \A i, j \in 1..Len(queue') : queue'[i] = queue'[j] => i = j
    BY HeadFacts
  <2>2. ASSUME NEW t \in Tasks PROVE task'[t] = "queued" <=> In(t, queue')
    <3>1. In(t, queue') <=> In(t, queue) /\ t # Head(queue)
      BY HeadFacts
    <3> QED  BY <3>1 DEF LimiterInv, QueueOK
  <2> QED  BY <2>1, <2>2 DEF QueueOK, In
<1>4. Running' = (Running \ free) \cup {Head(queue)} /\ Head(queue) \notin Running
  BY <1>1 DEF Running
<1> QED  BY <1>2, <1>3, <1>4

LEMMA CheckKeeps == LimiterInv /\ Check => LimiterInv'
<1> SUFFICES ASSUME LimiterInv, Check PROVE LimiterInv'
  OBVIOUS
<1>1. checks \in Nat /\ checks > 0 /\ checks' = checks - 1 /\ checks' \in Nat
  BY DEF LimiterInv, Check
<1>2. CASE activeCount < Concurrency /\ queue # <<>>
  <2>1. /\ activeCount' = activeCount + 1
        /\ queue' = Tail(queue)
        /\ task' = [t \in Tasks |-> IF t = Head(queue) THEN "running"
                                    ELSE IF t \in {} THEN "free" ELSE task[t]]
    BY <1>2 DEF Check, LimiterInv
  <2>2. /\ task' \in [Tasks -> TaskStates] /\ QueueOK'
        /\ Running' = Running \cup {Head(queue)} /\ Head(queue) \notin Running
    <3> DEFINE none == {}
    <3>1. none \in SUBSET Tasks /\ \A t \in none : task[t] = "settled"
      OBVIOUS
    <3>2. task' = [t \in Tasks |-> IF t = Head(queue) THEN "running"
                                  ELSE IF t \in none THEN "free" ELSE task[t]]
      BY <2>1
    <3>3. Running \ none = Running
      OBVIOUS
    <3> HIDE DEF none
    <3> QED  BY <1>2, <2>1, <3>1, <3>2, <3>3, HeadRuns
  <2>3. ActiveBound' /\ activeCount' \in Nat
    <3>1. Cardinality(Running') = Cardinality(Running) + 1
      BY <2>2, RunningFinite, FS_AddElement
    <3> QED  BY <1>2, <2>1, <3>1, ConcurrencyAssumption DEF ActiveBound, LimiterInv
  <2>4. NoneForgotten'
    <3>1. Len(queue) \in Nat \ {0} /\ Len(queue') = Len(queue) - 1
      BY <1>2, <2>1, HeadFacts
    <3>2. activeCount + checks >= Concurrency \/ checks >= Len(queue)
      BY <1>2 DEF LimiterInv, NoneForgotten
    <3> QED  BY <1>1, <2>1, <3>1, <3>2, ConcurrencyAssumption DEF NoneForgotten, LimiterInv
  <2> QED  BY <1>1, <2>2, <2>3, <2>4 DEF LimiterInv
<1>3. CASE ~(activeCount < Concurrency /\ queue # <<>>)
  <2>1. UNCHANGED <<activeCount, queue, task>>
    BY <1>3 DEF Check
  <2>2. NoneForgotten'
    BY <1>1, <1>3, <2>1, ConcurrencyAssumption DEF NoneForgotten, LimiterInv
  <2> QED  BY <1>1, <2>1, <2>2 DEF LimiterInv, QueueOK, In, ActiveBound, Running
<1> QED  BY <1>2, <1>3

LEMMA NextRunsKeeps == ASSUME LimiterInv, NEW t \in Tasks, NextRuns(t) PROVE LimiterInv'
<1>1. task[t] = "settled" /\ checks' = checks /\ t \in Running
  BY DEF NextRuns, Running
<1>2. CASE queue # <<>>
  <2>1. Head(queue) \in Tasks /\ task[Head(queue)] = "queued"
    BY <1>2, HeadFacts
  <2>2. /\ activeCount' = activeCount
        /\ queue' = Tail(queue)
        /\ task' = [u \in Tasks |-> IF u = Head(queue) THEN "running"
                                    ELSE IF u \in {t} THEN "free" ELSE task[u]]
    BY <1>1, <1>2, <2>1 DEF NextRuns, LimiterInv
  <2>3. /\ task' \in [Tasks -> TaskStates] /\ QueueOK'
        /\ Running' = (Running \ {t}) \cup {Head(queue)} /\ Head(queue) \notin Running
    <3> DEFINE free == {t}
    <3>1. free \in SUBSET Tasks /\ \A u \in free : task[u] = "settled"
      BY <1>1
    <3>2. task' = [u \in Tasks |-> IF u = Head(queue) THEN "running"
                                  ELSE IF u \in free THEN "free" ELSE task[u]]
      BY <2>2
    <3>3. Running \ free = Running \ {t}
      OBVIOUS
    <3> HIDE DEF free
    <3> QED  BY <1>2, <2>2, <3>1, <3>2, <3>3, HeadRuns
  <2>4. ActiveBound'
    <3>1. /\ IsFiniteSet(Running \ {t})
          /\ Cardinality(Running \ {t}) = Cardinality(Running) - 1
      BY <1>1, RunningFinite, FS_RemoveElement
    <3>2. Cardinality(Running') = Cardinality(Running \ {t}) + 1
      BY <2>3, <3>1, FS_AddElement
    <3> QED  BY <2>2, <3>1, <3>2 DEF ActiveBound, LimiterInv
  <2>5. NoneForgotten'
    <3>1. Len(queue) \in Nat \ {0} /\ Len(queue') = Len(queue) - 1
      BY <1>2, <2>2, HeadFacts
    <3> QED  BY <1>1, <1>2, <2>2, <3>1 DEF NoneForgotten, LimiterInv
  <2> QED  BY <1>1, <2>2, <2>3, <2>4, <2>5 DEF LimiterInv
<1>3. CASE queue = <<>>
  <2>1. /\ activeCount' = activeCount - 1
        /\ queue' = queue
        /\ task' = [task EXCEPT ![t] = "free"]
    BY <1>3 DEF NextRuns
  <2>2. task' \in [Tasks -> TaskStates] /\ Running' = Running \ {t}
    BY <2>1 DEF LimiterInv, TaskStates, Running
  <2>3. QueueOK'
    BY <1>1, <2>1 DEF LimiterInv, QueueOK, In
  <2>4. ActiveBound' /\ activeCount' \in Nat
    <3>1. /\ Cardinality(Running') = Cardinality(Running) - 1
          /\ Cardinality(Running') \in Nat
      BY <1>1, <2>2, RunningFinite, FS_RemoveElement, FS_CardinalityType
    <3> QED  BY <2>1, <3>1, ConcurrencyAssumption DEF ActiveBound, LimiterInv
  <2> QED  BY <1>1, <1>3, <2>1, <2>2, <2>3, <2>4 DEF LimiterInv, NoneForgotten
<1> QED  BY <1>2, <1>3

LEMMA SettleKeeps == ASSUME LimiterInv, NEW t \in Tasks, Settle(t) PROVE LimiterInv'
<1>1. task' \in [Tasks -> TaskStates] /\ Running' = Running
  BY DEF Settle, LimiterInv, TaskStates, Running
<1>2. QueueOK'
  BY DEF Settle, LimiterInv, QueueOK, In
<1> QED  BY <1>1, <1>2 DEF Settle, LimiterInv, ActiveBound, NoneForgotten

\* Functions with free names are enqueued.
LEMMA EnqueueKeeps ==
  ASSUME LimiterInv, NEW fns \in Seq(FreeTasks), Enqueue(fns),
         \A i, j \in 1..Len(fns) : fns[i] = fns[j] => i = j
  PROVE  LimiterInv' /\ Len(queue') = Len(queue) + Len(fns)
<1> DEFINE n == Len(queue)
           m == Len(fns)
<1>1. n \in Nat /\ m \in Nat /\ queue \in Seq(Tasks) /\ fns \in Seq(Tasks)
  BY DEF LimiterInv, QueueOK, FreeTasks
<1>2. /\ queue' \in Seq(Tasks)
      /\ Len(queue') = n + m
      /\ \A i \in 1..n : queue'[i] = queue[i]
      /\ \A i \in (n + 1)..(n + m) : queue'[i] = fns[i - n]
  BY <1>1 DEF Enqueue
<1>3. \A t \in Tasks : In(t, fns) => task[t] = "free"
  BY <1>1 DEF In, FreeTasks
<1>4. \A t \in Tasks : task'[t] = IF In(t, fns) THEN "queued" ELSE task[t]
  BY DEF Enqueue, In
<1>5. \A t : In(t, queue') <=> In(t, queue) \/ In(t, fns)
  <2>1. ASSUME NEW t, In(t, queue') PROVE In(t, queue) \/ In(t, fns)
    <3>1. PICK i \in 1..(n + m) : queue'[i] = t
      BY <1>2, <2>1 DEF In
    <3>2. CASE i \in 1..n
      BY <1>2, <3>1, <3>2 DEF In
    <3>3. CASE i \in (n + 1)..(n + m)
      <4>1. i - n \in 1..m /\ fns[i - n] = t
        BY <1>1, <1>2, <3>1, <3>3
      <4> QED  BY <4>1 DEF In
    <3> QED  BY <1>1, <3>2, <3>3
  <2>2. ASSUME NEW t, In(t, queue) PROVE In(t, queue')
    BY <1>1, <1>2, <2>2 DEF In
  <2>3. ASSUME NEW t, In(t, fns) PROVE In(t, queue')
    <3>1. PICK i \in 1..m : fns[i] = t
      BY <2>3 DEF In
    <3>2. i + n \in (n + 1)..(n + m) /\ (i + n) - n = i /\ i + n \in 1..(n + m)
      BY <1>1, <3>1
    <3>3. queue'[i + n] = fns[(i + n) - n]
      BY <1>2, <3>2
    <3>4. queue'[i + n] = t /\ i + n \in 1..Len(queue')
      BY <1>2, <3>1, <3>2, <3>3
    <3> QED  BY <3>4 DEF In
  <2> QED  BY <2>1, <2>2, <2>3
<1>6. QueueOK'
  <2>1. ASSUME NEW i \in 1..(n + m), NEW j \in 1..(n + m), queue'[i] = queue'[j] PROVE i = j
    <3>1. CASE i <= n /\ j <= n
      BY <1>1, <1>2, <2>1, <3>1 DEF LimiterInv, QueueOK
    <3>2. CASE i > n /\ j > n
      <4>1. i - n \in 1..m /\ j - n \in 1..m /\ fns[i - n] = fns[j - n]
        BY <1>1, <1>2, <2>1, <3>2
      <4> QED  BY <1>1, <4>1
    <3>3. CASE i <= n /\ j > n
      <4>1. queue[i] \in Tasks /\ task[queue[i]] = "queued"
        BY <1>1, <3>3 DEF LimiterInv, QueueOK, In
      <4>2. j - n \in 1..m /\ queue[i] = fns[j - n]
        BY <1>1, <1>2, <2>1, <3>3
      <4> QED  BY <1>3, <4>1, <4>2 DEF In
    <3>4. CASE i > n /\ j <= n
      <4>1. queue[j] \in Tasks /\ task[queue[j]] = "queued"
        BY <1>1, <3>4 DEF LimiterInv, QueueOK, In
      <4>2. i - n \in 1..m /\ queue[j] = fns[i - n]
        BY <1>1, <1>2, <2>1, <3>4
      <4> QED  BY <1>3, <4>1, <4>2 DEF In
    <3> QED  BY <1>1, <3>1, <3>2, <3>3, <3>4
  <2>2. ASSUME NEW t \in Tasks PROVE task'[t] = "queued" <=> In(t, queue')
    BY <1>4, <1>5 DEF LimiterInv, QueueOK
  <2> QED  BY <1>2, <2>1, <2>2 DEF QueueOK, In
<1>7. task' \in [Tasks -> TaskStates]
  BY <1>4 DEF Enqueue, LimiterInv, TaskStates
<1>8. Running' = Running
  BY <1>3, <1>4 DEF Running
<1>9. checks' \in Nat /\ activeCount' = activeCount /\ checks' = checks + m
  BY <1>1 DEF Enqueue, LimiterInv
<1>10. NoneForgotten'
  <2>1. CASE n = 0
    BY <1>1, <1>2, <1>9, <2>1, ConcurrencyAssumption DEF NoneForgotten, LimiterInv
  <2>2. CASE n > 0
    <3>1. queue # <<>>
      BY <1>1, <2>2
    <3> QED  BY <1>1, <1>2, <1>9, <3>1, ConcurrencyAssumption DEF NoneForgotten, LimiterInv
  <2> QED  BY <1>1, <2>1, <2>2
<1> QED  BY <1>2, <1>6, <1>7, <1>8, <1>9, <1>10 DEF LimiterInv, ActiveBound

LEMMA SetToSeqFacts ==
  ASSUME NEW S, IsFiniteSet(S)
  PROVE  /\ Cardinality(S) \in Nat
         /\ SetToSeq(S) \in Seq(S)
         /\ Len(SetToSeq(S)) = Cardinality(S)
         /\ \A i, j \in 1..Cardinality(S) : SetToSeq(S)[i] = SetToSeq(S)[j] => i = j
<1> DEFINE n == Cardinality(S)
<1>1. n \in Nat /\ ExistsBijection(1..n, S)
  BY FS_CardinalityType
<1>2. PICK f \in [1..n -> S] : IsInjective(f)
  BY <1>1 DEF ExistsBijection, Bijection, Injection
<1>3. SetToSeq(S) \in [1..n -> S] /\ IsInjective(SetToSeq(S))
  BY <1>2 DEF SetToSeq
<1> QED  BY <1>1, <1>3 DEF IsInjective

\* A tick finds names for the handlers it enqueues.
LEMMA EnoughFree ==
  ASSUME LimiterInv
  PROVE  /\ IsFiniteSet(FreeTasks)
         /\ Cardinality(Documents) \in Nat
         /\ Cardinality(FreeTasks) >= Cardinality(Documents) - Waiting
<1> DEFINE Queued == {t \in Tasks : task[t] = "queued"}
           n == Len(queue)
<1>1. /\ IsFiniteSet(Tasks) /\ IsFiniteSet(Documents)
      /\ Cardinality(Tasks) >= Cardinality(Documents) + Concurrency
  BY UsageAssumption
<1>2. IsFiniteSet(FreeTasks) /\ IsFiniteSet(Queued)
  BY <1>1, FS_Subset DEF FreeTasks
<1>3. n \in Nat /\ IsFiniteSet(1..n) /\ Cardinality(1..n) = n
  <2>1. n \in Nat
    BY DEF LimiterInv, QueueOK
  <2> HIDE DEF n
  <2>2. /\ IsFiniteSet(1..n)
        /\ Cardinality(1..n) = IF 1 > n THEN 0 ELSE n - 1 + 1
    BY <2>1, FS_Interval
  <2> QED  BY <2>1, <2>2
<1>4. queue \in Bijection(1..n, Queued)
  <2>1. queue \in [1..n -> Queued]
    BY DEF LimiterInv, QueueOK, In
  <2>2. \A t \in Queued : \E i \in 1..n : queue[i] = t
    BY DEF LimiterInv, QueueOK, In
  <2>3. IsInjective(queue)
    BY <2>1 DEF LimiterInv, QueueOK, IsInjective
  <2> QED  BY <2>1, <2>2, <2>3 DEF Bijection, Injection, Surjection
<1>5. Cardinality(Queued) = n
  BY <1>3, <1>4, FS_Bijection DEF ExistsBijection
<1>6. /\ Tasks = (FreeTasks \cup Queued) \cup Running
      /\ FreeTasks \cap Queued = {} /\ (FreeTasks \cup Queued) \cap Running = {}
  BY DEF LimiterInv, TaskStates, FreeTasks, Running
<1>7. IsFiniteSet(FreeTasks \cup Queued)
      /\ Cardinality(FreeTasks \cup Queued) = Cardinality(FreeTasks) + n - 0
  BY <1>2, <1>5, <1>6, FS_Union, FS_EmptySet
<1>8. Cardinality(Tasks) = Cardinality(FreeTasks \cup Queued) + Cardinality(Running) - 0
  BY <1>6, <1>7, RunningFinite, FS_Union, FS_EmptySet
<1>9. /\ Cardinality(FreeTasks) \in Nat /\ Cardinality(Documents) \in Nat
      /\ Cardinality(Running) \in Nat
  BY <1>1, <1>2, RunningFinite, FS_CardinalityType
<1>10. Cardinality(Running) <= Concurrency
  BY DEF LimiterInv, ActiveBound
<1> QED  BY <1>1, <1>2, <1>3, <1>7, <1>8, <1>9, <1>10, ConcurrencyAssumption DEF Waiting

LEMMA TickEnqueueKeeps ==
  ASSUME LimiterInv, QueueBounded, NEW i \in Ticks, counted[i] \in 0..Cardinality(Documents),
         TickEnqueue(i)
  PROVE  LimiterInv' /\ QueueBounded'
<1> DEFINE s == SetToSeq(FreeTasks)
           k == counted[i] - Waiting
           fns == SubSeq(s, 1, k)
<1>1. /\ IsFiniteSet(FreeTasks) /\ Cardinality(Documents) \in Nat
      /\ Cardinality(FreeTasks) >= Cardinality(Documents) - Waiting
      /\ Waiting \in Nat /\ counted[i] \in Nat /\ counted[i] <= Cardinality(Documents)
  BY EnoughFree DEF LimiterInv, QueueOK, Waiting
<1>2. /\ Cardinality(FreeTasks) \in Nat
      /\ s \in Seq(FreeTasks) /\ Len(s) = Cardinality(FreeTasks)
      /\ \A m, n \in 1..Len(s) : s[m] = s[n] => m = n
  BY <1>1, SetToSeqFacts
<1>3. k \in Int /\ k <= Len(s)
  BY <1>1, <1>2
<1> HIDE DEF s, k
<1>4. /\ fns \in Seq(FreeTasks)
      /\ Len(fns) = IF k < 1 THEN 0 ELSE k
      /\ \A m \in 1..Len(fns) : fns[m] = s[m]
  BY <1>2, <1>3
<1>5. \A m, n \in 1..Len(fns) : fns[m] = fns[n] => m = n
  BY <1>2, <1>3, <1>4
<1>6. Enqueue(fns)
  BY DEF TickEnqueue, s, k
<1>7. LimiterInv' /\ Len(queue') = Len(queue) + Len(fns)
  BY <1>4, <1>5, <1>6, EnqueueKeeps
<1>8. Waiting' <= Cardinality(Documents)
  BY <1>1, <1>3, <1>4, <1>7 DEF k, Waiting, QueueBounded
<1> QED  BY <1>7, <1>8 DEF QueueBounded

-----------------------------------------------------------------------------
(* The documents and the works *)

LimitSteps == {"bundle", "database", "permission", "enforce"}

WorkOK ==
    /\ doc \in [Documents -> [exists : BOOLEAN, stale : BOOLEAN, dataSize : Sizes]]
    /\ store \in [Documents -> [part : [Parts -> Int], total : Int, capacity : Int,
                                permission : Permissions]]
    /\ work \in [Works -> [at : WorkSteps, doc : Documents \cup {Nothing}, left : SUBSET Parts,
                           total : Sizes, capacity : Int, permission : Permissions]]
    /\ \A w \in Works : Live(w) => Of(w) \in Documents

\* The lock of a database that is checked is not old, so no two checks of it meet and the
\* permission a check has read is still the one there is.
ChecksApart ==
    /\ \A w \in Works : work[w].at \in LimitSteps => kind = "DatabaseLimit"
    /\ kind = "DatabaseLimit" =>
         /\ \A w \in Works : Live(w) => ~doc[Of(w)].stale
         /\ \A v, w \in Works : Live(v) /\ Live(w) /\ Of(v) = Of(w) => v = w
         /\ \A w \in Works : At(w, "enforce") => work[w].permission = store[Of(w)].permission

WorkInv == WorkOK /\ ChecksApart

WorkType == [at : WorkSteps, doc : Documents \cup {Nothing}, left : SUBSET Parts,
             total : Sizes, capacity : Int, permission : Permissions]

LEMMA IdleType == Idle \in WorkType
  BY DEF Idle, WorkType, WorkSteps, Sizes, Permissions

LEMMA WorkInitOK == Init => WorkInv
<1> SUFFICES ASSUME Init PROVE WorkInv
  OBVIOUS
<1>1. WorkOK
  BY IdleType, UsageAssumption DEF Init, WorkOK, Sizes, Permissions, WorkType, Live, Idle
<1>2. ChecksApart
  BY DEF Init, ChecksApart, LimitSteps, Live, At, Idle
<1> QED  BY <1>1, <1>2 DEF WorkInv

\* A work ends: of it no document is under way.
LEMMA EndKeeps ==
  ASSUME WorkInv, NEW w \in Works, End(w), UNCHANGED <<kind, doc, store>>
  PROVE  WorkInv'
<1>1. work' \in [Works -> WorkType] /\ work'[w] = Idle /\ \A v \in Works \ {w} : work'[v] = work[v]
  BY IdleType DEF End, WorkInv, WorkOK, WorkType
<1>2. WorkOK'
  BY <1>1 DEF WorkInv, WorkOK, WorkType, Live, Of, Idle
<1>3. ChecksApart'
  BY <1>1 DEF WorkInv, ChecksApart, LimitSteps, Live, At, Of, Idle
<1> QED  BY <1>2, <1>3 DEF WorkInv

\* A work goes on with the same document.
LEMMA StepKeeps ==
  ASSUME WorkInv, NEW w \in Works, Live(w), UNCHANGED <<kind, doc, store>>,
         work' \in [Works -> WorkType],
         \A v \in Works \ {w} : work'[v] = work[v],
         Live(w)', Of(w)' = Of(w),
         work'[w].at \in LimitSteps => work[w].at \in LimitSteps,
         At(w, "enforce")' => work'[w].permission = store[Of(w)].permission
  PROVE  WorkInv'
<1>1. WorkOK'
  BY DEF WorkInv, WorkOK, WorkType, Live, Of
<1>2. ChecksApart'
  BY DEF WorkInv, ChecksApart, LimitSteps, Live, At, Of
<1> QED  BY <1>1, <1>2 DEF WorkInv

LEMMA ReadKeeps ==
  ASSUME WorkInv, NEW w \in Works, UNCHANGED <<kind, doc, store>>,
         ReadBundle(w) \/ ReadDatabase(w) \/ ReadPermission(w) \/ Connect(w)
  PROVE  WorkInv'
<1>1. Live(w) /\ Of(w) \in Documents /\ work[w] \in WorkType /\ work \in [Works -> WorkType]
  BY DEF ReadBundle, ReadDatabase, ReadPermission, Connect, At, Live, WorkInv, WorkOK, WorkType
<1>2. CASE ~doc[Of(w)].exists
  <2>1. End(w)
    BY <1>2 DEF ReadBundle, ReadDatabase, ReadPermission, Connect, IfThere
  <2> QED  BY <2>1, EndKeeps
<1>3. CASE doc[Of(w)].exists
  <2>1. CASE ReadBundle(w)
    <3>1. /\ work[w].at = "bundle"
          /\ work' = [work EXCEPT ![w].at = "database", ![w].capacity = store[Of(w)].capacity]
      BY <1>3, <2>1 DEF ReadBundle, IfThere, At
    <3>2. store[Of(w)].capacity \in Int
      BY <1>1 DEF WorkInv, WorkOK
    <3>3. work' \in [Works -> WorkType]
      BY <1>1, <3>1, <3>2 DEF WorkType, WorkSteps
    <3> QED  BY <1>1, <3>1, <3>3, StepKeeps DEF WorkType, Live, At, Of, LimitSteps
  <2>2. CASE ReadDatabase(w)
    <3>1. /\ work[w].at = "database"
          /\ work' = [work EXCEPT ![w].at = "permission", ![w].total = doc[Of(w)].dataSize]
      BY <1>3, <2>2 DEF ReadDatabase, IfThere, At
    <3>2. doc[Of(w)].dataSize \in Sizes
      BY <1>1 DEF WorkInv, WorkOK
    <3>3. work' \in [Works -> WorkType]
      BY <1>1, <3>1, <3>2 DEF WorkType, WorkSteps
    <3> QED  BY <1>1, <3>1, <3>3, StepKeeps DEF WorkType, Live, At, Of, LimitSteps
  <2>3. CASE ReadPermission(w)
    <3>1. /\ work[w].at = "permission"
          /\ work' = [work EXCEPT ![w].at = "enforce",
                                  ![w].permission = store[Of(w)].permission]
      BY <1>3, <2>3 DEF ReadPermission, IfThere, At
    <3>2. store[Of(w)].permission \in Permissions
      BY <1>1 DEF WorkInv, WorkOK
    <3>3. work' \in [Works -> WorkType]
      BY <1>1, <3>1, <3>2 DEF WorkType, WorkSteps
    <3> QED  BY <1>1, <3>1, <3>3, StepKeeps DEF WorkType, Live, At, Of, LimitSteps
  <2>4. CASE Connect(w)
    <3>1. work[w].at = "connect" /\ work' = [work EXCEPT ![w].at = "stats"]
      BY <1>3, <2>4 DEF Connect, IfThere, At, Goto
    <3>2. work' \in [Works -> WorkType]
      BY <1>1, <3>1 DEF WorkType, WorkSteps
    <3> QED  BY <1>1, <3>1, <3>2, StepKeeps DEF WorkType, Live, At, Of, LimitSteps
  <2> QED  BY <2>1, <2>2, <2>3, <2>4
<1> QED  BY <1>2, <1>3

LEMMA MeasureKeeps ==
  ASSUME WorkInv, NEW w \in Works, UNCHANGED <<kind, doc, store>>,
         Stats(w) \/ ListBuckets(w) \/ MeasureBucket(w) \/ MeasureFails(w)
  PROVE  WorkInv'
<1>1. Live(w) /\ Of(w) \in Documents /\ work[w] \in WorkType /\ work \in [Works -> WorkType]
  BY DEF Stats, ListBuckets, MeasureBucket, MeasureFails, At, Live, WorkInv, WorkOK, WorkType
<1>2. CASE Stats(w)
  <2>1. /\ work[w].at = "stats"
        /\ work' = [work EXCEPT ![w].at = "save", ![w].total = store[Of(w)].total]
    BY <1>2 DEF Stats, At
  <2>2. store[Of(w)].total \in Sizes
    BY <1>1 DEF WorkInv, WorkOK, Sizes
  <2>3. work' \in [Works -> WorkType]
    BY <1>1, <2>1, <2>2 DEF WorkType, WorkSteps
  <2> QED  BY <1>1, <2>1, <2>3, StepKeeps DEF WorkType, Live, At, Of, LimitSteps
<1>3. CASE ListBuckets(w)
  <2>1. /\ work[w].at = "buckets"
        /\ work' = [work EXCEPT ![w].at = "measure", ![w].left = Parts]
    BY <1>3 DEF ListBuckets, At
  <2>2. work' \in [Works -> WorkType]
    BY <1>1, <2>1 DEF WorkType, WorkSteps
  <2> QED  BY <1>1, <2>1, <2>2, StepKeeps DEF WorkType, Live, At, Of, LimitSteps
<1>4. ASSUME MeasureBucket(w) \/ MeasureFails(w) PROVE WorkInv'
  <2>1. PICK p \in Parts, total \in Sizes :
          work' = [work EXCEPT ![w].left = @ \ {p}, ![w].total = total]
    <3>1. NextBucket(w) \in Parts
      BY <1>1, <1>4 DEF MeasureBucket, MeasureFails, NextBucket, WorkType
    <3>2. CASE MeasureBucket(w)
      <4> DEFINE p == NextBucket(w)
                 total == IF work[w].total = NaN THEN NaN
                          ELSE work[w].total + store[Of(w)].part[p]
      <4>1. store[Of(w)].part[p] \in Int /\ work[w].total \in Sizes
        BY <1>1, <3>1 DEF WorkInv, WorkOK, WorkType
      <4>2. total \in Sizes
        BY <4>1 DEF Sizes
      <4>3. work' = [work EXCEPT ![w].left = @ \ {p}, ![w].total = total]
        BY <1>1, <3>2 DEF MeasureBucket, WorkType
      <4> QED  BY <3>1, <4>2, <4>3
    <3>3. CASE MeasureFails(w)
      BY <3>1, <3>3 DEF MeasureFails, Sizes
    <3> QED  BY <1>4, <3>2, <3>3
  <2>2. work[w].at = "measure"
    BY <1>4 DEF MeasureBucket, MeasureFails, At
  <2>3. work' \in [Works -> WorkType]
    BY <1>1, <2>1 DEF WorkType
  <2> QED  BY <1>1, <2>1, <2>2, <2>3, StepKeeps DEF WorkType, Live, At, Of, LimitSteps
<1> QED  BY <1>2, <1>3, <1>4

LEMMA EnforceKeeps == ASSUME WorkInv, NEW w \in Works, Enforce(w) PROVE WorkInv'
<1>1. /\ work[w].at = "enforce" /\ Live(w) /\ kind = "DatabaseLimit" /\ Of(w) \in Documents
      /\ work' = [work EXCEPT ![w] = Idle] /\ UNCHANGED <<kind, doc>>
  BY DEF Enforce, At, Live, End, WorkInv, WorkOK, ChecksApart, LimitSteps
<1>2. work' \in [Works -> WorkType] /\ work'[w] = Idle /\ \A v \in Works \ {w} : work'[v] = work[v]
  BY <1>1, IdleType DEF WorkInv, WorkOK, WorkType
<1>3. /\ store' \in [Documents -> [part : [Parts -> Int], total : Int, capacity : Int,
                                   permission : Permissions]]
      /\ \A d \in Documents \ {Of(w)} : store'[d] = store[d]
  BY <1>1 DEF Enforce, WorkInv, WorkOK, Verdict, Permissions
<1>4. WorkOK'
  BY <1>1, <1>2, <1>3 DEF WorkInv, WorkOK, WorkType, Live, Of, Idle
<1>5. ChecksApart'
  <2>1. ASSUME NEW v \in Works, work'[v].at = "enforce"
        PROVE  work'[v].permission = store'[work'[v].doc].permission
    <3>1. v # w /\ work'[v] = work[v] /\ Live(v) /\ At(v, "enforce")
      BY <1>2, <2>1 DEF Idle, Live, At
    <3>2. Of(v) \in Documents \ {Of(w)}
      BY <1>1, <3>1 DEF WorkInv, WorkOK, ChecksApart
    <3> QED  BY <1>1, <1>3, <3>1, <3>2 DEF WorkInv, ChecksApart, Of
  <2> QED  BY <1>1, <1>2, <2>1 DEF WorkInv, ChecksApart, LimitSteps, Live, At, Of, Idle
<1> QED  BY <1>4, <1>5 DEF WorkInv

\* Sizes are stored and documents deleted, whoever works on them.
LEMMA DocKeeps ==
  ASSUME WorkInv, UNCHANGED <<kind, store, work>>,
         doc' \in [Documents -> [exists : BOOLEAN, stale : BOOLEAN, dataSize : Sizes]],
         \A d \in Documents : doc'[d].stale => doc[d].stale
  PROVE  WorkInv'
<1>1. WorkOK'
  BY DEF WorkInv, WorkOK, Live, Of
<1>2. \A w \in Works : Live(w) => Of(w) \in Documents
  BY DEF WorkInv, WorkOK
<1>3. \A d \in Documents : doc'[d].stale \in BOOLEAN /\ doc[d].stale \in BOOLEAN
  BY DEF WorkInv, WorkOK
<1>4. ChecksApart'
  BY <1>2, <1>3 DEF WorkInv, ChecksApart, Live, At, Of
<1> QED  BY <1>1, <1>4 DEF WorkInv

LEMMA StoreKeeps ==
  ASSUME WorkInv, UNCHANGED <<kind, doc, work>>,
         store' \in [Documents -> [part : [Parts -> Int], total : Int, capacity : Int,
                                   permission : Permissions]],
         \A d \in Documents : store'[d].permission = store[d].permission
  PROVE  WorkInv'
<1>1. WorkOK'
  BY DEF WorkInv, WorkOK, Live, Of
<1>2. \A w \in Works : At(w, "enforce") => Of(w) \in Documents
  BY DEF WorkInv, WorkOK, At, Live
<1>3. ChecksApart'
  BY <1>2 DEF WorkInv, ChecksApart, Live, At, Of
<1> QED  BY <1>1, <1>3 DEF WorkInv

LEMMA SaveKeeps == ASSUME WorkInv, NEW w \in Works, Save(w) PROVE WorkInv'
<1>1. Live(w) /\ Of(w) \in Documents /\ work[w].at \notin LimitSteps /\ work[w].total \in Sizes
  BY DEF Save, At, Live, LimitSteps, WorkInv, WorkOK
<1>2. work' \in [Works -> WorkType] /\ work'[w] = Idle /\ \A v \in Works \ {w} : work'[v] = work[v]
  BY IdleType DEF Save, End, WorkInv, WorkOK, WorkType
<1>3. /\ doc' \in [Documents -> [exists : BOOLEAN, stale : BOOLEAN, dataSize : Sizes]]
      /\ \A d \in Documents : doc'[d].stale = doc[d].stale
      /\ UNCHANGED <<kind, store>>
  BY <1>1 DEF Save, WorkInv, WorkOK
<1>4. WorkOK'
  BY <1>2, <1>3 DEF WorkInv, WorkOK, WorkType, Live, Of, Idle
<1>5. ChecksApart'
  <2>1. \A v \in Works : Live(v)' => Live(v) /\ Of(v)' = Of(v) /\ Of(v) \in Documents /\ work'[v] = work[v]
    BY <1>2 DEF Live, Of, Idle, WorkInv, WorkOK
  <2>2. \A v \in Works : work'[v].at \in LimitSteps \/ At(v, "enforce")' => work'[v] = work[v]
    BY <1>2 DEF LimitSteps, At, Idle
  <2> QED  BY <1>3, <2>1, <2>2 DEF WorkInv, ChecksApart, Live, At, Of
<1> QED  BY <1>4, <1>5 DEF WorkInv

LEMMA ClaimKeeps ==
  ASSUME WorkInv, NEW d \in Documents, ClaimAndStart(d), UNCHANGED <<kind, store>>
  PROVE  WorkInv'
<1>1. PICK w \in Works : /\ ~Live(w)
                         /\ work' = [work EXCEPT ![w] = [Idle EXCEPT !.at = FirstStep, !.doc = d]]
  BY DEF ClaimAndStart
<1> DEFINE claim == [Idle EXCEPT !.at = FirstStep, !.doc = d]
<1>2. /\ claim \in WorkType /\ claim.doc = d
      /\ claim.at \in LimitSteps => kind = "DatabaseLimit"
      /\ claim.at \notin {"idle", "enforce"}
  BY IdleType DEF FirstStep, Idle, WorkType, WorkSteps, LimitSteps
<1> HIDE DEF claim
<1>3. work' \in [Works -> WorkType] /\ work'[w] = claim /\ \A v \in Works \ {w} : work'[v] = work[v]
  BY <1>1, <1>2 DEF WorkInv, WorkOK, WorkType, claim
<1>4. /\ doc' \in [Documents -> [exists : BOOLEAN, stale : BOOLEAN, dataSize : Sizes]]
      /\ ~doc'[d].stale /\ doc[d].stale /\ \A c \in Documents \ {d} : doc'[c] = doc[c]
  BY DEF ClaimAndStart, Stale, WorkInv, WorkOK
<1>5. \A v \in Works : Live(v) => Of(v) \in Documents
  BY DEF WorkInv, WorkOK
<1>6. WorkOK'
  BY <1>2, <1>3, <1>4 DEF WorkInv, WorkOK, WorkType, Live, Of
<1>7. ChecksApart'
  <2>1. \A v \in Works : work'[v].at \in LimitSteps => kind' = "DatabaseLimit"
    BY <1>2, <1>3 DEF WorkInv, ChecksApart
  <2> SUFFICES ASSUME kind = "DatabaseLimit"
      PROVE /\ \A v \in Works : Live(v)' => ~doc'[Of(v)'].stale
            /\ \A u, v \in Works : Live(u)' /\ Live(v)' /\ Of(u)' = Of(v)' => u = v
            /\ \A v \in Works : At(v, "enforce")' => work'[v].permission = store'[Of(v)'].permission
    BY <2>1 DEF ChecksApart
  <2>2. \A v \in Works : Live(v) => ~doc[Of(v)].stale /\ Of(v) # d
    BY <1>4 DEF WorkInv, ChecksApart
  <2>3. Of(w)' = d
    BY <1>2, <1>3 DEF Of
  <2>4. \A v \in Works \ {w} : (Live(v)' <=> Live(v)) /\ Of(v)' = Of(v)
    BY <1>3 DEF Live, Of
  <2>5. ASSUME NEW v \in Works, Live(v)' PROVE ~doc'[Of(v)'].stale
    BY <1>4, <1>5, <2>2, <2>3, <2>4, <2>5
  <2>6. ASSUME NEW u \in Works, NEW v \in Works, Live(u)', Live(v)', Of(u)' = Of(v)' PROVE u = v
    BY <2>2, <2>3, <2>4, <2>6 DEF WorkInv, ChecksApart
  <2>7. ASSUME NEW v \in Works, At(v, "enforce")'
        PROVE  work'[v].permission = store'[Of(v)'].permission
    BY <1>2, <1>3, <2>4, <2>7 DEF WorkInv, ChecksApart, At
  <2> QED  BY <2>5, <2>6, <2>7
<1> QED  BY <1>6, <1>7 DEF WorkInv

LEMMA LockExpiresKeeps == ASSUME WorkInv, NEW d \in Documents, LockExpires(d) PROVE WorkInv'
<1>1. /\ doc' \in [Documents -> [exists : BOOLEAN, stale : BOOLEAN, dataSize : Sizes]]
      /\ \A c \in Documents \ {d} : doc'[c] = doc[c]
      /\ UNCHANGED <<kind, store, work>>
      /\ kind = "DatabaseLimit" => \A w \in Works : Of(w) # d
  BY DEF LockExpires, WorkInv, WorkOK
<1>2. WorkOK'
  BY <1>1 DEF WorkInv, WorkOK, Live, Of
<1>3. \A w \in Works : Live(w) => Of(w) \in Documents
  BY DEF WorkInv, WorkOK
<1>4. ChecksApart'
  BY <1>1, <1>3 DEF WorkInv, ChecksApart, Live, At, Of
<1> QED  BY <1>2, <1>4 DEF WorkInv

LEMMA RestartKeeps ==
  ASSUME WorkInv, Restart
  PROVE  WorkInv'
<1>1. PICK dead \in SUBSET Works : work' = [w \in Works |-> IF w \in dead THEN Idle ELSE work[w]]
  BY DEF Restart
<1>2. UNCHANGED <<kind, doc, store>>
  BY DEF Restart
<1>3. WorkOK'
  BY <1>1, <1>2, IdleType DEF WorkInv, WorkOK, WorkType, Live, Of, Idle
<1>4. ChecksApart'
  BY <1>1, <1>2 DEF WorkInv, ChecksApart, LimitSteps, Live, At, Of, Idle
<1> QED  BY <1>3, <1>4 DEF WorkInv

-----------------------------------------------------------------------------
(* The specification *)

UsageInv ==
    /\ kind \in Kinds
    /\ WorkInv
    /\ LimiterInv
    /\ QueueBounded
    /\ counted \in [Ticks -> (0..Cardinality(Documents)) \cup {Nothing}]
    /\ faults \in 0..MaxFaults

LEMMA StaleCount == Cardinality(Stale) \in 0..Cardinality(Documents)
<1>1. IsFiniteSet(Documents) /\ Stale \in SUBSET Documents
  BY UsageAssumption DEF Stale
<1>2. Cardinality(Stale) <= Cardinality(Documents) /\ IsFiniteSet(Stale)
  BY <1>1, FS_Subset
<1>3. Cardinality(Stale) \in Nat /\ Cardinality(Documents) \in Nat
  BY <1>1, <1>2, FS_CardinalityType
<1> QED  BY <1>2, <1>3

LEMMA InitInv == Init => UsageInv
<1> SUFFICES ASSUME Init PROVE UsageInv
  OBVIOUS
<1>1. WorkInv /\ LimiterInv
  BY WorkInitOK, LimitInitOK DEF Init
<1>2. Cardinality(Documents) \in Nat
  BY UsageAssumption, FS_CardinalityType
<1>3. QueueBounded
  BY <1>2 DEF Init, LimitInit, QueueBounded, Waiting
<1>4. kind \in Kinds /\ counted \in [Ticks -> {Nothing}] /\ faults \in 0..MaxFaults
  BY UsageAssumption DEF Init
<1> QED  BY <1>1, <1>3, <1>4 DEF UsageInv

\* The actions of the tick and of the limiter.
LEMMA TickKeeps ==
  ASSUME UsageInv, Microtask \/ \E i \in Ticks : TickCount(i) \/ TickEnqueue(i)
  PROVE  UsageInv'
<1> USE DEF UsageInv
<1>1. ASSUME NEW i \in Ticks, TickCount(i) PROVE UsageInv'
  <2>1. counted' \in [Ticks -> (0..Cardinality(Documents)) \cup {Nothing}]
    BY <1>1, StaleCount DEF TickCount
  <2>2. UNCHANGED <<kind, doc, store, work, faults, queue, activeCount, checks, task>>
    BY <1>1 DEF TickCount, limiter
  <2>3. WorkInv' /\ LimiterInv' /\ QueueBounded'
    BY <2>2 DEF WorkInv, WorkOK, ChecksApart, Live, At, Of, LimiterInv, QueueOK, In, ActiveBound,
                Running, NoneForgotten, QueueBounded, Waiting
  <2> QED  BY <2>1, <2>2, <2>3
<1>2. ASSUME NEW i \in Ticks, TickEnqueue(i) PROVE UsageInv'
  <2>1. /\ counted[i] \in 0..Cardinality(Documents)
        /\ counted' \in [Ticks -> (0..Cardinality(Documents)) \cup {Nothing}]
        /\ UNCHANGED <<kind, doc, store, work, faults>>
    BY <1>2 DEF TickEnqueue
  <2>2. LimiterInv' /\ QueueBounded'
    BY <1>2, <2>1, TickEnqueueKeeps
  <2>3. WorkInv'
    BY <2>1 DEF WorkInv, WorkOK, ChecksApart, Live, At, Of
  <2> QED  BY <2>1, <2>2, <2>3
<1>3. CASE Microtask
  <2>1. LimiterInv' /\ Waiting' <= Waiting /\ Waiting \in Nat /\ Waiting' \in Nat
    <3>1. LimiterInv'
      BY <1>3, CheckKeeps, NextRunsKeeps DEF Microtask, LimiterStep
    <3>2. queue' = queue \/ (queue # <<>> /\ queue' = Tail(queue))
      BY <1>3 DEF Microtask, LimiterStep, Check, NextRuns
    <3> QED  BY <3>1, <3>2, HeadFacts DEF LimiterInv, QueueOK, Waiting
  <2>2. QueueBounded'
    BY <2>1, UsageAssumption, FS_CardinalityType DEF QueueBounded
  <2>3. UNCHANGED <<kind, doc, store, work, counted, faults>>
    BY <1>3 DEF Microtask
  <2>4. WorkInv'
    BY <2>3 DEF WorkInv, WorkOK, ChecksApart, Live, At, Of
  <2> QED  BY <2>1, <2>2, <2>3, <2>4
<1> QED  BY <1>1, <1>2, <1>3

\* The actions that leave the limiter alone.
LEMMA LimiterUnchanged ==
  ASSUME UsageInv, UNCHANGED <<kind, counted, limiter>>, faults' \in 0..MaxFaults, WorkInv'
  PROVE  UsageInv'
<1>1. LimiterInv' /\ QueueBounded'
  BY DEF UsageInv, limiter, LimiterInv, QueueOK, In, ActiveBound, Running, NoneForgotten,
         QueueBounded, Waiting
<1> QED  BY <1>1 DEF UsageInv

LEMMA HandlerKeeps ==
  ASSUME UsageInv, NEW t \in Tasks, Handler(t) \/ HandlerFails(t)
  PROVE  UsageInv'
<1>1. Settle(t) /\ UNCHANGED <<kind, store, counted>> /\ faults' \in 0..MaxFaults
  BY UsageAssumption DEF UsageInv, Handler, HandleNothing, HandleClaim, HandlerFails
<1>2. LimiterInv' /\ QueueBounded'
  BY <1>1, SettleKeeps DEF UsageInv, Settle, QueueBounded, Waiting
<1>3. WorkInv'
  <2>1. CASE UNCHANGED <<doc, work>>
    BY <1>1, <2>1 DEF UsageInv, WorkInv, WorkOK, ChecksApart, Live, At, Of
  <2>2. CASE \E d \in Documents : HandleClaim(t, d)
    BY <1>1, <2>2, ClaimKeeps DEF UsageInv, HandleClaim
  <2> QED  BY <2>1, <2>2 DEF Handler, HandleNothing, HandlerFails
<1> QED  BY <1>1, <1>2, <1>3 DEF UsageInv

LEMMA WorkKeeps ==
  ASSUME UsageInv, NEW w \in Works, WorkStep(w) \/ MeasureFails(w) \/ WorkFails(w)
  PROVE  UsageInv'
<1>1. UNCHANGED <<kind, counted, limiter>> /\ faults' \in 0..MaxFaults
  BY UsageAssumption
     DEF UsageInv, WorkStep, ReadBundle, ReadDatabase, ReadPermission, Enforce, Connect, Stats,
         ListBuckets, MeasureBucket, Save, MeasureFails, WorkFails
<1>2. WorkInv'
  <2>1. WorkInv
    BY DEF UsageInv
  <2>2. CASE ReadBundle(w) \/ ReadDatabase(w) \/ ReadPermission(w) \/ Connect(w)
    BY <1>1, <2>1, <2>2, ReadKeeps DEF ReadBundle, ReadDatabase, ReadPermission, Connect
  <2>3. CASE Stats(w) \/ ListBuckets(w) \/ MeasureBucket(w) \/ MeasureFails(w)
    BY <1>1, <2>1, <2>3, MeasureKeeps DEF Stats, ListBuckets, MeasureBucket, MeasureFails
  <2>4. CASE Enforce(w)
    BY <2>1, <2>4, EnforceKeeps
  <2>5. CASE Save(w)
    BY <2>1, <2>5, SaveKeeps
  <2>6. CASE WorkFails(w)
    BY <2>1, <2>6, EndKeeps DEF WorkFails
  <2> QED  BY <2>2, <2>3, <2>4, <2>5, <2>6 DEF WorkStep
<1> QED  BY <1>1, <1>2, LimiterUnchanged

LEMMA EnvironmentKeeps == ASSUME UsageInv, Environment PROVE UsageInv'
<1>1. WorkInv /\ Watched \subseteq Documents /\ Growing \subseteq Parts /\ MaxSize \in Nat
  BY UsageAssumption DEF UsageInv
<1>2. ASSUME NEW d \in Documents, Deleted(d) PROVE UsageInv'
  <2>1. /\ doc' \in [Documents -> [exists : BOOLEAN, stale : BOOLEAN, dataSize : Sizes]]
        /\ \A c \in Documents : doc'[c].stale => doc[c].stale
    BY <1>1, <1>2 DEF Deleted, WorkInv, WorkOK
  <2> QED  BY <1>1, <1>2, <2>1, DocKeeps, LimiterUnchanged DEF Deleted, UsageInv
<1>3. ASSUME NEW d \in Documents, NEW size \in 0..MaxSize, Captured(d, size) PROVE UsageInv'
  <2>1. /\ doc' \in [Documents -> [exists : BOOLEAN, stale : BOOLEAN, dataSize : Sizes]]
        /\ \A c \in Documents : doc'[c].stale => doc[c].stale
    BY <1>1, <1>3 DEF Captured, WorkInv, WorkOK, Sizes
  <2> QED  BY <1>1, <1>3, <2>1, DocKeeps, LimiterUnchanged DEF Captured, UsageInv
<1>4. ASSUME NEW d \in Documents, NEW size \in 0..MaxSize, ChangeBundle(d, size) PROVE UsageInv'
  <2>1. /\ store' \in [Documents -> [part : [Parts -> Int], total : Int, capacity : Int,
                                     permission : Permissions]]
        /\ \A c \in Documents : store'[c].permission = store[c].permission
    BY <1>1, <1>4 DEF ChangeBundle, WorkInv, WorkOK
  <2> QED  BY <1>1, <1>4, <2>1, StoreKeeps, LimiterUnchanged DEF ChangeBundle, UsageInv
<1>5. ASSUME NEW d \in Documents, NEW p \in Parts, NEW size \in 0..MaxSize, Write(d, p, size)
      PROVE  UsageInv'
  <2>1. /\ store' \in [Documents -> [part : [Parts -> Int], total : Int, capacity : Int,
                                     permission : Permissions]]
        /\ \A c \in Documents : store'[c].permission = store[c].permission
    <3> DEFINE part == [store[d].part EXCEPT ![p] = size]
               total == store[d].total + size - store[d].part[p]
    <3>1. part \in [Parts -> Int] /\ total \in Int
      BY <1>1 DEF WorkInv, WorkOK
    <3>2. store' = [store EXCEPT ![d].part = part, ![d].total = total]
      BY <1>1, <1>5 DEF Write, WorkInv, WorkOK
    <3> HIDE DEF part, total
    <3> QED  BY <1>1, <3>1, <3>2 DEF WorkInv, WorkOK
  <2> QED  BY <1>1, <1>5, <2>1, StoreKeeps, LimiterUnchanged DEF Write, UsageInv
<1>6. ASSUME NEW d \in Documents, LockExpires(d) PROVE UsageInv'
  BY <1>1, <1>6, LockExpiresKeeps, LimiterUnchanged DEF LockExpires, UsageInv
<1>7. ASSUME NEW d \in Documents, ClaimElsewhere(d) PROVE UsageInv'
  BY <1>1, <1>7, ClaimKeeps, LimiterUnchanged DEF ClaimElsewhere, UsageInv
<1> QED  BY <1>1, <1>2, <1>3, <1>4, <1>5, <1>6, <1>7 DEF Environment

LEMMA RestartInv == ASSUME UsageInv, Restart PROVE UsageInv'
<1>1. WorkInv'
  BY RestartKeeps DEF UsageInv
<1>2. LimitInit' /\ counted' \in [Ticks -> {Nothing}] /\ kind' = kind /\ faults' \in 0..MaxFaults
  BY UsageAssumption DEF Restart, LimitInit, UsageInv
<1>3. LimiterInv'
  <2>1. Running' = {}
    BY <1>2 DEF LimitInit, Running
  <2>2. queue' = <<>> /\ activeCount' = 0 /\ checks' = 0 /\ task' \in [Tasks -> TaskStates]
    BY <1>2 DEF LimitInit, TaskStates
  <2>3. QueueOK'
    BY <1>2 DEF LimitInit, QueueOK, In
  <2>4. ActiveBound'
    BY <2>1, <2>2, FS_EmptySet, ConcurrencyAssumption DEF ActiveBound
  <2> QED  BY <2>2, <2>3, <2>4 DEF LimiterInv, NoneForgotten
<1>4. QueueBounded'
  <2>1. Cardinality(Documents) \in Nat
    BY UsageAssumption, FS_CardinalityType
  <2> QED  BY <1>2, <2>1 DEF LimitInit, QueueBounded, Waiting
<1> QED  BY <1>1, <1>2, <1>3, <1>4 DEF UsageInv

LEMMA NextInv == UsageInv /\ [Next]_vars => UsageInv'
<1> SUFFICES ASSUME UsageInv, [Next]_vars PROVE UsageInv'
  OBVIOUS
<1>1. CASE UNCHANGED vars
  <2>1. WorkInv'
    BY <1>1 DEF vars, UsageInv, WorkInv, WorkOK, ChecksApart, Live, At, Of
  <2> QED  BY <1>1, <2>1, LimiterUnchanged DEF vars, UsageInv
<1>2. CASE Next
  BY <1>2, TickKeeps, HandlerKeeps, WorkKeeps, EnvironmentKeeps, RestartInv DEF Next
<1> QED  BY <1>1, <1>2

LEMMA Invariant == Spec => []UsageInv
  BY InitInv, NextInv, PTL DEF Spec

\* Every variable keeps its type.
THEOREM TypeCorrect == Spec => []TypeOK
<1>1. UsageInv => TypeOK
  BY DEF UsageInv, WorkInv, WorkOK, LimiterInv, QueueOK, TaskStates, TypeOK
<1> QED  BY <1>1, Invariant, PTL

\* At most Concurrency functions run, and activeCount counts them (p-limit run and next).
THEOREM ActiveBounded == Spec => []ActiveBound
<1>1. UsageInv => ActiveBound
  BY DEF UsageInv, LimiterInv
<1> QED  BY <1>1, Invariant, PTL

\* No function waits while there is room, once the checks of all calls are made.
THEOREM NoSlotEmpty == Spec => []SlotsAreUsed
<1>1. UsageInv => SlotsAreUsed
  <2> SUFFICES ASSUME UsageInv, checks = 0, queue # <<>> PROVE activeCount = Concurrency
    BY DEF SlotsAreUsed
  <2>1. Len(queue) \in Nat \ {0}
    BY HeadFacts DEF UsageInv
  <2> QED  BY <2>1, ConcurrencyAssumption DEF UsageInv, LimiterInv, NoneForgotten, ActiveBound
<1> QED  BY <1>1, Invariant, PTL

\* No more handlers wait than there are documents, however slow they are and however old
\* the count of a tick is.
THEOREM QueueStaysBounded == Spec => []QueueBounded
<1>1. UsageInv => QueueBounded
  BY DEF UsageInv
<1> QED  BY <1>1, Invariant, PTL

-----------------------------------------------------------------------------
(* The verdict *)

\* A work that stands at "enforce" stays there, unless it ends or something fails.
LEMMA OthersLeaveEnforce ==
  ASSUME UsageInv, NEW w \in Works, At(w, "enforce"), Next, faults' = faults, ~Enforce(w)
  PROVE  work'[w] = work[w]
<1>1. work \in [Works -> WorkType] /\ Live(w)
  BY DEF UsageInv, WorkInv, WorkOK, WorkType, At, Live
<1>2. faults \in Nat
  BY UsageAssumption DEF UsageInv
<1>3. CASE UNCHANGED work
  BY <1>3
<1>4. ASSUME NEW v \in Works, WorkStep(v) PROVE work'[w] = work[w]
  <2>1. v # w
    BY <1>4 DEF WorkStep, ReadBundle, ReadDatabase, ReadPermission, Connect, Stats, ListBuckets,
                MeasureBucket, Save, At
  <2> QED  BY <1>1, <1>4, <2>1
           DEF WorkStep, ReadBundle, ReadDatabase, ReadPermission, Enforce, Connect, Stats,
               ListBuckets, MeasureBucket, Save, IfThere, End, Goto
<1>5. ASSUME NEW d \in Documents, ClaimAndStart(d) PROVE work'[w] = work[w]
  BY <1>1, <1>5 DEF ClaimAndStart
<1>6. CASE \E t \in Tasks : Handler(t) \/ HandlerFails(t)
  BY <1>3, <1>5, <1>6 DEF Handler, HandleNothing, HandleClaim, HandlerFails
<1>7. CASE Microtask \/ \E i \in Ticks : TickCount(i) \/ TickEnqueue(i)
  BY <1>7 DEF TickCount, TickEnqueue, Microtask
<1>8. CASE Environment
  BY <1>3, <1>5, <1>8, UsageAssumption
     DEF Environment, Deleted, Captured, ChangeBundle, Write, LockExpires, ClaimElsewhere
<1>9. CASE Restart \/ \E v \in Works : MeasureFails(v) \/ WorkFails(v)
  <2>1. faults' = faults + 1
    BY <1>9 DEF Restart, MeasureFails, WorkFails
  <2>2. FALSE
    BY <1>2, <2>1
  <2> QED  BY <2>2
<1> QED  BY <1>4, <1>6, <1>7, <1>8, <1>9 DEF Next

LEMMA EnforceApplies ==
  ASSUME UsageInv, NEW w \in Works, Enforce(w), doc[Of(w)].exists
  PROVE  store'[Of(w)].permission = Verdict(w)
<1>1. work[w].permission = store[Of(w)].permission /\ Of(w) \in Documents
  BY DEF Enforce, UsageInv, WorkInv, WorkOK, ChecksApart, LimitSteps, At, Live
<1> QED  BY <1>1 DEF Enforce, UsageInv, WorkInv, WorkOK

\* limitDatabaseUsage leaves the permission that follows from the sizes it read: its lock
\* keeps other checks of the database away while it compares with a permission read before.
THEOREM VerdictApplied == Spec => VerdictIsApplied
<1>1. ASSUME UsageInv, [Next]_vars, NEW w \in Works,
             At(w, "enforce"), work'[w] = Idle, faults' = faults, doc[Of(w)].exists
      PROVE  store'[Of(w)].permission = Verdict(w)
  <2>1. work'[w] # work[w]
    BY <1>1 DEF At, Idle
  <2>2. Next
    BY <1>1, <2>1 DEF vars
  <2>3. Enforce(w)
    BY <1>1, <2>1, <2>2, OthersLeaveEnforce
  <2> QED  BY <1>1, <2>3, EnforceApplies
<1> DEFINE Applied == \A w \in Works :
             At(w, "enforce") /\ work'[w] = Idle /\ faults' = faults /\ doc[Of(w)].exists =>
               store'[Of(w)].permission = Verdict(w)
<1>2. UsageInv /\ [Next]_vars => Applied
  BY <1>1
<1>3. UsageInv /\ [Next]_vars => [Applied]_vars
  BY <1>2
<1> QED  BY <1>3, Invariant, PTL DEF Spec, VerdictIsApplied
=============================================================================
