------------------------ MODULE TaskOrchestratorProofs ------------------------
(***************************************************************************)
(* Theorems about TaskOrchestrator, for any sets of tasks and workers and  *)
(* any bounds: first who runs and where, then what becomes of the results. *)
(***************************************************************************)
EXTENDS TaskOrchestrator, FiniteSetTheorems, SequenceTheorems, TLAPS

States == TaskState \cup {"ABSENT"}

-------------------------------------------------------------------------------
(* The pending queue.                                                      *)

\* enqueueTask adds the task and nothing else, and never a second time.
LEMMA EnqueueFacts ==
  ASSUME NEW queue \in Seq(Tasks), NEW t \in Tasks
  PROVE  /\ Enqueue(queue, t) \in Seq(Tasks)
         /\ ToSet(Enqueue(queue, t)) = ToSet(queue) \cup {t}
         /\ IsInjective(queue) => IsInjective(Enqueue(queue, t))
<1>1. CASE t \in ToSet(queue)
  BY <1>1 DEF Enqueue
<1>2. CASE t \notin ToSet(queue)
  <2>1. Enqueue(queue, t) = Append(queue, t)
    BY <1>2 DEF Enqueue
  <2>2. \A i \in DOMAIN queue : queue[i] # t
    BY <1>2 DEF ToSet
  <2>3. ToSet(Append(queue, t)) = ToSet(queue) \cup {t}
    <3> DEFINE longer == Append(queue, t)
    <3>1. /\ DOMAIN longer = 1 .. Len(queue) + 1
          /\ longer[Len(queue) + 1] = t
          /\ \A i \in 1 .. Len(queue) : longer[i] = queue[i]
      OBVIOUS
    <3>2. DOMAIN queue = 1 .. Len(queue) /\ Len(queue) \in Nat
      OBVIOUS
    <3> HIDE DEF longer
    <3>3. ToSet(longer) = ToSet(queue) \cup {t}
      BY <3>1, <3>2 DEF ToSet
    <3> QED BY <3>3 DEF longer
  <2>4. IsInjective(queue) => IsInjective(Append(queue, t))
    BY <2>2 DEF IsInjective
  <2> QED BY <2>1, <2>3, <2>4
<1> QED BY <1>1, <1>2

\* removePendingTask takes out an occurrence of the task, which is the only one when
\* the queue has no duplicates.
LEMMA WithoutFacts ==
  ASSUME NEW queue \in Seq(Tasks), NEW t \in Tasks
  PROVE  /\ Without(queue, t) \in Seq(Tasks)
         /\ ToSet(Without(queue, t)) \subseteq ToSet(queue)
         /\ IsInjective(queue) => IsInjective(Without(queue, t))
         /\ IsInjective(queue) => ToSet(Without(queue, t)) = ToSet(queue) \ {t}
<1>1. CASE t \notin ToSet(queue)
  BY <1>1 DEF Without
<1>2. CASE t \in ToSet(queue)
  <2> DEFINE p == CHOOSE i \in DOMAIN queue : queue[i] = t
             rest == Without(queue, t)
  <2>1. p \in 1 .. Len(queue) /\ queue[p] = t
    BY <1>2 DEF ToSet
  <2>2. rest = SubSeq(queue, 1, p - 1) \o SubSeq(queue, p + 1, Len(queue))
    BY <1>2 DEF Without, RemoveAt
  <2> HIDE DEF p
  <2>3. /\ rest \in Seq(Tasks)
        /\ Len(rest) = Len(queue) - 1
        /\ \A i \in 1 .. Len(rest) : rest[i] = IF i < p THEN queue[i] ELSE queue[i + 1]
    <3> DEFINE front == SubSeq(queue, 1, p - 1)
               back == SubSeq(queue, p + 1, Len(queue))
    <3>1. /\ front \in Seq(Tasks) /\ Len(front) = p - 1
          /\ \A i \in 1 .. p - 1 : front[i] = queue[i]
      BY <2>1
    <3>2. /\ back \in Seq(Tasks) /\ Len(back) = Len(queue) - p
          /\ \A i \in 1 .. Len(queue) - p : back[i] = queue[p + i]
      BY <2>1
    <3> HIDE DEF front, back
    <3>3. rest = front \o back
      BY <2>2 DEF front, back
    <3>4. /\ rest \in Seq(Tasks) /\ Len(rest) = Len(front) + Len(back)
          /\ \A i \in 1 .. Len(rest) :
               rest[i] = IF i <= Len(front) THEN front[i] ELSE back[i - Len(front)]
      <4>1. /\ front \o back \in Seq(Tasks) /\ Len(front \o back) = Len(front) + Len(back)
            /\ \A i \in 1 .. Len(front) + Len(back) :
                 (front \o back)[i] = IF i <= Len(front) THEN front[i] ELSE back[i - Len(front)]
        BY <3>1, <3>2, ConcatProperties, Zenon
      <4> HIDE DEF rest
      <4> QED BY <3>3, <4>1, Zenon
    <3> HIDE DEF rest
    <3>5. Len(rest) = Len(queue) - 1
      BY <2>1, <3>1, <3>2, <3>4
    <3>6. ASSUME NEW i \in 1 .. Len(rest)
          PROVE  rest[i] = IF i < p THEN queue[i] ELSE queue[i + 1]
      <4>1. CASE i < p
        BY <4>1, <2>1, <3>1, <3>4
      <4>2. CASE i >= p
        BY <4>2, <2>1, <3>1, <3>2, <3>4, <3>5
      <4> QED BY <4>1, <4>2, <2>1
    <3> QED BY <3>4, <3>5, <3>6
  <2> HIDE DEF rest
  <2>a. ASSUME NEW i \in 1 .. Len(rest)
        PROVE  \E j \in 1 .. Len(queue) : /\ rest[i] = queue[j]
                                         /\ j = IF i < p THEN i ELSE i + 1
    BY <2>1, <2>3
  <2>b. DOMAIN rest = 1 .. Len(rest) /\ DOMAIN queue = 1 .. Len(queue)
    BY <2>3
  <2>4. ToSet(rest) \subseteq ToSet(queue)
    <3>1. ASSUME NEW i \in 1 .. Len(rest)
          PROVE  rest[i] \in ToSet(queue)
      BY <2>a, <2>b, Zenon DEF ToSet
    <3> QED BY <2>b, <3>1, Zenon DEF ToSet
  <2>5. IsInjective(queue) => IsInjective(rest)
    <3>1. ASSUME IsInjective(queue),
                 NEW i \in 1 .. Len(rest), NEW k \in 1 .. Len(rest), rest[i] = rest[k]
          PROVE  i = k
      <4>1. PICK a \in 1 .. Len(queue) : rest[i] = queue[a] /\ a = IF i < p THEN i ELSE i + 1
        BY <2>a, Zenon
      <4>2. PICK b \in 1 .. Len(queue) : rest[k] = queue[b] /\ b = IF k < p THEN k ELSE k + 1
        BY <2>a, Zenon
      <4>3. a = b
        BY <3>1, <4>1, <4>2, <2>b, Zenon DEF IsInjective
      <4> QED BY <4>1, <4>2, <4>3, <2>1, <2>3
    <3> QED BY <2>b, <3>1, Zenon DEF IsInjective
  <2>6. ASSUME IsInjective(queue)
        PROVE  ToSet(rest) = ToSet(queue) \ {t}
    <3>1. \A i \in 1 .. Len(queue) : queue[i] = t => i = p
      BY <2>1, <2>6 DEF IsInjective
    <3>2. t \notin ToSet(rest)
      BY <2>1, <2>3, <3>1 DEF ToSet
    <3>3. ASSUME NEW i \in 1 .. Len(queue), i # p
          PROVE  queue[i] \in ToSet(rest)
      <4>1. CASE i < p
        <5>1. i \in 1 .. Len(rest) /\ rest[i] = queue[i]
          BY <4>1, <2>1, <2>3
        <5> QED BY <5>1, <2>3 DEF ToSet
      <4>2. CASE i > p
        <5>1. i - 1 \in 1 .. Len(rest) /\ rest[i - 1] = queue[i]
          BY <4>2, <2>1, <2>3
        <5> QED BY <5>1, <2>3 DEF ToSet
      <4> QED BY <3>3, <4>1, <4>2, <2>1
    <3>4. ToSet(queue) \ {t} \subseteq ToSet(rest)
      BY <2>1, <3>3 DEF ToSet
    <3> QED BY <2>4, <3>2, <3>4
  <2> QED BY <2>3, <2>4, <2>5, <2>6 DEF rest
<1> QED BY <1>1, <1>2

\* Distinct idle workers, `taken`, go to the tasks `started`, which are QUEUED and own
\* none; those run.
HandoutTo(started, taken, st, idle, owner, calls) ==
  /\ \A t \in started : st[t] = "QUEUED" /\ ~OwnsWorker(owner, t)
  /\ \A t, u \in started : t # u => taken[t] # taken[u]
  /\ available' = idle \ {taken[t] : t \in started}
  /\ state' = [t \in Tasks |-> IF t \in started THEN "RUNNING" ELSE st[t]]
  /\ assignment' = [t \in Tasks |-> IF t \in started THEN taken[t] ELSE owner[t]]
  /\ runs' = calls \cup {NewRun(t, taken[t]) : t \in started}

Handout(st, idle, owner, calls) ==
  \E started \in SUBSET Tasks : \E taken \in [started -> idle] :
    HandoutTo(started, taken, st, idle, owner, calls)

\* drainQueue hands out workers.  What it leaves in the queue: a selection of what was in it, without
\* duplicates if there were none, and next to an idle worker only entries whose task
\* still owns a worker.
LEMMA DrainFacts ==
  ASSUME NEW st \in [Tasks -> States], NEW queue \in Seq(Tasks),
         NEW idle \in SUBSET Workers, NEW owner, NEW calls,
         DrainQueue(st, queue, idle, owner, calls)
  PROVE  /\ pending' \in Seq(Tasks)
         /\ ToSet(pending') \subseteq ToSet(queue)
         /\ IsInjective(queue) => IsInjective(pending')
         /\ available' # {} =>
              \A t \in ToSet(pending') : st[t] = "QUEUED" /\ OwnsWorker(owner, t)
         /\ Handout(st, idle, owner, calls)
<1> DEFINE inspected(n) == {i \in 1 .. n : st[queue[i]] = "QUEUED"}
           blocked(n)   == {i \in inspected(n) : OwnsWorker(owner, queue[i])}
           started(n)   == {queue[i] : i \in inspected(n) \ blocked(n)}
<1>1. PICK n \in 0 .. Len(queue) :
        \E taken \in [started(n) -> idle],
           order \in [1 .. Cardinality(blocked(n)) -> blocked(n)] :
          LET rest == idle \ {taken[t] : t \in started(n)}
          IN /\ \A t, u \in started(n) : t # u => taken[t] # taken[u]
             /\ Ascending(order)
             /\ IF rest = {} THEN n > 0 => n \in inspected(n) \ blocked(n)
                             ELSE n = Len(queue)
             /\ pending' = SubSeq(queue, n + 1, Len(queue))
                             \o [i \in DOMAIN order |-> queue[order[i]]]
             /\ available' = rest
             /\ state' = [t \in Tasks |-> IF t \in started(n) THEN "RUNNING" ELSE st[t]]
             /\ assignment' =
                  [t \in Tasks |-> IF t \in started(n) THEN taken[t] ELSE owner[t]]
             /\ runs' = calls \cup {NewRun(t, taken[t]) : t \in started(n)}
  BY Zenon DEF DrainQueue
<1> DEFINE B == blocked(n)
           S == started(n)
           k == Cardinality(B)
<1>2. PICK taken \in [S -> idle], order \in [1 .. k -> B] :
        /\ \A t, u \in S : t # u => taken[t] # taken[u]
        /\ Ascending(order)
        /\ idle \ {taken[t] : t \in S} # {} => n = Len(queue)
        /\ pending' = SubSeq(queue, n + 1, Len(queue))
                        \o [i \in DOMAIN order |-> queue[order[i]]]
        /\ available' = idle \ {taken[t] : t \in S}
        /\ state' = [t \in Tasks |-> IF t \in S THEN "RUNNING" ELSE st[t]]
        /\ assignment' = [t \in Tasks |-> IF t \in S THEN taken[t] ELSE owner[t]]
        /\ runs' = calls \cup {NewRun(t, taken[t]) : t \in S}
  BY <1>1, Zenon
<1>3. /\ n \in Nat /\ Len(queue) \in Nat /\ n <= Len(queue)
      /\ \A i \in 1 .. Len(queue) : queue[i] \in Tasks
  OBVIOUS
<1>4. /\ B \subseteq 1 .. n
      /\ \A i \in B : st[queue[i]] = "QUEUED" /\ OwnsWorker(owner, queue[i])
  OBVIOUS
<1>5. /\ S \in SUBSET Tasks
      /\ \A t \in S : st[t] = "QUEUED" /\ ~OwnsWorker(owner, t)
  BY <1>3
<1>6. k \in Nat
  <2> HIDE DEF B
  <2>1. IsFiniteSet(1 .. n)
    BY <1>3, FS_Interval
  <2>2. IsFiniteSet(B)
    BY <2>1, <1>4, FS_Subset
  <2> QED BY <2>2, FS_CardinalityType
<1> HIDE DEF B, S, k
<1> DEFINE tail == SubSeq(queue, n + 1, Len(queue))
           turned == [i \in 1 .. k |-> queue[order[i]]]
<1>7. /\ tail \in Seq(Tasks) /\ Len(tail) = Len(queue) - n
      /\ \A i \in 1 .. Len(tail) : tail[i] = queue[n + i]
  BY <1>3
<1>8. /\ turned \in Seq(Tasks) /\ Len(turned) = k
      /\ \A i \in 1 .. k : turned[i] = queue[order[i]] /\ order[i] \in B
  <2>1. turned \in [1 .. k -> Tasks]
    BY <1>2, <1>3, <1>4
  <2>2. turned \in Seq(Tasks)
    BY <2>1, <1>6, SeqDef
  <2> QED BY <2>1, <2>2, <1>2, <1>6
<1> HIDE DEF tail, turned
<1>9. pending' = tail \o turned
  BY <1>2 DEF tail, turned
<1>10. /\ pending' \in Seq(Tasks) /\ Len(pending') = Len(tail) + k
       /\ \A i \in 1 .. Len(pending') :
            pending'[i] = IF i <= Len(tail) THEN tail[i] ELSE turned[i - Len(tail)]
  <2>1. /\ tail \o turned \in Seq(Tasks) /\ Len(tail \o turned) = Len(tail) + Len(turned)
        /\ \A i \in 1 .. Len(tail) + Len(turned) :
             (tail \o turned)[i] = IF i <= Len(tail) THEN tail[i] ELSE turned[i - Len(tail)]
    BY <1>7, <1>8, ConcatProperties, Zenon
  <2> QED BY <2>1, <1>8, <1>9, Zenon
\* Every entry of the new queue stood at a position of the old one: `from` names it.
<1> DEFINE from == [i \in 1 .. Len(pending') |->
                     IF i <= Len(tail) THEN n + i ELSE order[i - Len(tail)]]
<1>11. ASSUME NEW i \in 1 .. Len(pending')
       PROVE  /\ from[i] \in 1 .. Len(queue) /\ pending'[i] = queue[from[i]]
              /\ i > Len(tail) => from[i] \in B
              /\ i <= Len(tail) => from[i] > n
  <2>1. CASE i <= Len(tail)
    BY <2>1, <1>3, <1>7, <1>10
  <2>2. CASE i > Len(tail)
    <3>1. i - Len(tail) \in 1 .. k
      BY <2>2, <1>6, <1>7, <1>10
    <3>2. order[i - Len(tail)] \in B /\ turned[i - Len(tail)] = queue[order[i - Len(tail)]]
      BY <3>1, <1>8
    <3>3. from[i] = order[i - Len(tail)]
      BY <2>2, <1>7
    <3>4. pending'[i] = turned[i - Len(tail)]
      BY <2>2, <1>7, <1>10
    <3>5. B \subseteq 1 .. Len(queue)
      BY <1>3, <1>4
    <3> HIDE DEF from
    <3>6. from[i] \in 1 .. Len(queue) /\ pending'[i] = queue[from[i]] /\ from[i] \in B
      BY <3>2, <3>3, <3>4, <3>5, Zenon
    <3>7. ~(i <= Len(tail))
      BY <2>2, <1>7, <1>10
    <3> QED BY <3>6, <3>7, Zenon
  <2> QED BY <2>1, <2>2, <1>3, <1>7
<1>12. ASSUME NEW i \in 1 .. Len(pending'), NEW j \in 1 .. Len(pending'), from[i] = from[j]
       PROVE  i = j
  <2>1. i > Len(tail) <=> j > Len(tail)
    BY <1>12, <1>11, <1>3, <1>4, <1>7
  <2>2. CASE i <= Len(tail)
    BY <2>1, <2>2, <1>12, <1>3, <1>7
  <2>3. CASE i > Len(tail)
    <3>1. i - Len(tail) \in 1 .. k /\ j - Len(tail) \in 1 .. k
      BY <2>1, <2>3, <1>6, <1>7, <1>10
    <3>2. order[i - Len(tail)] = order[j - Len(tail)]
      BY <2>1, <2>3, <1>12, <1>7
    <3>3. \A a, b \in 1 .. k : a < b => order[a] < order[b]
      BY <1>2 DEF Ascending
    <3>4. \A a \in 1 .. k : order[a] \in Nat
      BY <1>2, <1>3, <1>4
    <3>5. i - Len(tail) = j - Len(tail)
      <4> DEFINE a == i - Len(tail)
                 b == j - Len(tail)
      <4>1. a \in 1 .. k /\ b \in 1 .. k /\ order[a] = order[b]
        BY <3>1, <3>2
      <4> HIDE DEF a, b
      <4>2. ~(a < b) /\ ~(b < a)
        BY <4>1, <3>3, <3>4
      <4>3. a = b
        BY <4>1, <4>2, <1>6
      <4> QED BY <4>3 DEF a, b
    <3> QED BY <3>5, <1>7
  <2> QED BY <2>2, <2>3, <1>7
<1> HIDE DEF from
<1>13. DOMAIN pending' = 1 .. Len(pending') /\ DOMAIN queue = 1 .. Len(queue)
  BY <1>10
<1>14. ToSet(pending') \subseteq ToSet(queue)
  BY <1>11, <1>13 DEF ToSet
<1>15. IsInjective(queue) => IsInjective(pending')
  BY <1>11, <1>12, <1>13 DEF IsInjective
<1>16. ASSUME available' # {}, NEW t \in ToSet(pending')
       PROVE  st[t] = "QUEUED" /\ OwnsWorker(owner, t)
  <2>1. Len(tail) = 0
    BY <1>16, <1>2, <1>3, <1>7
  <2>2. PICK i \in 1 .. Len(pending') : t = pending'[i]
    BY <1>13 DEF ToSet
  <2> QED BY <2>1, <2>2, <1>4, <1>11
<1>17. Handout(st, idle, owner, calls)
  BY <1>2, <1>5, Zenon DEF Handout, HandoutTo
<1> QED BY <1>10, <1>14, <1>15, <1>16, <1>17, Zenon

-------------------------------------------------------------------------------
(* The worker pool.                                                        *)

\* TypeOK's part, OneRunPerTask and PoolConsistent of a pool with the workers `ws`, the
\* idle workers `idle`, the assignments `owner` and the suspended calls `calls`.
Consistent(ws, idle, owner, calls) ==
  /\ ws \subseteq Workers
  /\ owner \in [Tasks -> Workers \cup {NoWorker}]
  /\ calls \subseteq Run
  /\ \A r, s \in calls : r.task = s.task \/ r.worker = s.worker => r = s
  /\ \A t \in Tasks, w \in Workers :
       owner[t] = w <=> \E r \in calls : r.task = t /\ r.worker = w
  /\ \A r \in calls : r.worker \in ws
  /\ idle = ws \ {r.worker : r \in calls}

\* Giving distinct idle workers to tasks that own none keeps the pool consistent.
LEMMA StartConsistent ==
  ASSUME NEW ws, NEW idle, NEW owner, NEW calls, Consistent(ws, idle, owner, calls),
         NEW started \in SUBSET Tasks, NEW taken \in [started -> idle],
         \A t \in started : ~OwnsWorker(owner, t),
         \A t, u \in started : t # u => taken[t] # taken[u]
  PROVE  Consistent(ws, idle \ {taken[t] : t \in started},
                    [t \in Tasks |-> IF t \in started THEN taken[t] ELSE owner[t]],
                    calls \cup {NewRun(t, taken[t]) : t \in started})
<1> DEFINE new   == {NewRun(t, taken[t]) : t \in started}
           all   == calls \cup new
           own   == [t \in Tasks |-> IF t \in started THEN taken[t] ELSE owner[t]]
           left  == idle \ {taken[t] : t \in started}
<1>1. /\ ws \subseteq Workers /\ idle \subseteq ws
      /\ \A r \in calls : r \in Run /\ r.worker \in ws /\ r.worker \notin idle
      /\ \A r, s \in calls : r.task = s.task \/ r.worker = s.worker => r = s
      /\ \A w \in ws : w \notin idle => \E r \in calls : r.worker = w
  BY DEF Consistent
<1>2. \A r \in calls : r.task \notin started
  <2> SUFFICES ASSUME NEW r \in calls PROVE r.task \notin started
    OBVIOUS
  <2>1. r.task \in Tasks /\ r.worker \in Workers
    BY <1>1 DEF Run
  <2>2. owner[r.task] = r.worker
    BY <2>1 DEF Consistent
  <2> QED BY <2>1, <2>2, OrchestratorAssumption DEF OwnsWorker, OrchestratorAssumption
<1>3. \A r \in new : \E t \in started : r = NewRun(t, taken[t])
  OBVIOUS
<1>4. \A t \in started : /\ taken[t] \in idle /\ t \in Tasks
                          /\ NewRun(t, taken[t]) \in new
                          /\ NewRun(t, taken[t]) \in Run
                          /\ NewRun(t, taken[t]).task = t
                          /\ NewRun(t, taken[t]).worker = taken[t]
  BY <1>1 DEF NewRun, Run
<1> HIDE DEF new
<1>5. all \subseteq Run /\ \A r \in all : r.worker \in ws
  BY <1>1, <1>3, <1>4
<1>6. ASSUME NEW r \in all, NEW s \in all, r.task = s.task \/ r.worker = s.worker
      PROVE  r = s
  <2>1. CASE r \in calls /\ s \in calls
    BY <1>1, <1>6, <2>1
  <2>2. CASE r \in new /\ s \in new
    <3>1. PICK t \in started : r = NewRun(t, taken[t])
      BY <2>2, <1>3
    <3>2. PICK u \in started : s = NewRun(u, taken[u])
      BY <2>2, <1>3
    <3> QED BY <3>1, <3>2, <1>4, <1>6
  <2>3. ASSUME NEW a \in calls, NEW b \in new PROVE a.task # b.task /\ a.worker # b.worker
    <3>1. PICK t \in started : b = NewRun(t, taken[t])
      BY <1>3
    <3> QED BY <3>1, <1>1, <1>2, <1>4
  <2> QED BY <2>1, <2>2, <2>3, <1>6
<1>7. ASSUME NEW t \in Tasks, NEW w \in Workers
      PROVE  own[t] = w <=> \E r \in all : r.task = t /\ r.worker = w
  <2>1. CASE t \in started
    <3>1. own[t] = taken[t]
      BY <2>1
    <3>2. \A r \in all : r.task = t => r.worker = taken[t]
      BY <2>1, <1>2, <1>3, <1>4
    <3> QED BY <2>1, <3>1, <3>2, <1>4
  <2>2. CASE t \notin started
    <3>1. \A r \in all : r.task = t => r \in calls
      BY <2>2, <1>3, <1>4
    <3>2. owner[t] = w <=> \E r \in calls : r.task = t /\ r.worker = w
      BY DEF Consistent
    <3> QED BY <2>2, <3>1, <3>2
  <2> QED BY <2>1, <2>2
<1>8. left = ws \ {r.worker : r \in all}
  <2>1. ASSUME NEW w \in left PROVE w \in ws /\ \A r \in all : r.worker # w
    BY <1>1, <1>3, <1>4
  <2>2. ASSUME NEW w \in ws, \A r \in all : r.worker # w PROVE w \in left
    BY <2>2, <1>1, <1>4
  <2> QED BY <2>1, <2>2
<1>9. own \in [Tasks -> Workers \cup {NoWorker}]
  BY <1>1, <1>4 DEF Consistent
<1> QED BY <1>1, <1>5, <1>6, <1>7, <1>8, <1>9 DEF Consistent, new

\* The call r returns its worker and is gone.
LEMMA EndConsistent ==
  ASSUME Consistent(workers, available, assignment, runs), NEW r \in runs
  PROVE  Consistent(workers, available \cup {r.worker}, Released(r.worker), runs \ {r})
<1> DEFINE left == runs \ {r}
           own  == Released(r.worker)
<1>1. /\ workers \subseteq Workers /\ runs \subseteq Run
      /\ assignment \in [Tasks -> Workers \cup {NoWorker}]
      /\ \A a, b \in runs : a.task = b.task \/ a.worker = b.worker => a = b
      /\ \A t \in Tasks, w \in Workers :
           assignment[t] = w <=> \E a \in runs : a.task = t /\ a.worker = w
      /\ \A a \in runs : a.worker \in workers
      /\ available = workers \ {a.worker : a \in runs}
  BY DEF Consistent
<1>2. own = [t \in Tasks |-> IF assignment[t] = r.worker THEN NoWorker ELSE assignment[t]]
  BY DEF Released
<1> HIDE DEF own
<1>3. ASSUME NEW t \in Tasks, NEW w \in Workers
      PROVE  own[t] = w <=> \E a \in left : a.task = t /\ a.worker = w
  <2>1. assignment[t] = w <=> \E a \in runs : a.task = t /\ a.worker = w
    BY <1>1
  <2>2. CASE assignment[t] = r.worker
    <3>1. own[t] = NoWorker /\ NoWorker # w
      BY <2>2, <1>2, OrchestratorAssumption DEF OrchestratorAssumption
    <3>2. PICK a \in runs : a.task = t /\ a.worker = r.worker
      BY <2>2, <1>1
    <3>3. a = r
      BY <3>2, <1>1
    <3>4. \A b \in left : b.task # t
      BY <3>2, <3>3, <1>1
    <3> QED BY <3>1, <3>4
  <2>3. CASE assignment[t] # r.worker
    <3>1. own[t] = assignment[t]
      BY <2>3, <1>2
    <3>2. r.worker \in Workers /\ ~(r.task = t /\ r.worker = w /\ assignment[t] = w)
      BY <2>3, <1>1
    <3> QED BY <2>1, <3>1, <3>2
  <2> QED BY <2>2, <2>3
<1>4. available \cup {r.worker} = workers \ {a.worker : a \in left}
  BY <1>1
<1>5. own \in [Tasks -> Workers \cup {NoWorker}]
  BY <1>1, <1>2
<1> QED BY <1>1, <1>3, <1>4, <1>5 DEF Consistent, own

\* A call going on to its save keeps task and worker.
LEMMA SaveConsistent ==
  ASSUME Consistent(workers, available, assignment, runs), NEW r \in runs, BeginSave(r)
  PROVE  Consistent(workers, available, assignment, runs')
<1> DEFINE s == [r EXCEPT !.phase = "saving"]
<1>1. r \in Run /\ runs \subseteq Run
  BY DEF Consistent
<1>2. s \in Run /\ s.task = r.task /\ s.worker = r.worker
  BY <1>1 DEF Run
<1> HIDE DEF s
<1>3. runs' = (runs \ {r}) \cup {s}
  BY DEF BeginSave, s
<1>4. {a.worker : a \in runs'} = {a.worker : a \in runs}
  BY <1>2, <1>3
<1> QED BY <1>1, <1>2, <1>3, <1>4 DEF Consistent

\* A new worker serves nobody.
LEMMA AddConsistent ==
  ASSUME Consistent(workers, available, assignment, runs), NEW w \in Workers \ workers
  PROVE  Consistent(workers \cup {w}, available \cup {w}, assignment, runs)
BY DEF Consistent

-------------------------------------------------------------------------------
(* The inductive invariant.                                                *)

\* Queue and pool hold together: that no task runs twice rests on assignments telling
\* the truth about suspended calls, and that no worker idles beside a startable task on
\* the queue having no duplicates - a pause takes out one entry.
IInv ==
  /\ TypeOK
  /\ Consistent(workers, available, assignment, runs)
  /\ PendingDistinct
  /\ NoIdleWorkerWhileStartable

\* drainQueue establishes the invariant's part on queue and pool.
LEMMA DrainStep ==
  ASSUME NEW st \in [Tasks -> States], NEW queue \in Seq(Tasks), IsInjective(queue),
         NEW ws, NEW idle, NEW owner, NEW calls, Consistent(ws, idle, owner, calls),
         DrainQueue(st, queue, idle, owner, calls)
  PROVE  /\ Consistent(ws, available', assignment', runs')
         /\ state' \in [Tasks -> States]
         /\ pending' \in Seq(Tasks)
         /\ PendingDistinct'
         /\ NoIdleWorkerWhileStartable'
<1>1. idle \in SUBSET Workers
  BY DEF Consistent
<1>2. /\ pending' \in Seq(Tasks)
      /\ ToSet(pending') \subseteq ToSet(queue)
      /\ IsInjective(pending')
      /\ available' # {} =>
           \A t \in ToSet(pending') : st[t] = "QUEUED" /\ OwnsWorker(owner, t)
      /\ Handout(st, idle, owner, calls)
  BY <1>1, DrainFacts
<1>3. PICK started \in SUBSET Tasks :
        \E taken \in [started -> idle] : HandoutTo(started, taken, st, idle, owner, calls)
  BY <1>2, Zenon DEF Handout
<1>4. PICK taken \in [started -> idle] : HandoutTo(started, taken, st, idle, owner, calls)
  BY <1>3
<1>5. Consistent(ws, available', assignment', runs')
  BY <1>4, StartConsistent DEF HandoutTo
<1>6. state' \in [Tasks -> States]
  BY <1>4 DEF HandoutTo, States, TaskState
<1>7. ToSet(queue) \subseteq Tasks
  BY DEF ToSet
<1>8. NoIdleWorkerWhileStartable'
  <2> SUFFICES ASSUME available' # {}, NEW t \in ToSet(pending')
               PROVE  state'[t] = "QUEUED" /\ assignment'[t] # NoWorker
    BY DEF NoIdleWorkerWhileStartable
  <2>1. st[t] = "QUEUED" /\ OwnsWorker(owner, t) /\ t \in Tasks
    BY <1>2, <1>7
  <2>2. t \notin started
    BY <2>1, <1>4 DEF HandoutTo
  <2> QED BY <2>1, <2>2, <1>4 DEF HandoutTo, OwnsWorker
<1> QED BY <1>2, <1>5, <1>6, <1>8 DEF PendingDistinct

\* startTask keeps it, if it holds of all tasks but the one to be started.
LEMMA BeginStep ==
  ASSUME TypeOK, Consistent(workers, available, assignment, runs), PendingDistinct,
         NEW t \in Tasks, NEW st \in [Tasks -> States], st[t] = "QUEUED",
         available # {} => \A u \in ToSet(pending) \ {t} :
                             st[u] = "QUEUED" /\ assignment[u] # NoWorker,
         BeginTask(t, st)
  PROVE  /\ Consistent(workers, available', assignment', runs')
         /\ state' \in [Tasks -> States]
         /\ pending' \in Seq(Tasks)
         /\ PendingDistinct'
         /\ NoIdleWorkerWhileStartable'
<1>1. pending \in Seq(Tasks) /\ ToSet(pending) \subseteq Tasks
  BY DEF TypeOK, ToSet
<1>2. CASE /\ ~OwnsWorker(assignment, t)
           /\ \E w \in available :
                /\ available' = available \ {w}
                /\ assignment' = [assignment EXCEPT ![t] = w]
                /\ runs' = runs \cup {NewRun(t, w)}
           /\ state' = [st EXCEPT ![t] = "RUNNING"]
           /\ pending' = Without(pending, t)
  <2>1. PICK w \in available : /\ available' = available \ {w}
                               /\ assignment' = [assignment EXCEPT ![t] = w]
                               /\ runs' = runs \cup {NewRun(t, w)}
    BY <1>2
  <2> DEFINE taken == [u \in {t} |-> w]
  <2>2. Consistent(workers, available \ {taken[u] : u \in {t}},
                   [u \in Tasks |-> IF u \in {t} THEN taken[u] ELSE assignment[u]],
                   runs \cup {NewRun(u, taken[u]) : u \in {t}})
    <3>1. taken \in [{t} -> available] /\ {t} \in SUBSET Tasks
      OBVIOUS
    <3>2. \A u \in {t} : ~OwnsWorker(assignment, u)
      BY <1>2
    <3>3. \A u, v \in {t} : u # v => taken[u] # taken[v]
      OBVIOUS
    <3> HIDE DEF taken
    <3> QED BY <3>1, <3>2, <3>3, StartConsistent
  <2>3. /\ {taken[u] : u \in {t}} = {w}
        /\ {NewRun(u, taken[u]) : u \in {t}} = {NewRun(t, w)}
    OBVIOUS
  <2>4. assignment' = [u \in Tasks |-> IF u \in {t} THEN taken[u] ELSE assignment[u]]
    BY <2>1 DEF Consistent
  <2> HIDE DEF taken
  <2>5. Consistent(workers, available', assignment', runs')
    BY <2>1, <2>2, <2>3, <2>4
  <2>6. /\ pending' \in Seq(Tasks)
        /\ PendingDistinct'
        /\ ToSet(pending') = ToSet(pending) \ {t}
    BY <1>1, <1>2, WithoutFacts DEF PendingDistinct
  <2>7. NoIdleWorkerWhileStartable'
    <3> SUFFICES ASSUME available' # {}, NEW u \in ToSet(pending')
                 PROVE  state'[u] = "QUEUED" /\ assignment'[u] # NoWorker
      BY DEF NoIdleWorkerWhileStartable
    <3>1. available # {} /\ u \in ToSet(pending) \ {t} /\ u \in Tasks
      BY <1>1, <2>1, <2>6
    <3> QED BY <3>1, <1>2, <2>1 DEF Consistent
  <2>8. state' \in [Tasks -> States]
    BY <1>2 DEF States, TaskState
  <2> QED BY <2>5, <2>6, <2>7, <2>8
<1>3. CASE /\ OwnsWorker(assignment, t) \/ available = {}
           /\ state' = st
           /\ pending' = Enqueue(pending, t)
           /\ UNCHANGED <<available, assignment, runs>>
  <2>1. /\ pending' \in Seq(Tasks)
        /\ PendingDistinct'
        /\ ToSet(pending') = ToSet(pending) \cup {t}
    BY <1>1, <1>3, EnqueueFacts DEF PendingDistinct
  <2>2. NoIdleWorkerWhileStartable'
    BY <1>3, <2>1 DEF NoIdleWorkerWhileStartable, OwnsWorker
  <2> QED BY <1>3, <2>1, <2>2
<1> QED BY <1>2, <1>3, Zenon DEF BeginTask

\* The invariant holds when the program starts.
LEMMA InitInv == Init => IInv
<1> SUFFICES ASSUME Init PROVE IInv
  OBVIOUS
<1>1. \A s \in TaskState \cup {"ABSENT"} : Restored(s) \in States
  BY DEF Restored, States, TaskState
<1>2. TypeOK
  BY <1>1, OrchestratorAssumption
     DEF Init, TypeOK, States, OrchestratorAssumption
<1>3. Consistent(workers, available, assignment, runs)
  BY OrchestratorAssumption DEF Init, Consistent, OrchestratorAssumption
<1>4. PendingDistinct /\ NoIdleWorkerWhileStartable
  BY DEF Init, PendingDistinct, IsInjective, NoIdleWorkerWhileStartable
<1> QED BY <1>2, <1>3, <1>4 DEF IInv

\* A step that leaves the pool alone, types what it changes, and adds no task to the
\* queue that is not QUEUED or owns no worker, keeps the invariant.
LEMMA QuietStep ==
  ASSUME IInv, UNCHANGED poolVars, TypeOK',
         IsInjective(pending'),
         \A u \in ToSet(pending') :
           available # {} => state'[u] = "QUEUED" /\ assignment[u] # NoWorker
  PROVE  IInv'
<1>1. /\ workers' = workers /\ available' = available
      /\ assignment' = assignment /\ runs' = runs
  BY DEF poolVars
<1>2. Consistent(workers, available, assignment, runs)'
  BY <1>1 DEF IInv, Consistent
<1>3. PendingDistinct' /\ NoIdleWorkerWhileStartable'
  BY <1>1 DEF PendingDistinct, NoIdleWorkerWhileStartable
<1> QED BY <1>2, <1>3 DEF IInv

\* removePendingTask, as the commands use it.
LEMMA RemovalFacts ==
  ASSUME IInv, NEW t \in Tasks
  PROVE  /\ Without(pending, t) \in Seq(Tasks)
         /\ IsInjective(Without(pending, t))
         /\ ToSet(Without(pending, t)) = ToSet(pending) \ {t}
BY WithoutFacts DEF IInv, TypeOK, PendingDistinct

\* The commands of the user keep the invariant.
LEMMA CommandInv ==
  ASSUME IInv, NEW t \in Tasks, Command(t)
  PROVE  IInv'
<1> USE OrchestratorAssumption DEF OrchestratorAssumption
<1>1. /\ TypeOK
      /\ IsInjective(pending)
      /\ \A u \in ToSet(pending) :
           available # {} => state[u] = "QUEUED" /\ assignment[u] # NoWorker
  BY DEF IInv, PendingDistinct, NoIdleWorkerWhileStartable
<1>2. ToSet(pending) \subseteq Tasks
  BY <1>1 DEF TypeOK, ToSet
<1>3. state \in [Tasks -> States]
  BY <1>1 DEF TypeOK, States
<1>4. CASE CreateTask(t)
  <2>1. TypeOK'
    BY <1>1, <1>4 DEF CreateTask, TypeOK, TaskState, taskVars, poolVars, saveVars
  <2> QED BY <1>1, <1>2, <1>3, <1>4, <2>1, QuietStep DEF CreateTask
<1>5. CASE StartTask(t)
  <2>1. /\ Consistent(workers, available', assignment', runs')
        /\ state' \in [Tasks -> States]
        /\ pending' \in Seq(Tasks)
        /\ PendingDistinct'
        /\ NoIdleWorkerWhileStartable'
    <3>1. state[t] = "QUEUED" /\ BeginTask(t, state)
      BY <1>5 DEF StartTask
    <3>2. Consistent(workers, available, assignment, runs) /\ PendingDistinct
      BY DEF IInv
    <3> QED BY <1>1, <1>3, <3>1, <3>2, BeginStep
  <2>2. /\ Consistent(workers, available, assignment, runs)'
        /\ UNCHANGED <<taskVars, pausedRunning, retryTimer, workers, saveVars>>
    BY <1>5, <2>1 DEF StartTask
  <2>3. TypeOK'
    BY <1>1, <2>1, <2>2 DEF TypeOK, States, Consistent, taskVars, saveVars
  <2> QED BY <2>1, <2>2, <2>3 DEF IInv
<1>6. CASE PauseTask(t)
  <2>1. TypeOK'
    <3>1. state' \in [Tasks -> TaskState \cup {"ABSENT"}]
      BY <1>1, <1>6 DEF PauseTask, TypeOK, TaskState
    <3>2. pauseSaves' \in [Tasks -> 0 .. MaxSaves]
      BY <1>1, <1>6 DEF PauseTask, TypeOK
    <3>3. pending' \in Seq(Tasks) /\ pausedRunning' \subseteq Tasks /\ retryTimer' \subseteq Tasks
      BY <1>1, <1>6, RemovalFacts DEF PauseTask, PauseMarks, RetryCancelled, TypeOK
    <3>4. UNCHANGED <<taskVars, poolVars, resumeSaves>>
      BY <1>6 DEF PauseTask
    <3> QED BY <1>1, <3>1, <3>2, <3>3, <3>4 DEF TypeOK, taskVars, poolVars
  <2> QED BY <1>1, <1>2, <1>3, <1>6, <2>1, QuietStep, RemovalFacts DEF PauseTask
<1>7. CASE PauseRefused(t)
  <2>1. TypeOK'
    BY <1>1, <1>7, RemovalFacts
       DEF PauseRefused, TypeOK, RetryCancelled, taskVars, poolVars, saveVars
  <2> QED BY <1>1, <1>2, <1>3, <1>7, <2>1, QuietStep, RemovalFacts DEF PauseRefused
<1>8. CASE ResumeTask(t)
  <2>1. TypeOK'
    <3>1. state' \in [Tasks -> TaskState \cup {"ABSENT"}]
      BY <1>1, <1>8 DEF ResumeTask, TypeOK, TaskState
    <3>2. resumeSaves' \in [Tasks -> 0 .. MaxSaves]
      BY <1>1, <1>8 DEF ResumeTask, TypeOK
    <3>3. UNCHANGED <<taskVars, pending, pausedRunning, retryTimer, poolVars, pauseSaves>>
      BY <1>8 DEF ResumeTask
    <3> QED BY <1>1, <3>1, <3>2, <3>3 DEF TypeOK, taskVars, poolVars
  <2>2. UNCHANGED poolVars /\ pending' = pending
    BY <1>8 DEF ResumeTask
  <2>3. \A u \in Tasks : state[u] = "QUEUED" => state'[u] = "QUEUED"
    BY <1>3, <1>8 DEF ResumeTask
  <2> QED BY <1>1, <1>2, <2>1, <2>2, <2>3, QuietStep
<1>9. CASE CancelTask(t)
  <2>1. TypeOK'
    BY <1>1, <1>9, RemovalFacts
       DEF CancelTask, TypeOK, RetryCancelled, TaskState, taskVars, poolVars, saveVars
  <2> QED BY <1>1, <1>2, <1>3, <1>9, <2>1, QuietStep, RemovalFacts DEF CancelTask
<1> QED BY <1>4, <1>5, <1>6, <1>7, <1>8, <1>9 DEF Command

\* The continuations of suspended calls and timers that drain or start keep it.
LEMMA WakeInv ==
  ASSUME IInv, NEW t \in Tasks,
         PauseSaved(t) \/ ResumeSaved(t) \/ SaveFails(t) \/ RetryFires(t)
  PROVE  IInv'
<1> USE OrchestratorAssumption DEF OrchestratorAssumption
<1>1. /\ TypeOK
      /\ IsInjective(pending)
      /\ Consistent(workers, available, assignment, runs)
      /\ \A u \in ToSet(pending) :
           available # {} => state[u] = "QUEUED" /\ assignment[u] # NoWorker
  BY DEF IInv, PendingDistinct, NoIdleWorkerWhileStartable
<1>2. /\ ToSet(pending) \subseteq Tasks /\ pending \in Seq(Tasks)
      /\ state \in [Tasks -> States]
  BY <1>1 DEF TypeOK, ToSet, States
<1>3. ASSUME Consistent(workers, available', assignment', runs'),
             state' \in [Tasks -> States], pending' \in Seq(Tasks),
             PendingDistinct', NoIdleWorkerWhileStartable',
             UNCHANGED <<taskVars, pausedRunning, workers>>,
             retryTimer' \subseteq Tasks,
             pauseSaves' \in [Tasks -> 0 .. MaxSaves],
             resumeSaves' \in [Tasks -> 0 .. MaxSaves]
      PROVE  IInv'
  <2>1. Consistent(workers, available, assignment, runs)'
    BY <1>3
  <2>2. TypeOK'
    BY <1>1, <1>3 DEF TypeOK, States, Consistent, taskVars
  <2> QED BY <1>3, <2>1, <2>2 DEF IInv
<1>4. CASE PauseSaved(t)
  <2>1. DrainQueue(state, pending, available, assignment, runs)
    BY <1>4 DEF PauseSaved
  <2>2. /\ Consistent(workers, available', assignment', runs')
        /\ state' \in [Tasks -> States] /\ pending' \in Seq(Tasks)
        /\ PendingDistinct' /\ NoIdleWorkerWhileStartable'
    BY <1>1, <1>2, <2>1, DrainStep
  <2>3. /\ UNCHANGED <<taskVars, pausedRunning, workers>>
        /\ retryTimer' \subseteq Tasks
        /\ pauseSaves' \in [Tasks -> 0 .. MaxSaves]
        /\ resumeSaves' \in [Tasks -> 0 .. MaxSaves]
    BY <1>1, <1>4 DEF PauseSaved, TypeOK
  <2> QED BY <1>3, <2>2, <2>3
<1>5. CASE ResumeSaved(t)
  <2>1. DrainQueue(state, Enqueue(pending, t), available, assignment, runs)
    BY <1>5 DEF ResumeSaved
  <2>2. Enqueue(pending, t) \in Seq(Tasks) /\ IsInjective(Enqueue(pending, t))
    BY <1>1, <1>2, EnqueueFacts
  <2>3. /\ Consistent(workers, available', assignment', runs')
        /\ state' \in [Tasks -> States] /\ pending' \in Seq(Tasks)
        /\ PendingDistinct' /\ NoIdleWorkerWhileStartable'
    BY <1>1, <1>2, <2>1, <2>2, DrainStep
  <2>4. /\ UNCHANGED <<taskVars, pausedRunning, workers>>
        /\ retryTimer' \subseteq Tasks
        /\ pauseSaves' \in [Tasks -> 0 .. MaxSaves]
        /\ resumeSaves' \in [Tasks -> 0 .. MaxSaves]
    BY <1>1, <1>5 DEF ResumeSaved, TypeOK
  <2> QED BY <1>3, <2>3, <2>4
<1>6. CASE SaveFails(t)
  <2>1. TypeOK'
    BY <1>1, <1>6 DEF SaveFails, TypeOK, taskVars, poolVars
  <2> QED BY <1>1, <1>6, <2>1, QuietStep DEF SaveFails
<1>7. CASE RetryFires(t)
  <2>1. CASE state[t] = "RETRYING"
    <3> DEFINE st == [state EXCEPT ![t] = "QUEUED"]
    <3>1. BeginTask(t, st)
      BY <1>7, <2>1 DEF RetryFires
    <3>2. st \in [Tasks -> States] /\ st[t] = "QUEUED"
      BY <1>2 DEF States, TaskState
    <3>3. available # {} => \A u \in ToSet(pending) \ {t} :
                              st[u] = "QUEUED" /\ assignment[u] # NoWorker
      BY <1>1, <1>2
    <3> HIDE DEF st
    <3>4. /\ Consistent(workers, available', assignment', runs')
          /\ state' \in [Tasks -> States] /\ pending' \in Seq(Tasks)
          /\ PendingDistinct' /\ NoIdleWorkerWhileStartable'
      BY <1>1, <3>1, <3>2, <3>3, BeginStep DEF PendingDistinct
    <3>5. /\ UNCHANGED <<taskVars, pausedRunning, workers>> /\ UNCHANGED saveVars
          /\ retryTimer' \subseteq Tasks
      BY <1>1, <1>7 DEF RetryFires, TypeOK
    <3>6. /\ pauseSaves' \in [Tasks -> 0 .. MaxSaves]
          /\ resumeSaves' \in [Tasks -> 0 .. MaxSaves]
      BY <1>1, <3>5 DEF TypeOK, saveVars
    <3> QED BY <1>3, <3>4, <3>5, <3>6
  <2>2. CASE state[t] # "RETRYING"
    <3>1. UNCHANGED <<state, pending, available, assignment, runs, taskVars,
                      pausedRunning, workers, saveVars>> /\ retryTimer' \subseteq Tasks
      BY <1>1, <1>7, <2>2 DEF RetryFires, TypeOK
    <3>2. TypeOK'
      BY <1>1, <3>1 DEF TypeOK, taskVars, saveVars
    <3>3. UNCHANGED poolVars /\ pending' = pending /\ state' = state
      BY <3>1 DEF poolVars
    <3> QED BY <1>1, <3>2, <3>3, QuietStep
  <2> QED BY <2>1, <2>2
<1> QED BY <1>4, <1>5, <1>6, <1>7

\* The same as QuietStep for a call that goes on to its save.
LEMMA SaveStep ==
  ASSUME IInv, NEW r \in runs, BeginSave(r), UNCHANGED <<workers, available, assignment>>,
         TypeOK', IsInjective(pending'),
         \A u \in ToSet(pending') :
           available # {} => state'[u] = "QUEUED" /\ assignment[u] # NoWorker
  PROVE  IInv'
<1>1. Consistent(workers, available, assignment, runs')
  BY SaveConsistent DEF IInv
<1>2. Consistent(workers, available, assignment, runs)'
  BY <1>1
<1>3. PendingDistinct' /\ NoIdleWorkerWhileStartable'
  BY DEF PendingDistinct, NoIdleWorkerWhileStartable
<1> QED BY <1>2, <1>3 DEF IInv

\* The result of a run, and its end after the last save, keep the invariant.
LEMMA RunInv ==
  ASSUME IInv, NEW r \in runs, Return(r) \/ RunSaved(r)
  PROVE  IInv'
<1> USE OrchestratorAssumption DEF OrchestratorAssumption
<1>1. /\ TypeOK
      /\ IsInjective(pending)
      /\ Consistent(workers, available, assignment, runs)
      /\ \A u \in ToSet(pending) :
           available # {} => state[u] = "QUEUED" /\ assignment[u] # NoWorker
  BY DEF IInv, PendingDistinct, NoIdleWorkerWhileStartable
<1>2. /\ ToSet(pending) \subseteq Tasks /\ pending \in Seq(Tasks)
      /\ state \in [Tasks -> States]
  BY <1>1 DEF TypeOK, ToSet, States
<1>3. /\ r \in Run /\ r.task \in Tasks /\ r.worker \in Workers
      /\ assignment[r.task] = r.worker /\ r.worker # NoWorker
  <2>1. r \in Run
    BY <1>1 DEF TypeOK
  <2>2. r.task \in Tasks /\ r.worker \in Workers
    BY <2>1 DEF Run
  <2> QED BY <1>1, <2>1, <2>2 DEF Consistent
<1>4. BeginSave(r) => runs' \subseteq Run
  BY <1>1, <1>3 DEF BeginSave, Run, TypeOK
<1>5. CASE ReturnInterrupted(r)
  <2>1. pending' = pending \/ (state[r.task] = "QUEUED" /\ pending' = Enqueue(pending, r.task))
    BY <1>5 DEF ReturnInterrupted
  <2>2. /\ pending' \in Seq(Tasks) /\ IsInjective(pending')
        /\ \A u \in ToSet(pending') :
             u \in ToSet(pending) \/ (u = r.task /\ state[r.task] = "QUEUED")
    BY <1>1, <1>2, <1>3, <2>1, EnqueueFacts
  <2>3. TypeOK'
    BY <1>1, <1>3, <1>4, <1>5, <2>2 DEF ReturnInterrupted, TypeOK, saveVars
  <2> QED BY <1>1, <1>3, <1>5, <2>2, <2>3, SaveStep DEF ReturnInterrupted
<1>6. CASE ReturnSuccess(r)
  <2>1. state[r.task] # "QUEUED"
    BY <1>6 DEF ReturnSuccess, CanComplete, CanTransition, Transitions
  <2>2. TypeOK'
    BY <1>1, <1>3, <1>4, <1>6 DEF ReturnSuccess, TypeOK, TaskState, taskVars, saveVars
  <2> QED BY <1>1, <1>2, <1>3, <1>6, <2>1, <2>2, SaveStep DEF ReturnSuccess
<1>7. ASSUME NEW blocked \in BOOLEAN, ReturnFailure(r, blocked)
      PROVE  IInv'
  <2>1. state[r.task] # "QUEUED"
    BY <1>7 DEF ReturnFailure, CanTransition, Transitions
  <2>2. /\ state' = [state EXCEPT ![r.task] = "RETRYING"]
           \/ state' = [state EXCEPT ![r.task] = "FAILED"]
        /\ retryTimer' \subseteq Tasks
        /\ retryBlocked' \in [Tasks -> BOOLEAN]
    BY <1>1, <1>3, <1>7 DEF ReturnFailure, TypeOK
  <2>3. retries' \in [Tasks -> 0 .. MaxRetries]
    <3>1. /\ retries \in [Tasks -> 0 .. MaxRetries] /\ MaxRetries \in Nat
      BY <1>1 DEF TypeOK
    <3>2. CASE MayRetry(r.task, blocked)
      <4>1. retries' = [retries EXCEPT ![r.task] = @ + 1]
        BY <1>7, <3>2 DEF ReturnFailure
      <4>2. retries[r.task] < MaxRetries
        BY <3>2 DEF MayRetry
      <4> QED BY <1>3, <3>1, <4>1, <4>2
    <3>3. CASE ~MayRetry(r.task, blocked)
      BY <1>7, <3>1, <3>3 DEF ReturnFailure
    <3> QED BY <3>2, <3>3
  <2>4. TypeOK'
    BY <1>1, <1>4, <1>7, <2>2, <2>3 DEF ReturnFailure, TypeOK, TaskState, saveVars
  <2> QED BY <1>1, <1>2, <1>3, <1>7, <2>1, <2>2, <2>4, SaveStep DEF ReturnFailure
<1>8. CASE EndRun(r) /\ UNCHANGED <<taskVars, pausedRunning, retryTimer, workers, saveVars>>
  <2>1. DrainQueue(state, pending, available \cup {r.worker}, Released(r.worker), runs \ {r})
    BY <1>8 DEF EndRun
  <2>2. Consistent(workers, available \cup {r.worker}, Released(r.worker), runs \ {r})
    BY <1>1, EndConsistent
  <2>3. /\ Consistent(workers, available', assignment', runs')
        /\ state' \in [Tasks -> States] /\ pending' \in Seq(Tasks)
        /\ PendingDistinct' /\ NoIdleWorkerWhileStartable'
    BY <1>1, <1>2, <2>1, <2>2, DrainStep
  <2>4. Consistent(workers, available, assignment, runs)'
    BY <1>8, <2>3
  <2>5. TypeOK'
    BY <1>1, <1>8, <2>3 DEF TypeOK, States, Consistent, taskVars, saveVars
  <2> QED BY <2>3, <2>4, <2>5 DEF IInv
<1> QED BY <1>5, <1>6, <1>7, <1>8 DEF Return, RunSaved, ReturnSuccessRefused

\* The table leads to states of a task only.
LEMMA TableTyped == \A s \in TaskState : Transitions[s] \subseteq TaskState
BY DEF Transitions, TaskState, Exits

\* A new worker and a progress update keep it.
LEMMA OtherInv ==
  ASSUME IInv, (\E w \in Workers : AddWorker(w)) \/ (\E t \in Tasks : Progress(t))
  PROVE  IInv'
<1>1. /\ TypeOK
      /\ IsInjective(pending)
      /\ Consistent(workers, available, assignment, runs)
      /\ \A u \in ToSet(pending) :
           available # {} => state[u] = "QUEUED" /\ assignment[u] # NoWorker
  BY DEF IInv, PendingDistinct, NoIdleWorkerWhileStartable
<1>2. /\ ToSet(pending) \subseteq Tasks /\ pending \in Seq(Tasks)
      /\ state \in [Tasks -> States]
  BY <1>1 DEF TypeOK, ToSet, States
<1>3. ASSUME NEW w \in Workers, AddWorker(w)
      PROVE  IInv'
  <2>1. DrainQueue(state, pending, available \cup {w}, assignment, runs)
    BY <1>3 DEF AddWorker
  <2>2. Consistent(workers \cup {w}, available \cup {w}, assignment, runs)
    BY <1>1, <1>3, AddConsistent DEF AddWorker
  <2>3. /\ Consistent(workers \cup {w}, available', assignment', runs')
        /\ state' \in [Tasks -> States] /\ pending' \in Seq(Tasks)
        /\ PendingDistinct' /\ NoIdleWorkerWhileStartable'
    BY <1>1, <1>2, <2>1, <2>2, DrainStep
  <2>4. Consistent(workers, available, assignment, runs)'
    BY <1>3, <2>3 DEF AddWorker
  <2>5. TypeOK'
    BY <1>1, <1>3, <2>3, <2>4 DEF AddWorker, TypeOK, States, Consistent, taskVars, saveVars
  <2> QED BY <2>3, <2>4, <2>5 DEF IInv
<1>4. ASSUME NEW t \in Tasks, NEW waiting \in BOOLEAN, NEW phase, NEW stage \in FlowStages,
             ProgressUpdate(t, waiting, phase, stage)
      PROVE  IInv'
  <2> DEFINE shown == QueueDisplay(t, state[t], waiting, phase)
             next  == IF waiting THEN shown ELSE FlowDisplay(t, shown, stage)
  <2>1. state' = [state EXCEPT ![t] = next]
    BY <1>4 DEF ProgressUpdate
  <2>2. shown \in States /\ (state[t] = "QUEUED" => shown = "QUEUED")
    BY <1>2 DEF QueueDisplay, States, TaskState
  <2>3. next \in States /\ (state[t] = "QUEUED" => next = "QUEUED")
    <3> HIDE DEF shown
    <3>1. CanTransition(shown, stage) => stage \in States
      BY TableTyped DEF CanTransition, States
    <3>2. shown = "QUEUED" => ~CanTransition(shown, stage)
      BY <1>4 DEF CanTransition, Transitions, FlowStages
    <3> QED BY <2>2, <3>1, <3>2 DEF FlowDisplay
  <2> HIDE DEF next
  <2>4. TypeOK'
    BY <1>1, <1>4, <2>1, <2>3
       DEF ProgressUpdate, TypeOK, States, taskVars, poolVars, saveVars
  <2> QED BY <1>1, <1>2, <1>4, <2>1, <2>3, <2>4, QuietStep DEF ProgressUpdate
<1> QED BY <1>3, <1>4 DEF Progress

\* One step of the orchestrator.
LEMMA StepInv == IInv /\ [Next]_vars => IInv'
<1> SUFFICES ASSUME IInv, [Next]_vars PROVE IInv'
  OBVIOUS
<1>1. CASE UNCHANGED vars
  BY <1>1 DEF vars, taskVars, poolVars, IInv, TypeOK, Consistent, PendingDistinct,
              NoIdleWorkerWhileStartable
<1>2. CASE Next
  <2>1. CASE \E t \in Tasks : Command(t)
    BY <2>1, CommandInv
  <2>2. CASE \E t \in Tasks :
               PauseSaved(t) \/ ResumeSaved(t) \/ SaveFails(t) \/ RetryFires(t)
    BY <2>2, WakeInv
  <2>3. CASE \E r \in runs : Return(r) \/ RunSaved(r)
    BY <2>3, RunInv
  <2>4. CASE (\E w \in Workers : AddWorker(w)) \/ (\E t \in Tasks : Progress(t))
    BY <2>4, OtherInv
  <2> QED BY <1>2, <2>1, <2>2, <2>3, <2>4 DEF Next
<1> QED BY <1>1, <1>2

\* The conjuncts of IInv on the pool say what the properties of TaskOrchestrator say.
LEMMA PoolMeaning ==
  IInv => TypeOK /\ OneRunPerTask /\ PoolConsistent
          /\ PendingDistinct /\ NoIdleWorkerWhileStartable
BY DEF IInv, Consistent, OneRunPerTask, PoolConsistent

-------------------------------------------------------------------------------
(* The theorems.                                                           *)

\* The inductive invariant: types, the pool's books, a queue without duplicates and no
\* idle worker beside a task it could serve.
THEOREM Inductive == Spec => []IInv
BY InitInv, StepInv, PTL DEF Spec

\* Every variable keeps its type, for every executor: in particular a task never has
\* more retries than it may have.
THEOREM Typed == Spec => []TypeOK
BY Inductive, PoolMeaning, PTL

\* However pauses, resumes, retries and returning runs interleave, no task is ever
\* executed by two suspended startTask calls and no worker serves two calls.
THEOREM NoOverlap == Spec => []OneRunPerTask
BY Inductive, PoolMeaning, PTL

\* No path through startTask loses or duplicates a worker.
THEOREM PoolTruthful == Spec => []PoolConsistent
BY Inductive, PoolMeaning, PTL

\* No wake-up is lost: a worker never idles beside a queued task that could use it.
THEOREM NoIdle == Spec => []NoIdleWorkerWhileStartable
BY Inductive, PoolMeaning, PTL

\* A task waits at most once in the pending queue.
THEOREM NoDuplicates == Spec => []PendingDistinct
BY Inductive, PoolMeaning, PTL

-------------------------------------------------------------------------------
(***************************************************************************)
(* The results of runs: blocked tasks are not retried, the state shown and *)
(* the live calls agree, and the orchestrator implements TaskLifecycle.    *)
(***************************************************************************)

(* What the paths that start tasks have in common.                         *)

Busy(calls, t) == \E r \in calls : r.task = t /\ r.phase = "executing"

\* The tasks S, QUEUED in `st` and without a call in `calls`, begin to run.
Starts(S, st, calls) ==
  /\ S \in SUBSET Tasks
  /\ \A t \in S : st[t] = "QUEUED" /\ (\A r \in calls : r.task # t)
  /\ state' = [t \in Tasks |-> IF t \in S THEN "RUNNING" ELSE st[t]]
  /\ \A t \in Tasks : Busy(runs', t) <=> t \in S \/ Busy(calls, t)
  /\ {r.task : r \in runs'} = {r.task : r \in calls} \cup S

\* A task whose pool entry is free has no suspended call.
LEMMA FreeTask ==
  ASSUME NEW ws, NEW idle, NEW owner, NEW calls, Consistent(ws, idle, owner, calls),
         NEW t \in Tasks, ~OwnsWorker(owner, t)
  PROVE  \A r \in calls : r.task # t
<1> SUFFICES ASSUME NEW r \in calls, r.task = t PROVE FALSE
  OBVIOUS
<1>1. r.task \in Tasks /\ r.worker \in Workers
  BY DEF Consistent, Run
<1>2. owner[t] = r.worker
  BY <1>1 DEF Consistent
<1> QED BY <1>1, <1>2, OrchestratorAssumption DEF OwnsWorker, OrchestratorAssumption

\* drainQueue starts tasks.
LEMMA DrainStarts ==
  ASSUME NEW st \in [Tasks -> States], NEW queue \in Seq(Tasks),
         NEW ws, NEW idle, NEW owner, NEW calls, Consistent(ws, idle, owner, calls),
         DrainQueue(st, queue, idle, owner, calls)
  PROVE  \E S \in SUBSET Tasks : Starts(S, st, calls)
<1>1. idle \in SUBSET Workers
  BY DEF Consistent
<1>2. Handout(st, idle, owner, calls)
  BY <1>1, DrainFacts
<1>3. PICK S \in SUBSET Tasks :
        \E taken \in [S -> idle] : HandoutTo(S, taken, st, idle, owner, calls)
  BY <1>2, Zenon DEF Handout
<1>4. PICK taken \in [S -> idle] : HandoutTo(S, taken, st, idle, owner, calls)
  BY <1>3
<1>5. \A t \in S : st[t] = "QUEUED" /\ (\A r \in calls : r.task # t)
  BY <1>4, FreeTask DEF HandoutTo
<1> DEFINE new == {NewRun(t, taken[t]) : t \in S}
<1>6. runs' = calls \cup new
  BY <1>4 DEF HandoutTo
<1>7. /\ \A t \in S : \E r \in new : r.task = t /\ r.phase = "executing"
      /\ \A r \in new : r.task \in S
  <2>1. \A t \in S : /\ NewRun(t, taken[t]) \in new
                     /\ NewRun(t, taken[t]).task = t
                     /\ NewRun(t, taken[t]).phase = "executing"
    BY DEF NewRun
  <2>2. \A r \in new : \E t \in S : r = NewRun(t, taken[t])
    OBVIOUS
  <2> HIDE DEF new
  <2> QED BY <2>1, <2>2
<1> HIDE DEF new
<1>8. \A t \in Tasks : Busy(runs', t) <=> t \in S \/ Busy(calls, t)
  BY <1>6, <1>7 DEF Busy
<1>9. {r.task : r \in runs'} = {r.task : r \in calls} \cup S
  BY <1>6, <1>7
<1>10. state' = [t \in Tasks |-> IF t \in S THEN "RUNNING" ELSE st[t]]
  BY <1>4 DEF HandoutTo
<1> QED BY <1>5, <1>8, <1>9, <1>10 DEF Starts

\* startTask starts its task or none.
LEMMA BeginStarts ==
  ASSUME IInv, NEW t \in Tasks, NEW st \in [Tasks -> States], st[t] = "QUEUED",
         BeginTask(t, st)
  PROVE  \E S \in SUBSET {t} : Starts(S, st, runs)
<1>1. Consistent(workers, available, assignment, runs)
  BY DEF IInv
<1>2. CASE ~OwnsWorker(assignment, t) /\ \E w \in available : runs' = runs \cup {NewRun(t, w)}
      /\ state' = [st EXCEPT ![t] = "RUNNING"]
  <2>1. PICK w \in available : runs' = runs \cup {NewRun(t, w)}
    BY <1>2
  <2> DEFINE r == NewRun(t, w)
  <2>2. r.task = t /\ r.phase = "executing"
    BY DEF NewRun
  <2> HIDE DEF r
  <2>3. runs' = runs \cup {r}
    BY <2>1 DEF r
  <2>4. \A u \in Tasks : Busy(runs', u) <=> u \in {t} \/ Busy(runs, u)
    BY <2>2, <2>3 DEF Busy
  <2>5. {c.task : c \in runs'} = {c.task : c \in runs} \cup {t}
    BY <2>2, <2>3
  <2>6. \A c \in runs : c.task # t
    BY <1>1, <1>2, FreeTask
  <2>7. state' = [u \in Tasks |-> IF u \in {t} THEN "RUNNING" ELSE st[u]]
    BY <1>2
  <2> QED BY <2>4, <2>5, <2>6, <2>7 DEF Starts
<1>3. CASE state' = st /\ runs' = runs
  <2>1. state' = [u \in Tasks |-> IF u \in {} THEN "RUNNING" ELSE st[u]]
    BY <1>3
  <2>2. Starts({}, st, runs)
    BY <1>3, <2>1 DEF Starts
  <2> QED BY <2>2
<1> QED BY <1>2, <1>3 DEF BeginTask

\* A call that goes on to its save is the only one of its task, and executes no more.
LEMMA SaveEffect ==
  ASSUME IInv, NEW r \in runs, BeginSave(r)
  PROVE  /\ r.task \in Tasks /\ r.worker \in Workers
         /\ \A t \in Tasks : Busy(runs', t) <=> t # r.task /\ Busy(runs, t)
         /\ {c.task : c \in runs'} = {c.task : c \in runs}
<1> DEFINE s == [r EXCEPT !.phase = "saving"]
<1>1. /\ r \in Run
      /\ \A c \in runs : c.task = r.task => c = r
  BY DEF IInv, Consistent
<1>2. s.task = r.task /\ s.phase = "saving" /\ r.task \in Tasks /\ r.worker \in Workers
  BY <1>1 DEF Run
<1> HIDE DEF s
<1>3. runs' = (runs \ {r}) \cup {s}
  BY DEF BeginSave, s
<1>4. \A t \in Tasks : Busy(runs', t) <=> t # r.task /\ Busy(runs, t)
  BY <1>1, <1>2, <1>3 DEF Busy
<1>5. {c.task : c \in runs'} = {c.task : c \in runs}
  BY <1>2, <1>3
<1> QED BY <1>2, <1>4, <1>5

\* A call that ends while it saves is the only one of its task.
LEMMA EndEffect ==
  ASSUME IInv, NEW r \in runs, r.phase = "saving", EndRun(r)
  PROVE  /\ r.task \in Tasks
         /\ ~Busy(runs, r.task)
         /\ \A t \in Tasks : Busy(runs \ {r}, t) <=> Busy(runs, t)
         /\ {c.task : c \in runs \ {r}} = {c.task : c \in runs} \ {r.task}
         /\ \E S \in SUBSET Tasks : Starts(S, state, runs \ {r})
<1>1. /\ r \in Run
      /\ \A c \in runs : c.task = r.task => c = r
      /\ Consistent(workers, available, assignment, runs)
      /\ state \in [Tasks -> States] /\ pending \in Seq(Tasks)
  BY DEF IInv, Consistent, TypeOK, States
<1>2. r.task \in Tasks
  BY <1>1 DEF Run
<1>3. ~Busy(runs, r.task) /\ \A t \in Tasks : Busy(runs \ {r}, t) <=> Busy(runs, t)
  BY <1>1 DEF Busy
<1>4. {c.task : c \in runs \ {r}} = {c.task : c \in runs} \ {r.task}
  BY <1>1
<1>5. Consistent(workers, available \cup {r.worker}, Released(r.worker), runs \ {r})
  BY <1>1, EndConsistent
<1>6. \E S \in SUBSET Tasks : Starts(S, state, runs \ {r})
  BY <1>1, <1>5, DrainStarts DEF EndRun
<1> QED BY <1>2, <1>3, <1>4, <1>6

-------------------------------------------------------------------------------
(* Blocked tasks are not retried.                                          *)

\* The states a task may be in while a call executes it: running, or interrupted and
\* perhaps resumed.  Without it a run that was interrupted could still report a block on
\* a task that waits for its retry.
Unwinding ==
  \A t \in Tasks : Executing(t) => state[t] \in RunningLike \cup {"CANCELLED", "PAUSED", "QUEUED"}

BlockInv == Unwinding /\ BlockedNeverRetried

\* Starting tasks keeps it, if it holds for the states and calls they start from.
LEMMA StartsBlock ==
  ASSUME NEW S, NEW st, NEW calls, Starts(S, st, calls), retryBlocked' = retryBlocked,
         \A t \in Tasks : /\ Busy(calls, t) =>
                               st[t] \in RunningLike \cup {"CANCELLED", "PAUSED", "QUEUED"}
                          /\ st[t] = "RETRYING" => ~retryBlocked[t]
  PROVE  BlockInv'
<1>1. \A t \in Tasks : Busy(runs', t) => state'[t] \in RunningLike \cup {"CANCELLED", "PAUSED", "QUEUED"}
  BY DEF Starts, RunningLike
<1>2. \A t \in Tasks : state'[t] = "RETRYING" => ~retryBlocked'[t]
  BY DEF Starts
<1> QED BY <1>1, <1>2 DEF BlockInv, Unwinding, BlockedNeverRetried, Executing, Busy

\* The state a progress update shows.
LEMMA ProgressEffect ==
  ASSUME IInv, NEW t \in Tasks, NEW waiting \in BOOLEAN, NEW phase, NEW stage \in FlowStages,
         ProgressUpdate(t, waiting, phase, stage),
         state[t] \in RunningLike \cup {"CANCELLED", "PAUSED", "QUEUED"}
  PROVE  /\ \A u \in Tasks : u # t => state'[u] = state[u]
         /\ IF state[t] \in RunningLike THEN state'[t] \in RunningLike ELSE state'[t] = state[t]
<1> DEFINE shown == QueueDisplay(t, state[t], waiting, phase)
           next  == IF waiting THEN shown ELSE FlowDisplay(t, shown, stage)
<1>1. state' = [state EXCEPT ![t] = next]
  BY DEF ProgressUpdate
<1>2. state \in [Tasks -> States]
  BY DEF IInv, TypeOK, States
<1>3. IF state[t] \in RunningLike THEN shown \in RunningLike ELSE shown = state[t]
  BY DEF QueueDisplay, RunningLike
<1>4. \A s \in RunningLike : CanTransition(s, stage) => stage \in RunningLike
  BY DEF CanTransition, Transitions, FlowStages, RunningLike, Exits
<1>5. \A s \in {"CANCELLED", "PAUSED", "QUEUED"} : ~CanTransition(s, stage)
  BY DEF CanTransition, Transitions, FlowStages
<1> HIDE DEF shown
<1>6. IF state[t] \in RunningLike THEN next \in RunningLike ELSE next = state[t]
  BY <1>3, <1>4, <1>5 DEF FlowDisplay
<1> QED BY <1>1, <1>2, <1>6

\* The commands of the user keep it.
LEMMA CommandBlock ==
  ASSUME IInv, BlockInv, NEW t \in Tasks, Command(t)
  PROVE  BlockInv'
<1>1. /\ state \in [Tasks -> States]
      /\ \A u \in Tasks : /\ Busy(runs, u) =>
                               state[u] \in RunningLike \cup {"CANCELLED", "PAUSED", "QUEUED"}
                          /\ state[u] = "RETRYING" => ~retryBlocked[u]
  BY DEF IInv, TypeOK, States, BlockInv, Unwinding, BlockedNeverRetried, Executing, Busy
<1>2. CASE StartTask(t)
  <2>1. PICK S \in SUBSET {t} : Starts(S, state, runs)
    BY <1>1, <1>2, BeginStarts DEF StartTask
  <2> QED BY <1>1, <1>2, <2>1, StartsBlock DEF StartTask, taskVars
<1>3. ASSUME NEW to \in {"QUEUED", "PAUSED", "CANCELLED"},
             state' = [state EXCEPT ![t] = to], UNCHANGED <<runs, retryBlocked>>,
             state[t] = "ABSENT" => to = "QUEUED"
      PROVE  BlockInv'
  BY <1>1, <1>3 DEF BlockInv, Unwinding, BlockedNeverRetried, Executing, Busy
<1>4. ASSUME state' = state, UNCHANGED <<runs, retryBlocked>>
      PROVE  BlockInv'
  BY <1>4 DEF BlockInv, Unwinding, BlockedNeverRetried, Executing
<1>5. CASE CreateTask(t) \/ ResumeTask(t)
  BY <1>3, <1>5 DEF CreateTask, ResumeTask, taskVars, poolVars
<1>6. CASE PauseTask(t)
  <2>1. state[t] # "ABSENT"
    BY <1>6 DEF PauseTask, CanTransition, TaskState
  <2> QED BY <1>3, <1>6, <2>1 DEF PauseTask, taskVars, poolVars
<1>7. CASE PauseRefused(t)
  BY <1>4, <1>7 DEF PauseRefused, taskVars, poolVars
<1>8. CASE CancelTask(t)
  <2>1. state[t] # "ABSENT"
    BY <1>8 DEF CancelTask, TaskState
  <2> QED BY <1>3, <1>4, <1>8, <2>1 DEF CancelTask, taskVars, poolVars
<1> QED BY <1>2, <1>5, <1>6, <1>7, <1>8 DEF Command

\* Saves and timers keep it.
LEMMA WakeBlock ==
  ASSUME IInv, BlockInv, NEW t \in Tasks,
         PauseSaved(t) \/ ResumeSaved(t) \/ SaveFails(t) \/ RetryFires(t)
  PROVE  BlockInv'
<1>1. /\ state \in [Tasks -> States] /\ pending \in Seq(Tasks)
      /\ Consistent(workers, available, assignment, runs)
      /\ \A u \in Tasks : /\ Busy(runs, u) =>
                               state[u] \in RunningLike \cup {"CANCELLED", "PAUSED", "QUEUED"}
                          /\ state[u] = "RETRYING" => ~retryBlocked[u]
  BY DEF IInv, TypeOK, States, BlockInv, Unwinding, BlockedNeverRetried, Executing, Busy
<1>2. CASE PauseSaved(t)
  <2>1. PICK S \in SUBSET Tasks : Starts(S, state, runs)
    BY <1>1, <1>2, DrainStarts DEF PauseSaved
  <2> QED BY <1>1, <1>2, <2>1, StartsBlock DEF PauseSaved, taskVars
<1>3. CASE ResumeSaved(t)
  <2>1. Enqueue(pending, t) \in Seq(Tasks)
    BY <1>1, EnqueueFacts
  <2>2. PICK S \in SUBSET Tasks : Starts(S, state, runs)
    BY <1>1, <1>3, <2>1, DrainStarts DEF ResumeSaved
  <2> QED BY <1>1, <1>3, <2>2, StartsBlock DEF ResumeSaved, taskVars
<1>4. CASE SaveFails(t)
  BY <1>4 DEF SaveFails, BlockInv, Unwinding, BlockedNeverRetried, Executing, taskVars, poolVars
<1>5. CASE RetryFires(t) /\ state[t] = "RETRYING"
  <2> DEFINE st == [state EXCEPT ![t] = "QUEUED"]
  <2>1. st \in [Tasks -> States] /\ st[t] = "QUEUED" /\ \A u \in Tasks : u # t => st[u] = state[u]
    BY <1>1 DEF States, TaskState
  <2>2. BeginTask(t, st)
    BY <1>5 DEF RetryFires
  <2> HIDE DEF st
  <2>3. PICK S \in SUBSET {t} : Starts(S, st, runs)
    BY <2>1, <2>2, BeginStarts
  <2>4. \A u \in Tasks : /\ Busy(runs, u) =>
                               st[u] \in RunningLike \cup {"CANCELLED", "PAUSED", "QUEUED"}
                         /\ st[u] = "RETRYING" => ~retryBlocked[u]
    BY <1>1, <2>1
  <2> QED BY <1>5, <2>3, <2>4, StartsBlock DEF RetryFires, taskVars
<1>6. CASE RetryFires(t) /\ state[t] # "RETRYING"
  BY <1>6 DEF RetryFires, BlockInv, Unwinding, BlockedNeverRetried, Executing, taskVars
<1> QED BY <1>2, <1>3, <1>4, <1>5, <1>6

\* The result of a run, and its end, keep it.
LEMMA RunBlock ==
  ASSUME IInv, BlockInv, NEW r \in runs, Return(r) \/ RunSaved(r)
  PROVE  BlockInv'
<1>1. /\ state \in [Tasks -> States] /\ pending \in Seq(Tasks)
      /\ retryBlocked \in [Tasks -> BOOLEAN]
      /\ r.task \in Tasks
      /\ Consistent(workers, available, assignment, runs)
      /\ \A u \in Tasks : /\ Busy(runs, u) =>
                               state[u] \in RunningLike \cup {"CANCELLED", "PAUSED", "QUEUED"}
                          /\ state[u] = "RETRYING" => ~retryBlocked[u]
  BY DEF IInv, TypeOK, States, Run, BlockInv, Unwinding, BlockedNeverRetried, Executing, Busy
<1>2. r.phase = "executing" => state[r.task] \in RunningLike \cup {"CANCELLED", "PAUSED", "QUEUED"}
  BY <1>1 DEF Busy
<1>3. CASE BeginSave(r) /\ \A u \in Tasks : /\ u # r.task => /\ state'[u] = state[u]
                                                              /\ retryBlocked'[u] = retryBlocked[u]
                                            /\ state'[u] = "RETRYING" => ~retryBlocked'[u]
  <2>1. \A u \in Tasks : Busy(runs', u) => u # r.task /\ Busy(runs, u)
    BY <1>3, SaveEffect
  <2> QED BY <1>1, <1>3, <2>1 DEF BlockInv, Unwinding, BlockedNeverRetried, Executing, Busy
<1>4. CASE ReturnInterrupted(r)
  <2>1. state[r.task] # "RETRYING"
    BY <1>2, <1>4 DEF ReturnInterrupted, RunningLike
  <2> QED BY <1>1, <1>3, <1>4, <2>1 DEF ReturnInterrupted
<1>5. CASE ReturnSuccess(r)
  BY <1>1, <1>3, <1>5 DEF ReturnSuccess, taskVars
<1>6. CASE \E blocked \in BOOLEAN : ReturnFailure(r, blocked)
  <2>1. PICK blocked \in BOOLEAN : ReturnFailure(r, blocked)
    BY <1>6
  <2>2. retryBlocked' = [retryBlocked EXCEPT ![r.task] = @ \/ blocked] /\ BeginSave(r)
    BY <2>1 DEF ReturnFailure
  <2>3. CASE MayRetry(r.task, blocked)
    <3>1. ~retryBlocked[r.task] /\ ~blocked
      BY <2>3 DEF MayRetry
    <3>2. ~retryBlocked'[r.task]
      BY <1>1, <2>2, <3>1, Zenon
    <3>3. state' = [state EXCEPT ![r.task] = "RETRYING"]
      BY <2>1, <2>3 DEF ReturnFailure
    <3>4. \A u \in Tasks : u # r.task => state'[u] = state[u] /\ retryBlocked'[u] = retryBlocked[u]
      BY <1>1, <2>2, <3>3
    <3> QED BY <1>1, <1>3, <2>2, <3>2, <3>4
  <2>4. CASE ~MayRetry(r.task, blocked)
    <3>1. state' = [state EXCEPT ![r.task] = "FAILED"]
      BY <2>1, <2>4 DEF ReturnFailure
    <3>2. \A u \in Tasks : u # r.task => state'[u] = state[u] /\ retryBlocked'[u] = retryBlocked[u]
      BY <1>1, <2>2, <3>1
    <3>3. state'[r.task] = "FAILED"
      BY <1>1, <3>1
    <3> QED BY <1>1, <1>3, <2>2, <3>2, <3>3
  <2> QED BY <2>3, <2>4
<1>7. CASE EndRun(r) /\ UNCHANGED taskVars
  <2>1. Consistent(workers, available \cup {r.worker}, Released(r.worker), runs \ {r})
    BY <1>1, EndConsistent
  <2>2. PICK S \in SUBSET Tasks : Starts(S, state, runs \ {r})
    BY <1>1, <1>7, <2>1, DrainStarts DEF EndRun
  <2>3. \A u \in Tasks : Busy(runs \ {r}, u) => Busy(runs, u)
    BY DEF Busy
  <2> QED BY <1>1, <1>7, <2>2, <2>3, StartsBlock DEF taskVars
<1> QED BY <1>4, <1>5, <1>6, <1>7 DEF Return, RunSaved, ReturnSuccessRefused

\* One step of the orchestrator.
LEMMA StepBlock == IInv /\ BlockInv /\ [Next]_vars => BlockInv'
<1> SUFFICES ASSUME IInv, BlockInv, [Next]_vars PROVE BlockInv'
  OBVIOUS
<1>1. CASE UNCHANGED vars
  BY <1>1 DEF vars, taskVars, poolVars, BlockInv, Unwinding, BlockedNeverRetried, Executing
<1>2. ASSUME NEW w \in Workers, AddWorker(w)
      PROVE  BlockInv'
  <2>1. /\ state \in [Tasks -> States] /\ pending \in Seq(Tasks)
        /\ Consistent(workers \cup {w}, available \cup {w}, assignment, runs)
    BY <1>2, AddConsistent DEF IInv, TypeOK, States, AddWorker
  <2>2. PICK S \in SUBSET Tasks : Starts(S, state, runs)
    BY <1>2, <2>1, DrainStarts DEF AddWorker
  <2>3. \A u \in Tasks : /\ Busy(runs, u) =>
                               state[u] \in RunningLike \cup {"CANCELLED", "PAUSED", "QUEUED"}
                         /\ state[u] = "RETRYING" => ~retryBlocked[u]
    BY DEF BlockInv, Unwinding, BlockedNeverRetried, Executing, Busy
  <2> QED BY <1>2, <2>2, <2>3, StartsBlock DEF AddWorker, taskVars
<1>3. ASSUME NEW t \in Tasks, Progress(t)
      PROVE  BlockInv'
  <2>1. PICK waiting \in BOOLEAN, phase \in {"waiting", "released", "timed-out"}, stage \in FlowStages :
          ProgressUpdate(t, waiting, phase, stage)
    BY <1>3 DEF Progress
  <2>2. Executing(t) /\ runs' = runs /\ retryBlocked' = retryBlocked
    BY <2>1 DEF ProgressUpdate, taskVars, poolVars
  <2>3. state[t] \in RunningLike \cup {"CANCELLED", "PAUSED", "QUEUED"}
    BY <2>2 DEF BlockInv, Unwinding
  <2>4. /\ \A u \in Tasks : u # t => state'[u] = state[u]
        /\ state'[t] \in RunningLike \/ state'[t] = state[t]
    BY <2>1, <2>3, ProgressEffect
  <2>5. state'[t] \in RunningLike \cup {"CANCELLED", "PAUSED", "QUEUED"} /\ state'[t] # "RETRYING"
    BY <2>3, <2>4 DEF RunningLike
  <2> QED BY <2>2, <2>4, <2>5 DEF BlockInv, Unwinding, BlockedNeverRetried, Executing
<1> QED BY <1>1, <1>2, <1>3, CommandBlock, WakeBlock, RunBlock DEF Next

\* No task waits for its retry at start-up.
LEMMA InitBlock == Init => BlockInv
<1> SUFFICES ASSUME Init PROVE BlockInv
  OBVIOUS
<1>1. \A s \in TaskState \cup {"ABSENT"} : Restored(s) # "RETRYING"
  BY DEF Restored, RecoverableActive
<1> QED BY <1>1 DEF Init, BlockInv, Unwinding, BlockedNeverRetried, Executing

-------------------------------------------------------------------------------
(* The state shown and the live calls, for an executor that reports success  *)
(* only from a state that can complete.                                       *)

\* In each state of task t: whether a call executes it, and whether that call is marked as
\* interrupted.  A resumed task, QUEUED again, is told from a fresh one by its mark only.
Agrees(s, busy, marked) ==
  /\ s \in RunningLike => busy
  /\ marked <=> busy /\ s \in {"PAUSED", "QUEUED"}

MarkInv == \A t \in Tasks : Agrees(state[t], Executing(t), t \in pausedRunning)

ResultInv == IInv /\ BlockInv /\ MarkInv

\* Starting tasks keeps it, if it holds for the states and calls they start from.
LEMMA StartsMark ==
  ASSUME NEW S, NEW st, NEW calls, Starts(S, st, calls), pausedRunning' = pausedRunning,
         \A t \in Tasks : Agrees(st[t], Busy(calls, t), t \in pausedRunning)
  PROVE  MarkInv'
<1>1. ASSUME NEW t \in Tasks
      PROVE  Agrees(state'[t], Busy(runs', t), t \in pausedRunning')
  <2>1. CASE t \in S
    <3>1. state'[t] = "RUNNING" /\ Busy(runs', t) /\ ~Busy(calls, t) /\ st[t] = "QUEUED"
      BY <2>1 DEF Starts, Busy
    <3> QED BY <3>1 DEF Agrees
  <2>2. CASE t \notin S
    <3>1. state'[t] = st[t] /\ (Busy(runs', t) <=> Busy(calls, t))
      BY <2>2 DEF Starts
    <3> QED BY <3>1 DEF Agrees
  <2> QED BY <2>1, <2>2
<1> QED BY <1>1 DEF MarkInv, Executing, Busy

\* A step that changes state and mark of one task only keeps it, if it holds of that task.
LEMMA OneMark ==
  ASSUME MarkInv, NEW t \in Tasks,
         \A u \in Tasks : u # t => /\ state'[u] = state[u]
                                   /\ (u \in pausedRunning') <=> (u \in pausedRunning)
                                   /\ Busy(runs', u) <=> Busy(runs, u),
         Agrees(state'[t], Busy(runs', t), t \in pausedRunning')
  PROVE  MarkInv'
<1>1. \A u \in Tasks : u # t => Agrees(state[u], Busy(runs, u), u \in pausedRunning)
  BY DEF MarkInv, Executing, Busy
<1>2. \A u \in Tasks : Agrees(state'[u], Busy(runs', u), u \in pausedRunning')
  BY <1>1 DEF Agrees
<1> QED BY <1>2 DEF MarkInv, Executing, Busy

\* What ResultInv says of a task.
LEMMA MarkFacts ==
  ASSUME ResultInv, NEW t \in Tasks
  PROVE  /\ state[t] \in States
         /\ Agrees(state[t], Busy(runs, t), t \in pausedRunning)
         /\ Busy(runs, t) => state[t] \in RunningLike \cup {"CANCELLED", "PAUSED", "QUEUED"}
BY DEF ResultInv, IInv, TypeOK, States, BlockInv, Unwinding, MarkInv, Executing, Busy

\* The commands of the user keep it.
LEMMA CommandMark ==
  ASSUME ResultInv, NEW t \in Tasks, Command(t)
  PROVE  MarkInv'
<1>1. /\ IInv /\ MarkInv
      /\ state \in [Tasks -> States]
      /\ Agrees(state[t], Busy(runs, t), t \in pausedRunning)
      /\ Busy(runs, t) => state[t] \in RunningLike \cup {"CANCELLED", "PAUSED", "QUEUED"}
  BY MarkFacts DEF ResultInv, IInv, TypeOK, States
<1>2. CASE StartTask(t)
  <2>1. PICK S \in SUBSET {t} : Starts(S, state, runs)
    BY <1>1, <1>2, BeginStarts DEF StartTask
  <2>2. \A u \in Tasks : Agrees(state[u], Busy(runs, u), u \in pausedRunning)
    BY <1>1 DEF MarkInv, Executing, Busy
  <2> QED BY <1>2, <2>1, <2>2, StartsMark DEF StartTask
<1>3. CASE CreateTask(t)
  <2>1. state' = [state EXCEPT ![t] = "QUEUED"] /\ runs' = runs /\ pausedRunning' = pausedRunning
    BY <1>3 DEF CreateTask, poolVars
  <2>2. ~Busy(runs, t)
    BY <1>1, <1>3 DEF CreateTask, RunningLike
  <2>3. Agrees(state'[t], Busy(runs', t), t \in pausedRunning')
    BY <1>1, <2>1, <2>2 DEF Agrees, RunningLike
  <2> QED BY <1>1, <2>1, <2>3, OneMark
<1>4. CASE PauseTask(t)
  <2>1. state' = [state EXCEPT ![t] = "PAUSED"] /\ runs' = runs /\ pausedRunning' = PauseMarks(t)
    BY <1>4 DEF PauseTask, poolVars
  <2>2. state[t] # "CANCELLED"
    BY <1>4 DEF PauseTask, CanTransition, Transitions
  <2>3. Agrees(state'[t], Busy(runs', t), t \in pausedRunning')
    BY <1>1, <2>1, <2>2 DEF Agrees, RunningLike, PauseMarks
  <2>4. \A u \in Tasks : u # t => (u \in pausedRunning' <=> u \in pausedRunning)
    BY <2>1 DEF PauseMarks
  <2> QED BY <1>1, <2>1, <2>3, <2>4, OneMark
<1>5. CASE PauseRefused(t)
  BY <1>1, <1>5 DEF PauseRefused, MarkInv, Executing, poolVars
<1>6. CASE ResumeTask(t)
  <2>1. state' = [state EXCEPT ![t] = "QUEUED"] /\ runs' = runs /\ pausedRunning' = pausedRunning
    BY <1>6 DEF ResumeTask, poolVars
  <2>2. Agrees(state'[t], Busy(runs', t), t \in pausedRunning')
    BY <1>1, <1>6, <2>1 DEF Agrees, RunningLike, ResumeTask
  <2> QED BY <1>1, <2>1, <2>2, OneMark
<1>7. CASE CancelTask(t)
  <2>1. runs' = runs /\ pausedRunning' = pausedRunning \ {t}
    BY <1>7 DEF CancelTask, poolVars
  <2>2. CASE CanTransition(state[t], "CANCELLED")
    <3>1. state' = [state EXCEPT ![t] = "CANCELLED"]
      BY <1>7, <2>2 DEF CancelTask
    <3>2. Agrees(state'[t], Busy(runs', t), t \in pausedRunning')
      BY <1>1, <2>1, <3>1 DEF Agrees, RunningLike
    <3> QED BY <1>1, <2>1, <3>1, <3>2, OneMark
  <2>3. CASE ~CanTransition(state[t], "CANCELLED")
    <3>1. state' = state
      BY <1>7, <2>3 DEF CancelTask
    <3>2. \A s \in RunningLike \cup {"PAUSED", "QUEUED"} : CanTransition(s, "CANCELLED")
      BY DEF CanTransition, Transitions, TaskState, RunningLike, Exits
    <3>3. t \notin pausedRunning
      BY <1>1, <2>3, <3>2 DEF Agrees
    <3> QED BY <1>1, <2>1, <3>1, <3>3 DEF MarkInv, Executing
  <2> QED BY <2>2, <2>3
<1> QED BY <1>2, <1>3, <1>4, <1>5, <1>6, <1>7 DEF Command

\* Saves and timers keep it.
LEMMA WakeMark ==
  ASSUME ResultInv, NEW t \in Tasks,
         PauseSaved(t) \/ ResumeSaved(t) \/ SaveFails(t) \/ RetryFires(t)
  PROVE  MarkInv'
<1>1. /\ IInv /\ MarkInv
      /\ state \in [Tasks -> States] /\ pending \in Seq(Tasks)
      /\ Consistent(workers, available, assignment, runs)
      /\ \A u \in Tasks : Agrees(state[u], Busy(runs, u), u \in pausedRunning)
  BY DEF ResultInv, IInv, TypeOK, States, MarkInv, Executing, Busy
<1>2. CASE PauseSaved(t)
  <2>1. PICK S \in SUBSET Tasks : Starts(S, state, runs)
    BY <1>1, <1>2, DrainStarts DEF PauseSaved
  <2> QED BY <1>1, <1>2, <2>1, StartsMark DEF PauseSaved
<1>3. CASE ResumeSaved(t)
  <2>1. Enqueue(pending, t) \in Seq(Tasks)
    BY <1>1, EnqueueFacts
  <2>2. PICK S \in SUBSET Tasks : Starts(S, state, runs)
    BY <1>1, <1>3, <2>1, DrainStarts DEF ResumeSaved
  <2> QED BY <1>1, <1>3, <2>2, StartsMark DEF ResumeSaved
<1>4. CASE SaveFails(t)
  BY <1>1, <1>4 DEF SaveFails, MarkInv, Executing, poolVars
<1>5. CASE RetryFires(t) /\ state[t] = "RETRYING"
  <2> DEFINE st == [state EXCEPT ![t] = "QUEUED"]
  <2>1. st \in [Tasks -> States] /\ st[t] = "QUEUED" /\ \A u \in Tasks : u # t => st[u] = state[u]
    BY <1>1 DEF States, TaskState
  <2>2. BeginTask(t, st)
    BY <1>5 DEF RetryFires
  <2> HIDE DEF st
  <2>3. PICK S \in SUBSET {t} : Starts(S, st, runs)
    BY <1>1, <2>1, <2>2, BeginStarts
  <2>4. ~Busy(runs, t)
    BY <1>5, MarkFacts DEF RunningLike
  <2>5. \A u \in Tasks : Agrees(st[u], Busy(runs, u), u \in pausedRunning)
    BY <1>1, <2>1, <2>4 DEF Agrees, RunningLike
  <2> QED BY <1>5, <2>3, <2>5, StartsMark DEF RetryFires
<1>6. CASE RetryFires(t) /\ state[t] # "RETRYING"
  BY <1>1, <1>6 DEF RetryFires, MarkInv, Executing
<1> QED BY <1>2, <1>3, <1>4, <1>5, <1>6

\* What the result of a run does to the state of its task.
LEMMA ReturnEffect ==
  ASSUME ResultInv, OrderedProgress, NEW r \in runs, Return(r)
  PROVE  /\ r.task \in Tasks /\ r.phase = "executing" /\ BeginSave(r)
         /\ \/ /\ Interrupted(r.task) /\ state' = state
               /\ pausedRunning' = pausedRunning \ {r.task}
            \/ /\ state[r.task] \in RunningLike /\ pausedRunning' = pausedRunning
               /\ \E to \in {"SUCCESS", "FAILED", "RETRYING"} :
                    state' = [state EXCEPT ![r.task] = to]
         /\ workers' = workers
<1>1. r.task \in Tasks
  BY DEF ResultInv, IInv, TypeOK, Run
<1>2. ~ReturnSuccessRefused(r)
  BY DEF ReturnSuccessRefused
<1>3. r.phase = "executing" /\ ~Interrupted(r.task) => state[r.task] \in RunningLike
  <2>1. r.phase = "executing" => Busy(runs, r.task)
    BY DEF Busy
  <2> QED BY <1>1, <2>1, MarkFacts DEF Interrupted, Agrees
<1>4. CASE ReturnInterrupted(r)
  BY <1>1, <1>4 DEF ReturnInterrupted
<1>5. CASE ReturnSuccess(r)
  BY <1>1, <1>3, <1>5 DEF ReturnSuccess
<1>6. CASE \E blocked \in BOOLEAN : ReturnFailure(r, blocked)
  BY <1>1, <1>3, <1>6 DEF ReturnFailure
<1> QED BY <1>2, <1>4, <1>5, <1>6 DEF Return

\* The result of a run, and its end, keep it.
LEMMA RunMark ==
  ASSUME ResultInv, OrderedProgress, NEW r \in runs, Return(r) \/ RunSaved(r)
  PROVE  MarkInv'
<1>1. /\ IInv /\ MarkInv /\ state \in [Tasks -> States] /\ r.task \in Tasks
      /\ \A u \in Tasks : Agrees(state[u], Busy(runs, u), u \in pausedRunning)
  BY DEF ResultInv, IInv, TypeOK, States, Run, MarkInv, Executing, Busy
<1>2. CASE Return(r)
  <2>1. /\ r.phase = "executing" /\ BeginSave(r)
        /\ \/ /\ Interrupted(r.task) /\ state' = state
              /\ pausedRunning' = pausedRunning \ {r.task}
           \/ /\ state[r.task] \in RunningLike /\ pausedRunning' = pausedRunning
              /\ \E to \in {"SUCCESS", "FAILED", "RETRYING"} :
                   state' = [state EXCEPT ![r.task] = to]
    BY <1>2, ReturnEffect
  <2>2. \A u \in Tasks : Busy(runs', u) <=> u # r.task /\ Busy(runs, u)
    BY <1>1, <2>1, SaveEffect
  <2>3. Agrees(state'[r.task], Busy(runs', r.task), r.task \in pausedRunning')
    <3>1. CASE Interrupted(r.task) /\ state' = state /\ pausedRunning' = pausedRunning \ {r.task}
      BY <1>1, <2>2, <3>1 DEF Agrees, Interrupted, RunningLike
    <3>2. CASE /\ state[r.task] \in RunningLike /\ pausedRunning' = pausedRunning
               /\ \E to \in {"SUCCESS", "FAILED", "RETRYING"} :
                    state' = [state EXCEPT ![r.task] = to]
      BY <1>1, <2>2, <3>2 DEF Agrees, RunningLike
    <3> QED BY <2>1, <3>1, <3>2
  <2>4. \A u \in Tasks : u # r.task => /\ state'[u] = state[u]
                                       /\ (u \in pausedRunning') <=> (u \in pausedRunning)
    BY <1>1, <2>1
  <2> QED BY <1>1, <2>2, <2>3, <2>4, OneMark
<1>3. CASE RunSaved(r)
  <2>1. r.phase = "saving" /\ EndRun(r) /\ pausedRunning' = pausedRunning
    BY <1>3 DEF RunSaved
  <2>2. /\ \A u \in Tasks : Busy(runs \ {r}, u) <=> Busy(runs, u)
        /\ \E S \in SUBSET Tasks : Starts(S, state, runs \ {r})
    BY <1>1, <2>1, EndEffect
  <2>3. PICK S \in SUBSET Tasks : Starts(S, state, runs \ {r})
    BY <2>2
  <2>4. \A u \in Tasks : Agrees(state[u], Busy(runs \ {r}, u), u \in pausedRunning)
    BY <1>1, <2>2 DEF Agrees
  <2> QED BY <2>1, <2>3, <2>4, StartsMark
<1> QED BY <1>2, <1>3

\* A new worker and a progress update keep it.
LEMMA OtherMark ==
  ASSUME ResultInv, (\E w \in Workers : AddWorker(w)) \/ (\E t \in Tasks : Progress(t))
  PROVE  MarkInv'
<1>1. /\ IInv /\ MarkInv /\ state \in [Tasks -> States] /\ pending \in Seq(Tasks)
      /\ Consistent(workers, available, assignment, runs)
      /\ \A u \in Tasks : Agrees(state[u], Busy(runs, u), u \in pausedRunning)
  BY DEF ResultInv, IInv, TypeOK, States, MarkInv, Executing, Busy
<1>2. ASSUME NEW w \in Workers, AddWorker(w)
      PROVE  MarkInv'
  <2>1. Consistent(workers \cup {w}, available \cup {w}, assignment, runs)
    BY <1>1, <1>2, AddConsistent DEF AddWorker
  <2>2. PICK S \in SUBSET Tasks : Starts(S, state, runs)
    BY <1>1, <1>2, <2>1, DrainStarts DEF AddWorker
  <2> QED BY <1>1, <1>2, <2>2, StartsMark DEF AddWorker
<1>3. ASSUME NEW t \in Tasks, Progress(t)
      PROVE  MarkInv'
  <2>1. PICK waiting \in BOOLEAN, phase \in {"waiting", "released", "timed-out"}, stage \in FlowStages :
          ProgressUpdate(t, waiting, phase, stage)
    BY <1>3 DEF Progress
  <2>2. Busy(runs, t) /\ runs' = runs /\ pausedRunning' = pausedRunning
    BY <2>1 DEF ProgressUpdate, Executing, Busy, poolVars
  <2>3. state[t] \in RunningLike \cup {"CANCELLED", "PAUSED", "QUEUED"}
    BY <2>2, MarkFacts
  <2>4. /\ \A u \in Tasks : u # t => state'[u] = state[u]
        /\ IF state[t] \in RunningLike THEN state'[t] \in RunningLike ELSE state'[t] = state[t]
    BY <1>1, <2>1, <2>3, ProgressEffect
  <2>5. Agrees(state'[t], Busy(runs', t), t \in pausedRunning')
    BY <1>1, <2>2, <2>4 DEF Agrees, RunningLike
  <2> QED BY <1>1, <2>2, <2>4, <2>5, OneMark
<1> QED BY <1>2, <1>3

\* One step of the orchestrator.
LEMMA StepMark == OrderedProgress /\ ResultInv /\ [Next]_vars => MarkInv'
<1> SUFFICES ASSUME OrderedProgress, ResultInv, [Next]_vars PROVE MarkInv'
  OBVIOUS
<1>1. CASE UNCHANGED vars
  BY <1>1 DEF vars, poolVars, ResultInv, MarkInv, Executing
<1> QED BY <1>1, CommandMark, WakeMark, RunMark, OtherMark DEF Next

\* No call is suspended at start-up.
LEMMA InitMark == Init => MarkInv
<1> SUFFICES ASSUME Init PROVE MarkInv
  OBVIOUS
<1>1. \A s \in TaskState \cup {"ABSENT"} : Restored(s) \notin RunningLike
  BY DEF Restored, RecoverableActive, RunningLike
<1> QED BY <1>1 DEF Init, MarkInv, Agrees, Executing

-------------------------------------------------------------------------------
(* Every step of the orchestrator is one of TaskLifecycle, or none.          *)

Live(calls) == {r.task : r \in calls}

\* The live tasks have a worker each.
LEMMA LiveFit ==
  ASSUME IsFiniteSet(Workers), NEW ws, NEW idle, NEW owner, NEW calls,
         Consistent(ws, idle, owner, calls)
  PROVE  /\ Cardinality(Live(calls)) <= Cardinality(ws)
         /\ Cardinality(ws) <= Cardinality(Workers)
         /\ Cardinality(ws) \in Nat
<1>1. IsFiniteSet(ws) /\ Cardinality(ws) <= Cardinality(Workers)
  BY FS_Subset DEF Consistent
<1> DEFINE L == Live(calls)
           f == [t \in L |-> owner[t]]
<1>2. ASSUME NEW t \in L
      PROVE  t \in Tasks /\ owner[t] \in ws /\ \E r \in calls : r.task = t /\ r.worker = owner[t]
  <2>1. PICK r \in calls : r.task = t
    BY DEF Live
  <2>2. r.task \in Tasks /\ r.worker \in Workers /\ r.worker \in ws
    BY DEF Consistent, Run
  <2>3. owner[t] = r.worker
    BY <2>1, <2>2 DEF Consistent
  <2> QED BY <2>1, <2>2, <2>3
<1>3. ASSUME NEW t \in L, NEW u \in L, owner[t] = owner[u]
      PROVE  t = u
  <2>1. PICK r \in calls : r.task = t /\ r.worker = owner[t]
    BY <1>2
  <2>2. PICK s \in calls : s.task = u /\ s.worker = owner[u]
    BY <1>2
  <2>3. r = s
    BY <1>3, <2>1, <2>2 DEF Consistent
  <2> QED BY <2>1, <2>2, <2>3
<1> HIDE DEF L
<1>4. f \in Injection(L, ws)
  <2>1. f \in [L -> ws]
    BY <1>2
  <2>2. \A t, u \in L : f[t] = f[u] => t = u
    BY <1>3
  <2> QED BY <2>1, <2>2 DEF Injection, IsInjective
<1>5. Cardinality(L) <= Cardinality(ws)
  BY <1>1, <1>4, FS_Injection
<1> QED BY <1>1, <1>5, FS_CardinalityType DEF L

\* The cardinality the instance of TaskLifecycle speaks of.
LEMMA SameCardinality == \A S : Lifecycle!Cardinality(S) = Cardinality(S)
  BY DEF Lifecycle!Cardinality, Cardinality, Lifecycle!IsFiniteSet, IsFiniteSet

\* The tasks S start, the calls of `ended` end, and so many workers are added.
LEMMA TurnStep ==
  ASSUME IsFiniteSet(Workers), IInv, IInv',
         NEW S \in SUBSET Tasks, NEW ended \in SUBSET Tasks, NEW added \in 0 .. 1,
         state' = [t \in Tasks |-> IF t \in S THEN "RUNNING" ELSE state[t]],
         \A t \in S : state[t] \in {"QUEUED", "RETRYING"},
         Live(runs') = (Live(runs) \ ended) \cup S,
         S \cap (Live(runs) \ ended) = {},
         ended \subseteq Live(runs),
         \A t \in ended : state[t] \notin RunningLike,
         Cardinality(ended) + added \in 0 .. 1,
         Cardinality(workers') = Cardinality(workers) + added
  PROVE  Lifecycle!Next
<1>1. /\ Cardinality(Live(runs')) <= Cardinality(workers')
      /\ Cardinality(workers') <= Cardinality(Workers)
  <2>1. Consistent(workers', available', assignment', runs')
    BY DEF IInv
  <2> QED BY <2>1, LiveFit
<1>2. \A t \in S : Shown(state[t]) \in {"waiting", "retrying"}
  BY DEF Shown, RunningLike
<1>3. \A t \in ended : Shown(state[t]) # "running"
  BY DEF Shown
<1>4. [t \in Tasks |-> Shown(state'[t])]
        = [t \in Tasks |-> IF t \in S THEN "running" ELSE [u \in Tasks |-> Shown(state[u])][t]]
  <2>1. Shown("RUNNING") = "running"
    BY DEF Shown, RunningLike
  <2>2. \A t \in Tasks : Shown(state'[t]) = IF t \in S THEN "running" ELSE Shown(state[t])
    BY <2>1
  <2> HIDE DEF Shown
  <2> QED BY <2>2
<1>5. \A t \in Tasks : [u \in Tasks |-> Shown(state[u])][t] = Shown(state[t])
  OBVIOUS
<1> HIDE DEF Shown
<1>6. Lifecycle!Turn(ended, S, added)
  BY <1>1, <1>2, <1>3, <1>4, <1>5, SameCardinality DEF Lifecycle!Turn, Live
<1> QED BY <1>6 DEF Lifecycle!Next

\* A step that leaves workers and live tasks alone, and the state shown of all tasks but t.
LEMMA OneMove ==
  ASSUME NEW t \in Tasks, Live(runs') = Live(runs), workers' = workers,
         state \in [Tasks -> States], state' \in [Tasks -> States],
         \A u \in Tasks : u # t => state'[u] = state[u],
         \/ Shown(state'[t]) = Shown(state[t])
         \/ <<Shown(state[t]), Shown(state'[t])>> \in Lifecycle!UserMoves
         \/ /\ t \in Live(runs) /\ Shown(state[t]) = "running"
            /\ Shown(state'[t]) \in {"over", "retrying"}
         \/ Shown(state[t]) = "retrying" /\ Shown(state'[t]) = "waiting"
  PROVE  [Lifecycle!Next]_(Lifecycle!vars)
<1> DEFINE old == [u \in Tasks |-> Shown(state[u])]
           new == [u \in Tasks |-> Shown(state'[u])]
<1>1. /\ old[t] = Shown(state[t]) /\ new[t] = Shown(state'[t])
      /\ new = [old EXCEPT ![t] = Shown(state'[t])]
  <2> HIDE DEF Shown
  <2> QED OBVIOUS
<1>2. CASE Shown(state'[t]) = Shown(state[t])
  <2>1. new = old
    <3> HIDE DEF Shown
    <3> QED BY <1>2
  <2> QED BY <2>1 DEF Lifecycle!vars, Live
<1> DEFINE to == Shown(state'[t])
<1>3. to \in {"absent", "waiting", "running", "held", "retrying", "over"}
  BY DEF Shown
<1> HIDE DEF to
<1>4. CASE <<Shown(state[t]), Shown(state'[t])>> \in Lifecycle!UserMoves
  <2>1. Lifecycle!User(t)
    BY <1>1, <1>3, <1>4 DEF Lifecycle!User, Lifecycle!Status, Live, to
  <2> QED BY <2>1 DEF Lifecycle!Next
<1>5. CASE /\ t \in Live(runs) /\ Shown(state[t]) = "running"
           /\ Shown(state'[t]) \in {"over", "retrying"}
  <2>1. Lifecycle!Report(t)
    BY <1>1, <1>5 DEF Lifecycle!Report, Live
  <2> QED BY <2>1 DEF Lifecycle!Next
<1>6. CASE Shown(state[t]) = "retrying" /\ Shown(state'[t]) = "waiting"
  <2>1. Lifecycle!RetryWaits(t)
    BY <1>1, <1>6 DEF Lifecycle!RetryWaits, Live
  <2> QED BY <2>1 DEF Lifecycle!Next
<1> QED BY <1>2, <1>4, <1>5, <1>6

\* Starting tasks, after the calls of `ended` ended or a worker was added, is one turn.
LEMMA StartsMove ==
  ASSUME IsFiniteSet(Workers), IInv, IInv',
         NEW ended \in SUBSET Tasks, NEW added \in 0 .. 1, NEW calls, NEW S,
         Starts(S, state, calls),
         Live(calls) = Live(runs) \ ended,
         ended \subseteq Live(runs),
         \A t \in ended : state[t] \notin RunningLike,
         Cardinality(ended) + added \in 0 .. 1,
         Cardinality(workers') = Cardinality(workers) + added
  PROVE  Lifecycle!Next
<1>1. S \in SUBSET Tasks /\ \A t \in S : state[t] = "QUEUED"
  BY DEF Starts
<1>2. state' = [t \in Tasks |-> IF t \in S THEN "RUNNING" ELSE state[t]]
  BY DEF Starts
<1>3. Live(runs') = (Live(runs) \ ended) \cup S
  BY DEF Starts, Live
<1>4. S \cap (Live(runs) \ ended) = {}
  BY DEF Starts, Live
<1> QED BY <1>1, <1>2, <1>3, <1>4, TurnStep

\* The same, when no call ends and no worker is added.
LEMMA QuietStart ==
  ASSUME IsFiniteSet(Workers), IInv, IInv', NEW S, Starts(S, state, runs), workers' = workers
  PROVE  Lifecycle!Next
<1>1. Cardinality(workers) \in Nat
  BY LiveFit DEF IInv
<1>2. Cardinality({}) = 0
  BY FS_EmptySet
<1>3. /\ {} \in SUBSET Tasks /\ {} \subseteq Live(runs) /\ Live(runs) = Live(runs) \ {}
      /\ \A t \in {} : state[t] \notin RunningLike
      /\ Cardinality({}) + 0 \in 0 .. 1 /\ Cardinality(workers') = Cardinality(workers) + 0
      /\ 0 \in 0 .. 1
  BY <1>1, <1>2
<1> QED BY <1>3, StartsMove

\* A command of the user.
LEMMA CommandMaps ==
  ASSUME IsFiniteSet(Workers), ResultInv, IInv', NEW t \in Tasks, Command(t)
  PROVE  [Lifecycle!Next]_(Lifecycle!vars)
<1>1. IInv /\ state \in [Tasks -> States] /\ state' \in [Tasks -> States]
  BY DEF ResultInv, IInv, TypeOK, States
<1>2. CASE StartTask(t)
  <2>1. PICK S \in SUBSET {t} : Starts(S, state, runs)
    BY <1>1, <1>2, BeginStarts DEF StartTask
  <2> QED BY <1>1, <1>2, <2>1, QuietStart DEF StartTask
<1>3. ASSUME NEW to \in States, UNCHANGED <<runs, workers>>, state' = [state EXCEPT ![t] = to],
             <<Shown(state[t]), Shown(to)>> \in Lifecycle!UserMoves
      PROVE  [Lifecycle!Next]_(Lifecycle!vars)
  <2>1. state'[t] = to /\ \A u \in Tasks : u # t => state'[u] = state[u]
    BY <1>1, <1>3
  <2>2. Live(runs') = Live(runs)
    BY <1>3
  <2> HIDE DEF Shown
  <2>3. <<Shown(state[t]), Shown(state'[t])>> \in Lifecycle!UserMoves
    BY <1>3, <2>1
  <2> QED BY <1>1, <1>3, <2>1, <2>2, <2>3, OneMove
<1>4. ASSUME UNCHANGED <<state, runs, workers>>
      PROVE  [Lifecycle!Next]_(Lifecycle!vars)
  BY <1>4 DEF Lifecycle!vars
<1>5. CASE CreateTask(t)
  <2>1. <<Shown(state[t]), Shown("QUEUED")>> \in Lifecycle!UserMoves
    BY <1>5 DEF CreateTask, Shown, RunningLike, Lifecycle!UserMoves
  <2>2. "QUEUED" \in States
    BY DEF States, TaskState
  <2> QED BY <1>3, <1>5, <2>1, <2>2 DEF CreateTask, poolVars
<1>6. CASE PauseTask(t)
  <2>1. state[t] \in RunningLike \cup {"QUEUED", "RETRYING"}
    BY <1>1, <1>6 DEF PauseTask, CanTransition, Transitions, TaskState, Exits, RunningLike
  <2>2. <<Shown(state[t]), Shown("PAUSED")>> \in Lifecycle!UserMoves
    BY <2>1 DEF Shown, RunningLike, Lifecycle!UserMoves
  <2>3. "PAUSED" \in States
    BY DEF States, TaskState
  <2> QED BY <1>3, <1>6, <2>2, <2>3 DEF PauseTask, poolVars
<1>7. CASE PauseRefused(t)
  BY <1>4, <1>7 DEF PauseRefused, poolVars
<1>8. CASE ResumeTask(t)
  <2>1. <<Shown(state[t]), Shown("QUEUED")>> \in Lifecycle!UserMoves
    BY <1>8 DEF ResumeTask, Shown, RunningLike, Lifecycle!UserMoves
  <2>2. "QUEUED" \in States
    BY DEF States, TaskState
  <2> QED BY <1>3, <1>8, <2>1, <2>2 DEF ResumeTask, poolVars
<1>9. CASE CancelTask(t) /\ CanTransition(state[t], "CANCELLED")
  <2>1. state[t] \in RunningLike \cup {"QUEUED", "PAUSED"}
    BY <1>1, <1>9 DEF CanTransition, Transitions, TaskState, Exits, RunningLike
  <2>2. <<Shown(state[t]), Shown("CANCELLED")>> \in Lifecycle!UserMoves
    BY <2>1 DEF Shown, RunningLike, Lifecycle!UserMoves
  <2>3. "CANCELLED" \in States
    BY DEF States, TaskState
  <2> QED BY <1>3, <1>9, <2>2, <2>3 DEF CancelTask, poolVars
<1>10. CASE CancelTask(t) /\ ~CanTransition(state[t], "CANCELLED")
  BY <1>4, <1>10 DEF CancelTask, poolVars
<1> QED BY <1>2, <1>5, <1>6, <1>7, <1>8, <1>9, <1>10 DEF Command

\* The timer of a retry: the task starts at once, or it waits.
LEMMA RetryMaps ==
  ASSUME IsFiniteSet(Workers), ResultInv, IInv', NEW t \in Tasks, RetryFires(t)
  PROVE  [Lifecycle!Next]_(Lifecycle!vars)
<1>1. /\ IInv /\ state \in [Tasks -> States] /\ state' \in [Tasks -> States]
      /\ workers' = workers
  BY DEF ResultInv, IInv, TypeOK, States, RetryFires
<1>2. CASE state[t] # "RETRYING"
  BY <1>1, <1>2 DEF RetryFires, Lifecycle!vars
<1>3. CASE state[t] = "RETRYING"
  <2> DEFINE st == [state EXCEPT ![t] = "QUEUED"]
  <2>1. st \in [Tasks -> States] /\ st[t] = "QUEUED" /\ \A u \in Tasks : u # t => st[u] = state[u]
    BY <1>1 DEF States, TaskState
  <2>2. BeginTask(t, st)
    BY <1>3 DEF RetryFires
  <2> HIDE DEF st
  <2>3. PICK S \in SUBSET {t} : Starts(S, st, runs)
    BY <1>1, <2>1, <2>2, BeginStarts
  <2>4. CASE t \notin S
    <3>1. S = {} /\ state'[t] = "QUEUED" /\ \A u \in Tasks : u # t => state'[u] = state[u]
      BY <2>1, <2>3, <2>4 DEF Starts
    <3>2. Live(runs') = Live(runs)
      BY <2>3, <3>1 DEF Starts, Live
    <3>3. Shown(state[t]) = "retrying" /\ Shown(state'[t]) = "waiting"
      BY <1>3, <3>1 DEF Shown, RunningLike
    <3> HIDE DEF Shown
    <3> QED BY <1>1, <3>1, <3>2, <3>3, OneMove
  <2>5. CASE t \in S
    <3>1. S = {t} /\ S \in SUBSET Tasks
      BY <2>5
    <3>2. state' = [u \in Tasks |-> IF u \in S THEN "RUNNING" ELSE state[u]]
      BY <2>1, <2>3, <3>1 DEF Starts
    <3>3. \A u \in S : state[u] \in {"QUEUED", "RETRYING"}
      BY <1>3, <3>1
    <3>4. Live(runs') = (Live(runs) \ {}) \cup S /\ S \cap (Live(runs) \ {}) = {}
      BY <2>3 DEF Starts, Live
    <3>5. Cardinality(workers) \in Nat /\ Cardinality({}) = 0
      BY <1>1, LiveFit, FS_EmptySet DEF IInv
    <3>6. /\ {} \in SUBSET Tasks /\ {} \subseteq Live(runs) /\ 0 \in 0 .. 1
          /\ \A u \in {} : state[u] \notin RunningLike
          /\ Cardinality({}) + 0 \in 0 .. 1 /\ Cardinality(workers') = Cardinality(workers) + 0
      BY <1>1, <3>5
    <3> QED BY <1>1, <3>1, <3>2, <3>3, <3>4, <3>6, TurnStep
  <2> QED BY <2>4, <2>5
<1> QED BY <1>2, <1>3

\* The result of a run, and its end.
LEMMA RunMaps ==
  ASSUME IsFiniteSet(Workers), OrderedProgress, ResultInv, IInv',
         NEW r \in runs, Return(r) \/ RunSaved(r)
  PROVE  [Lifecycle!Next]_(Lifecycle!vars)
<1>1. /\ IInv /\ state \in [Tasks -> States] /\ state' \in [Tasks -> States]
      /\ r.task \in Tasks
  BY DEF ResultInv, IInv, TypeOK, States, Run
<1>2. r.task \in Live(runs)
  BY DEF Live
<1>3. CASE Return(r)
  <2>1. /\ BeginSave(r) /\ workers' = workers
        /\ \/ state' = state
           \/ /\ state[r.task] \in RunningLike
              /\ \E to \in {"SUCCESS", "FAILED", "RETRYING"} : state' = [state EXCEPT ![r.task] = to]
    BY <1>3, ReturnEffect
  <2>2. Live(runs') = Live(runs)
    BY <1>1, <2>1, SaveEffect DEF Live
  <2>3. CASE state' = state
    BY <2>1, <2>2, <2>3 DEF Lifecycle!vars, Live
  <2>4. ASSUME NEW to \in {"SUCCESS", "FAILED", "RETRYING"}, state[r.task] \in RunningLike,
               state' = [state EXCEPT ![r.task] = to]
        PROVE  [Lifecycle!Next]_(Lifecycle!vars)
    <3>1. state'[r.task] = to /\ \A u \in Tasks : u # r.task => state'[u] = state[u]
      BY <1>1, <2>4
    <3>2. Shown(state[r.task]) = "running"
      BY <2>4 DEF Shown, RunningLike
    <3>3. Shown(state'[r.task]) \in {"over", "retrying"}
      BY <2>4, <3>1 DEF Shown, RunningLike
    <3> HIDE DEF Shown
    <3> QED BY <1>1, <1>2, <2>1, <2>2, <3>1, <3>2, <3>3, OneMove
  <2> QED BY <2>1, <2>3, <2>4
<1>4. CASE RunSaved(r)
  <2>1. r.phase = "saving" /\ EndRun(r) /\ workers' = workers
    BY <1>4 DEF RunSaved
  <2>2. /\ ~Busy(runs, r.task)
        /\ Live(runs \ {r}) = Live(runs) \ {r.task}
        /\ \E S \in SUBSET Tasks : Starts(S, state, runs \ {r})
    BY <1>1, <2>1, EndEffect DEF Live
  <2>3. state[r.task] \notin RunningLike
    BY <1>1, <2>2, MarkFacts DEF Agrees
  <2>4. PICK S \in SUBSET Tasks : Starts(S, state, runs \ {r})
    BY <2>2
  <2>5. Cardinality({r.task}) = 1 /\ Cardinality(workers) \in Nat
    BY <1>1, LiveFit, FS_Singleton DEF IInv
  <2>6. /\ {r.task} \in SUBSET Tasks /\ {r.task} \subseteq Live(runs) /\ 0 \in 0 .. 1
        /\ \A u \in {r.task} : state[u] \notin RunningLike
        /\ Cardinality({r.task}) + 0 \in 0 .. 1
        /\ Cardinality(workers') = Cardinality(workers) + 0
    BY <1>1, <1>2, <2>1, <2>3, <2>5
  <2> QED BY <1>1, <2>2, <2>4, <2>6, StartsMove
<1> QED BY <1>3, <1>4

\* A save that ended or failed, a new worker, a progress update.
LEMMA OtherMaps ==
  ASSUME IsFiniteSet(Workers), ResultInv, IInv',
         \/ \E w \in Workers : AddWorker(w)
         \/ \E t \in Tasks : PauseSaved(t) \/ ResumeSaved(t) \/ SaveFails(t) \/ Progress(t)
  PROVE  [Lifecycle!Next]_(Lifecycle!vars)
<1>1. /\ IInv /\ state \in [Tasks -> States] /\ state' \in [Tasks -> States]
      /\ pending \in Seq(Tasks)
      /\ Consistent(workers, available, assignment, runs)
  BY DEF ResultInv, IInv, TypeOK, States
<1>2. ASSUME NEW w \in Workers, AddWorker(w)
      PROVE  Lifecycle!Next
  <2>1. w \notin workers /\ workers' = workers \cup {w}
    BY <1>2 DEF AddWorker
  <2>2. PICK S \in SUBSET Tasks : Starts(S, state, runs)
    BY <1>1, <1>2, <2>1, AddConsistent, DrainStarts DEF AddWorker
  <2>3. Cardinality(workers') = Cardinality(workers) + 1
    BY <1>1, <2>1, FS_Subset, FS_AddElement DEF Consistent
  <2>4. /\ {} \in SUBSET Tasks /\ {} \subseteq Live(runs) /\ Live(runs) = Live(runs) \ {}
        /\ \A t \in {} : state[t] \notin RunningLike
        /\ Cardinality({}) + 1 \in 0 .. 1 /\ 1 \in 0 .. 1
    BY FS_EmptySet
  <2> QED BY <1>1, <2>2, <2>3, <2>4, StartsMove
<1>3. ASSUME NEW t \in Tasks, PauseSaved(t)
      PROVE  Lifecycle!Next
  <2>1. PICK S \in SUBSET Tasks : Starts(S, state, runs)
    BY <1>1, <1>3, DrainStarts DEF PauseSaved
  <2> QED BY <1>1, <1>3, <2>1, QuietStart DEF PauseSaved
<1>4. ASSUME NEW t \in Tasks, ResumeSaved(t)
      PROVE  Lifecycle!Next
  <2>1. Enqueue(pending, t) \in Seq(Tasks)
    BY <1>1, EnqueueFacts
  <2>2. PICK S \in SUBSET Tasks : Starts(S, state, runs)
    BY <1>1, <1>4, <2>1, DrainStarts DEF ResumeSaved
  <2> QED BY <1>1, <1>4, <2>2, QuietStart DEF ResumeSaved
<1>5. ASSUME NEW t \in Tasks, SaveFails(t)
      PROVE  [Lifecycle!Next]_(Lifecycle!vars)
  BY <1>5 DEF SaveFails, poolVars, Lifecycle!vars
<1>6. ASSUME NEW t \in Tasks, Progress(t)
      PROVE  [Lifecycle!Next]_(Lifecycle!vars)
  <2>1. PICK waiting \in BOOLEAN, phase \in {"waiting", "released", "timed-out"}, stage \in FlowStages :
          ProgressUpdate(t, waiting, phase, stage)
    BY <1>6 DEF Progress
  <2>2. Busy(runs, t) /\ runs' = runs /\ workers' = workers
    BY <2>1 DEF ProgressUpdate, Executing, Busy, poolVars
  <2>3. state[t] \in RunningLike \cup {"CANCELLED", "PAUSED", "QUEUED"}
    BY <2>2, MarkFacts
  <2>4. /\ \A u \in Tasks : u # t => state'[u] = state[u]
        /\ IF state[t] \in RunningLike THEN state'[t] \in RunningLike ELSE state'[t] = state[t]
    BY <1>1, <2>1, <2>3, ProgressEffect
  <2>5. Shown(state'[t]) = Shown(state[t])
    BY <2>4 DEF Shown, RunningLike
  <2>6. Live(runs') = Live(runs)
    BY <2>2
  <2> HIDE DEF Shown
  <2> QED BY <1>1, <2>2, <2>4, <2>5, <2>6, OneMove
<1> QED BY <1>2, <1>3, <1>4, <1>5, <1>6

\* Every step of the orchestrator, put together.
LEMMA StepMaps ==
  IsFiniteSet(Workers) /\ OrderedProgress /\ ResultInv /\ IInv' /\ [Next]_vars
    => [Lifecycle!Next]_(Lifecycle!vars)
<1> SUFFICES ASSUME IsFiniteSet(Workers), OrderedProgress, ResultInv, IInv', [Next]_vars
             PROVE  [Lifecycle!Next]_(Lifecycle!vars)
  OBVIOUS
<1>1. CASE UNCHANGED vars
  BY <1>1 DEF vars, poolVars, Lifecycle!vars
<1> QED BY <1>1, CommandMaps, RetryMaps, RunMaps, OtherMaps DEF Next

\* A program that starts shows its user a start of TaskLifecycle.
LEMMA InitMaps == Init => Lifecycle!Init
<1> SUFFICES ASSUME Init PROVE Lifecycle!Init
  OBVIOUS
<1>1. PICK stored \in [Tasks -> TaskState \cup {"ABSENT"}] :
        state = [t \in Tasks |-> Restored(stored[t])]
  BY DEF Init
<1>2. \A s \in TaskState \cup {"ABSENT"} : Restored(s) \notin RunningLike \cup {"RETRYING"}
  BY DEF Restored, RecoverableActive, RunningLike
<1>3. \A s : s \notin RunningLike \cup {"RETRYING"} =>
               Shown(s) \in Lifecycle!Status \ {"running", "retrying"}
  BY DEF Shown, Lifecycle!Status
<1>4. \A t \in Tasks : state[t] \notin RunningLike \cup {"RETRYING"}
  BY <1>1, <1>2
<1> HIDE DEF Shown
<1>5. [t \in Tasks |-> Shown(state[t])] \in [Tasks -> Lifecycle!Status \ {"running", "retrying"}]
  BY <1>3, <1>4
<1>6. {r.task : r \in runs} = {}
  BY DEF Init
<1>7. Cardinality(workers) = 0
  BY FS_EmptySet DEF Init
<1> QED BY <1>5, <1>6, <1>7, SameCardinality DEF Lifecycle!Init

-------------------------------------------------------------------------------
(* The theorems.                                                           *)

\* A task whose runs, this one or an earlier one, reported a block is never retried by
\* itself, whatever was paused, resumed or started while the report was under way.
THEOREM NoBlockedRetry == Spec => []BlockedNeverRetried
<1>1. Init => IInv /\ BlockInv
  BY InitInv, InitBlock
<1>2. IInv /\ BlockInv /\ [Next]_vars => (IInv /\ BlockInv)'
  BY StepInv, StepBlock
<1>3. BlockInv => BlockedNeverRetried
  BY DEF BlockInv
<1> QED BY <1>1, <1>2, <1>3, PTL DEF Spec

\* The inductive invariant of the two theorems below, for such an executor: the pool's
\* books, the states a call may leave its task in and the marks of paused calls.
THEOREM ResultInductive == ASSUME OrderedProgress PROVE Spec => []ResultInv
<1>1. Init => ResultInv
  BY InitInv, InitBlock, InitMark DEF ResultInv
<1>2. ResultInv /\ [Next]_vars => ResultInv'
  BY StepInv, StepBlock, StepMark DEF ResultInv
<1> QED BY <1>1, <1>2, PTL DEF Spec

\* A task is shown as running exactly while an uninterrupted call executes it, when the
\* executor reports success only from a state that can complete.
THEOREM ShownIsLive == ASSUME OrderedProgress PROVE Spec => []ShownRunningIsExecuting
<1>1. ResultInv => ShownRunningIsExecuting
  <2> SUFFICES ASSUME ResultInv, NEW t \in Tasks
               PROVE  state[t] \in RunningLike <=> Executing(t) /\ ~Interrupted(t)
    BY DEF ShownRunningIsExecuting
  <2>1. /\ Agrees(state[t], Executing(t), t \in pausedRunning)
        /\ Executing(t) => state[t] \in RunningLike \cup {"CANCELLED", "PAUSED", "QUEUED"}
    BY MarkFacts DEF Busy, Executing
  <2> QED BY <2>1 DEF Agrees, Interrupted, RunningLike
<1> QED BY <1>1, ResultInductive, PTL

\* With finitely many workers the orchestrator implements TaskLifecycle: every step of
\* it is a move of the user, the report of a live run that is shown, a retry that waits
\* or a turn of the pool, or changes nothing the user can see.
THEOREM Refinement ==
  ASSUME OrderedProgress, IsFiniteSet(Workers) PROVE Spec => ImplementsLifecycle
<1>1. ResultInv => IInv
  BY DEF ResultInv
<1>2. ResultInv /\ ResultInv' /\ [Next]_vars => [Lifecycle!Next]_(Lifecycle!vars)
  BY <1>1, StepMaps DEF ResultInv
<1> QED BY <1>2, InitMaps, ResultInductive, PTL DEF Spec, ImplementsLifecycle, Lifecycle!Spec
=============================================================================
