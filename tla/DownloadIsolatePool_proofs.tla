---------------------- MODULE DownloadIsolatePool_proofs ----------------------
(***************************************************************************)
(* Proofs about the isolate pool, for any tasks and any number of workers. *)
(* The safety properties of DownloadIsolatePool follow from one inductive  *)
(* invariant, PoolInv; its heart is what a run of _processQueue may do to  *)
(* the queue, the registers and the workers (QueueHandsOut).               *)
(***************************************************************************)
EXTENDS DownloadIsolatePool, FiniteSetTheorems, SequenceTheorems, TLAPS

(* Nobody queues twice, and each submission that waits is in one place.    *)
OnePlace ==
    /\ \A j, k \in DOMAIN queue : queue[j] = queue[k] => j = k
    /\ \A t \in Tasks : caller[t] # "waiting" =>
         t \notin Range(queue) /\ running[t] = 0 /\ inbox[t] = "none"
    /\ \A t \in Tasks : caller[t] = "waiting" =>
         \/ t \in Range(queue) /\ running[t] = 0 /\ inbox[t] = "none"
         \/ t \notin Range(queue) /\ running[t] # 0 /\ inbox[t] = "none"
         \/ t \notin Range(queue) /\ running[t] = 0 /\ inbox[t] # "none"

(* A submission has a flag exactly while it is under way, and one that was *)
(* cancelled is neither queued nor running.                                *)
Marks ==
    \A t \in Tasks :
        /\ caller[t] = "idle" <=> flag[t] = "absent"
        /\ flag[t] = "cancelled" => t \notin Range(queue) /\ running[t] = 0

(* Before the pool is up nothing is queued or replaced, and nobody waits.  *)
Starting ==
    /\ boot # "ready" => queue = <<>> /\ respawning = {} /\ \A t \in Tasks : caller[t] # "waiting"
    /\ boot = "cold" => \A t \in Tasks : caller[t] # "preparing"
    /\ boot = "ready" => \A i \in Workers : worker[i].iso # "none"

(* A worker that has replied has a task, one that is replaced has none.    *)
Busy ==
    \A i \in Workers :
        /\ worker[i].reply # "none" => worker[i].job # NoTask
        /\ i \in respawning => worker[i].job = NoTask

PoolInv ==
    /\ TypeOK /\ RegistersAgree /\ OnePlace /\ Marks /\ Starting /\ Busy /\ NoIdleStall

-----------------------------------------------------------------------------
(* The queue.                                                              *)
LEMMA Positions ==
    ASSUME NEW q \in Seq(Tasks)
    PROVE  /\ Len(q) \in Nat /\ DOMAIN q = 1 .. Len(q)
           /\ \A j \in 1 .. Len(q) : q[j] \in Tasks
           /\ \A t : t \in Range(q) <=> \E j \in 1 .. Len(q) : q[j] = t
<1>1. Len(q) \in Nat /\ DOMAIN q = 1 .. Len(q)
    OBVIOUS
<1>2. \A j \in 1 .. Len(q) : q[j] \in Tasks
    OBVIOUS
<1> QED
    BY <1>1, <1>2 DEF Range

(* What a run of _processQueue makes of queue q, free workers a, workers w *)
(* and running tasks r: each task that leaves q is on a worker of its own, *)
(* nothing else changes, and a task that stays found no free worker.       *)
HandsOut(q, a, w, r) ==
    /\ queue' \in Seq(Tasks) /\ available' \subseteq a
    /\ worker' \in [Workers -> WorkerStates] /\ running' \in [Tasks -> Workers \cup {0}]
    /\ \A j, k \in DOMAIN queue' : queue'[j] = queue'[k] => j = k
    /\ \A t \in Tasks, i \in Workers : running'[t] = i <=> worker'[i].job = t
    /\ \A t \in Tasks :
         \/ t \in Range(queue') /\ t \in Range(q) /\ running'[t] = 0
         \/ t \notin Range(queue') /\ t \in Range(q) /\ running'[t] # 0
         \/ t \notin Range(queue') /\ t \notin Range(q) /\ running'[t] = r[t]
    /\ \A i \in Workers :
         /\ worker'[i].iso = w[i].iso /\ worker'[i].reply = w[i].reply
         /\ worker'[i].exit = w[i].exit
         /\ i \in available' \/ i \notin a => worker'[i] = w[i]
         /\ worker'[i].job = NoTask => w[i].job = NoTask
    /\ queue' # <<>> => available' = {}

(* That is what it does when the two registers agree. *)
LEMMA QueueHandsOut ==
    ASSUME NEW q \in Seq(Tasks), NEW a \in SUBSET Workers,
           NEW w \in [Workers -> WorkerStates], NEW r \in [Tasks -> Workers \cup {0}],
           ProcessQueue(q, a, w, r),
           \A j, k \in DOMAIN q : q[j] = q[k] => j = k,
           \A t \in Tasks, i \in Workers : r[t] = i <=> w[i].job = t,
           \A t \in Range(q) : r[t] = 0,
           \A i \in a : w[i].job = NoTask
    PROVE  HandsOut(q, a, w, r)
<1> DEFINE k == IF Len(q) < Cardinality(a) THEN Len(q) ELSE Cardinality(a)
<1>1. /\ Len(q) \in Nat /\ DOMAIN q = 1 .. Len(q)
      /\ \A j \in 1 .. Len(q) : q[j] \in Tasks
      /\ \A t : t \in Range(q) <=> \E j \in 1 .. Len(q) : q[j] = t
    BY Positions
<1>18. \A j, m \in 1 .. Len(q) : q[j] = q[m] => j = m
    BY <1>1
<1>2. IsFiniteSet(a) /\ Cardinality(a) \in Nat
    <2>1. IsFiniteSet(Workers)
        BY PoolSizeAssumption, FS_Interval DEF Workers
    <2> QED
        BY <2>1, FS_Subset, FS_CardinalityType
<1>3. k \in Nat /\ k <= Len(q) /\ k <= Cardinality(a) /\ (k < Len(q) => k = Cardinality(a))
    BY <1>1, <1>2
<1>4. PICK to \in Injection(1 .. k, a) :
        /\ queue' = SubSeq(q, k + 1, Len(q))
        /\ available' = a \ Range(to)
        /\ worker' = [i \in Workers |->
                        IF i \in Range(to)
                        THEN [w[i] EXCEPT !.job = q[CHOOSE j \in 1 .. k : to[j] = i]]
                        ELSE w[i]]
        /\ running' = [t \in Tasks |->
                        IF \E j \in 1 .. k : q[j] = t
                        THEN to[CHOOSE j \in 1 .. k : q[j] = t]
                        ELSE r[t]]
    BY DEF ProcessQueue
<1> HIDE DEF k
<1>5. /\ to \in [1 .. k -> a] /\ Range(to) = {to[j] : j \in 1 .. k}
      /\ \A i, j \in 1 .. k : to[i] = to[j] => i = j
    BY <1>4 DEF Injection, IsInjective, Range
<1>6. \A j \in 1 .. k :
        /\ to[j] \in a /\ to[j] \in Workers /\ to[j] # 0 /\ j \in 1 .. Len(q) /\ q[j] \in Tasks
        /\ worker'[to[j]] = [w[to[j]] EXCEPT !.job = q[j]]
        /\ running'[q[j]] = to[j]
    <2> SUFFICES ASSUME NEW j \in 1 .. k
                 PROVE  /\ to[j] \in a /\ to[j] \in Workers /\ to[j] # 0
                        /\ j \in 1 .. Len(q) /\ q[j] \in Tasks
                        /\ worker'[to[j]] = [w[to[j]] EXCEPT !.job = q[j]]
                        /\ running'[q[j]] = to[j]
        OBVIOUS
    <2>1. /\ to[j] \in a /\ to[j] \in Workers /\ j \in 1 .. Len(q) /\ q[j] \in Tasks
          /\ to[j] \in Range(to)
        BY <1>1, <1>3, <1>5
    <2>2. to[j] # 0
        BY <2>1, PoolSizeAssumption DEF Workers
    <2>3. (CHOOSE m \in 1 .. k : to[m] = to[j]) = j
        BY <1>5
    <2>4. \A m \in 1 .. k : q[m] = q[j] => m = j
        BY <1>1, <1>3, <2>1
    <2>5. (CHOOSE m \in 1 .. k : q[m] = q[j]) = j
        BY <2>4
    <2>6. worker'[to[j]] = [w[to[j]] EXCEPT !.job = q[j]]
        BY <1>4, <2>1, <2>3
    <2>7. running'[q[j]] = to[j]
        BY <1>4, <2>1, <2>5
    <2> QED
        BY <2>1, <2>2, <2>6, <2>7
<1>17. \A j \in 1 .. k : /\ worker'[to[j]].job = q[j] /\ worker'[to[j]].iso = w[to[j]].iso
                       /\ worker'[to[j]].reply = w[to[j]].reply
                       /\ worker'[to[j]].exit = w[to[j]].exit
                       /\ worker'[to[j]] \in WorkerStates
    <2> SUFFICES ASSUME NEW j \in 1 .. k
                 PROVE  /\ worker'[to[j]].job = q[j] /\ worker'[to[j]].iso = w[to[j]].iso
                        /\ worker'[to[j]].reply = w[to[j]].reply
                        /\ worker'[to[j]].exit = w[to[j]].exit
                        /\ worker'[to[j]] \in WorkerStates
        OBVIOUS
    <2>1. w[to[j]] \in WorkerStates /\ q[j] \in Tasks
        BY <1>6
    <2>2. worker'[to[j]] = [w[to[j]] EXCEPT !.job = q[j]]
        BY <1>6
    <2> QED
        BY <2>1, <2>2 DEF WorkerStates
<1>7. ASSUME NEW i \in Workers, i \notin Range(to) PROVE worker'[i] = w[i]
    BY <1>4, <1>7
<1>8. ASSUME NEW t \in Tasks, \A j \in 1 .. k : q[j] # t PROVE running'[t] = r[t]
    BY <1>4, <1>8
<1>9. \A i \in Workers : i \in Range(to) => \E j \in 1 .. k : i = to[j]
    BY <1>5
<1>10. /\ queue' \in Seq(Tasks) /\ Len(queue') = Len(q) - k
       /\ \A j \in 1 .. Len(q) - k :
            queue'[j] = q[k + j] /\ k + j \in 1 .. Len(q) /\ k + j \notin 1 .. k
    BY <1>1, <1>3, <1>4
<1>11. worker' \in [Workers -> WorkerStates] /\ running' \in [Tasks -> Workers \cup {0}]
    <2>1. worker' = [i \in Workers |-> worker'[i]] /\ running' = [t \in Tasks |-> running'[t]]
        BY <1>4
    <2>2. ASSUME NEW i \in Workers PROVE worker'[i] \in WorkerStates
        <3>1. CASE i \in Range(to)
            <4>1. PICK j \in 1 .. k : i = to[j]
                BY <1>9, <3>1
            <4> QED
                BY <1>17, <4>1
        <3>2. CASE i \notin Range(to)
            BY <1>7, <3>2
        <3> QED
            BY <3>1, <3>2
    <2>3. ASSUME NEW t \in Tasks PROVE running'[t] \in Workers \cup {0}
        <3>1. CASE \E j \in 1 .. k : q[j] = t
            <4>1. PICK j \in 1 .. k : q[j] = t
                BY <3>1
            <4>2. running'[q[j]] = to[j] /\ to[j] \in Workers
                BY <1>6
            <4> QED
                BY <4>1, <4>2
        <3>2. CASE \A j \in 1 .. k : q[j] # t
            BY <1>8, <3>2
        <3> QED
            BY <3>1, <3>2
    <2> QED
        BY <2>1, <2>2, <2>3
<1>12. \A j, m \in DOMAIN queue' : queue'[j] = queue'[m] => j = m
    <2>1. DOMAIN queue' = 1 .. Len(q) - k
        BY <1>10
    <2>2. ASSUME NEW j \in 1 .. Len(q) - k, NEW m \in 1 .. Len(q) - k, queue'[j] = queue'[m]
          PROVE  j = m
        <3>1. k + j = k + m
            BY <1>1, <1>10, <2>2
        <3> QED
            BY <1>1, <1>3, <3>1
    <2> QED
        BY <2>1, <2>2
<1>13. ASSUME NEW t \in Tasks, NEW i \in Workers PROVE running'[t] = i <=> worker'[i].job = t
    <2>1. CASE \E j \in 1 .. k : q[j] = t
        <3>1. PICK j \in 1 .. k : q[j] = t
            BY <2>1
        <3>2. running'[t] = to[j] /\ r[t] = 0 /\ i # 0
            <4>1. running'[q[j]] = to[j] /\ j \in 1 .. Len(q)
                BY <1>6
            <4>2. t \in Range(q)
                BY <1>1, <3>1, <4>1
            <4>3. i # 0
                BY PoolSizeAssumption DEF Workers
            <4> QED
                BY <3>1, <4>1, <4>2, <4>3
        <3>3. ASSUME i \in Range(to) PROVE running'[t] = i <=> worker'[i].job = t
            <4>1. PICK m \in 1 .. k : i = to[m]
                BY <1>9, <3>3
            <4>2. worker'[i].job = q[m]
                BY <1>17, <4>1
            <4>3. q[m] = q[j] <=> m = j
                <5>1. m \in 1 .. Len(q) /\ j \in 1 .. Len(q)
                    BY <1>6
                <5> QED
                    BY <1>18, <5>1
            <4> QED
                BY <1>5, <3>1, <3>2, <4>1, <4>2, <4>3
        <3>4. ASSUME i \notin Range(to) PROVE running'[t] = i <=> worker'[i].job = t
            BY <1>5, <1>7, <3>2, <3>4
        <3> QED
            BY <3>3, <3>4
    <2>2. CASE \A j \in 1 .. k : q[j] # t
        <3>1. running'[t] = r[t]
            BY <1>8, <2>2
        <3>2. ASSUME i \in Range(to) PROVE r[t] # i /\ worker'[i].job # t
            <4>1. PICK m \in 1 .. k : i = to[m]
                BY <1>9, <3>2
            <4>2. worker'[i].job = q[m] /\ w[i].job = NoTask
                <5>1. worker'[to[m]].job = q[m]
                    BY <1>17
                <5>2. to[m] \in a
                    BY <1>6
                <5> QED
                    BY <4>1, <5>1, <5>2
            <4> QED
                BY <2>2, <4>1, <4>2, NoTaskAssumption
        <3>3. ASSUME i \notin Range(to) PROVE r[t] = i <=> worker'[i].job = t
            BY <1>7, <3>3
        <3> QED
            BY <3>1, <3>2, <3>3
    <2> QED
        BY <2>1, <2>2
<1>14. ASSUME NEW t \in Tasks
       PROVE  \/ t \in Range(queue') /\ t \in Range(q) /\ running'[t] = 0
              \/ t \notin Range(queue') /\ t \in Range(q) /\ running'[t] # 0
              \/ t \notin Range(queue') /\ t \notin Range(q) /\ running'[t] = r[t]
    <2>1. t \in Range(queue') <=> \E j \in 1 .. Len(q) - k : q[k + j] = t
        <3>1. t \in Range(queue') <=> \E j \in 1 .. Len(queue') : queue'[j] = t
            BY <1>10, Positions
        <3> QED
            BY <1>10, <3>1
    <2>2. CASE \E j \in 1 .. k : q[j] = t
        <3>1. PICK j \in 1 .. k : q[j] = t
            BY <2>2
        <3>2. t \notin Range(queue')
            <4>1. ASSUME NEW m \in 1 .. Len(q) - k PROVE q[k + m] # t
                <5>1. j \in 1 .. Len(q)
                    BY <1>6
                <5>2. k + m \in 1 .. Len(q) /\ k + m # j
                    BY <1>10
                <5> QED
                    BY <1>18, <3>1, <5>1, <5>2
            <4> QED
                BY <2>1, <4>1
        <3> QED
            BY <1>1, <1>6, <3>1, <3>2
    <2>3. CASE \E j \in 1 .. Len(q) - k : q[k + j] = t
        <3>1. PICK j \in 1 .. Len(q) - k : q[k + j] = t
            BY <2>3
        <3>2. \A m \in 1 .. k : q[m] # t
            <4> SUFFICES ASSUME NEW m \in 1 .. k PROVE q[m] # t
                OBVIOUS
            <4>1. m \in 1 .. Len(q)
                BY <1>6
            <4>2. k + j \in 1 .. Len(q) /\ k + j # m
                BY <1>10
            <4> QED
                BY <1>18, <3>1, <4>1, <4>2
        <3>3. t \in Range(q) /\ t \in Range(queue') /\ r[t] = 0
            BY <1>1, <1>10, <2>1, <3>1
        <3> QED
            BY <1>8, <3>2, <3>3
    <2>4. CASE /\ \A j \in 1 .. k : q[j] # t
               /\ \A j \in 1 .. Len(q) - k : q[k + j] # t
        <3>1. ASSUME NEW j \in 1 .. Len(q) PROVE q[j] # t
            <4>1. j \in 1 .. k \/ (j - k \in 1 .. Len(q) - k /\ k + (j - k) = j)
                BY <1>1, <1>3
            <4> QED
                BY <2>4, <4>1
        <3> QED
            BY <1>1, <1>8, <2>1, <2>4, <3>1
    <2> QED
        BY <2>2, <2>3, <2>4
<1>15. ASSUME NEW i \in Workers
       PROVE  /\ worker'[i].iso = w[i].iso /\ worker'[i].reply = w[i].reply
              /\ worker'[i].exit = w[i].exit
              /\ i \in available' \/ i \notin a => worker'[i] = w[i]
              /\ worker'[i].job = NoTask => w[i].job = NoTask
    <2>1. CASE i \in Range(to)
        <3>1. PICK m \in 1 .. k : i = to[m]
            BY <1>9, <2>1
        <3> QED
            <4>1. i \in a /\ i \notin available' /\ w[i].job = NoTask
                BY <1>4, <1>6, <2>1, <3>1
            <4>2. q[m] # NoTask
                <5>1. q[m] \in Tasks
                    BY <1>6
                <5> QED
                    BY <5>1, NoTaskAssumption
            <4> QED
                BY <1>17, <3>1, <4>1, <4>2
    <2>2. CASE i \notin Range(to)
        BY <1>7, <2>2
    <2> QED
        BY <2>1, <2>2
<1>16. queue' # <<>> => available' = {}
    <2> SUFFICES ASSUME queue' # <<>> PROVE available' = {}
        OBVIOUS
    <2>1. Len(queue') > 0
        BY <1>10
    <2>2. k = Cardinality(a)
        BY <1>1, <1>3, <1>10, <2>1
    <2>3. Cardinality(1 .. k) = k
        BY <1>3, FS_Interval
    <2>4. to \in Surjection(1 .. k, a)
        BY <1>2, <1>4, <2>2, <2>3, FS_Injection
    <2> QED
        BY <1>4, <2>4 DEF Surjection, Range
<1> QED
    BY <1>4, <1>10, <1>11, <1>12, <1>13, <1>14, <1>15, <1>16 DEF HandsOut

(* What cancelTask does to the queue. *)
LEMMA TakenOut ==
    ASSUME NEW q \in Seq(Tasks), NEW t,
           \A j, k \in DOMAIN q : q[j] = q[k] => j = k
    PROVE  /\ Without(q, t) \in Seq(Tasks)
           /\ \A j, k \in DOMAIN Without(q, t) : Without(q, t)[j] = Without(q, t)[k] => j = k
           /\ \A u : u \in Range(Without(q, t)) <=> u \in Range(q) /\ u # t
<1>1. CASE t \notin Range(q)
    <2>1. Without(q, t) = q
        BY <1>1 DEF Without
    <2> QED
        BY <1>1, <2>1
<1>2. CASE t \in Range(q)
    <2> DEFINE at == CHOOSE j \in DOMAIN q : q[j] = t
               before == SubSeq(q, 1, at - 1)
               after == SubSeq(q, at + 1, Len(q))
               s == before \o after
    <2>1. /\ Len(q) \in Nat /\ DOMAIN q = 1 .. Len(q)
          /\ \A j \in 1 .. Len(q) : q[j] \in Tasks
          /\ \A u : u \in Range(q) <=> \E j \in 1 .. Len(q) : q[j] = u
        BY Positions
    <2>2. \A j, k \in 1 .. Len(q) : q[j] = q[k] => j = k
        BY <2>1
    <2>3. at \in 1 .. Len(q) /\ q[at] = t
        BY <1>2, <2>1
    <2>4. Without(q, t) = s
        BY <1>2 DEF Without
    <2> HIDE DEF at
    <2>5. /\ before \in Seq(Tasks) /\ Len(before) = at - 1
          /\ \A j \in 1 .. at - 1 : before[j] = q[j]
        BY <2>1, <2>3
    <2>6. /\ after \in Seq(Tasks) /\ Len(after) = Len(q) - at
          /\ \A j \in 1 .. Len(q) - at : after[j] = q[at + j]
        <3>1. at + 1 \in Int /\ Len(q) \in Int /\ \A j \in at + 1 .. Len(q) : q[j] \in Tasks
            BY <2>1, <2>3
        <3>2. /\ after \in Seq(Tasks)
              /\ Len(after) = IF at + 1 <= Len(q) THEN Len(q) - (at + 1) + 1 ELSE 0
              /\ \A j \in 1 .. Len(q) - (at + 1) + 1 : after[j] = q[at + 1 + j - 1]
            BY <3>1, SubSeqProperties
        <3> HIDE DEF after
        <3>3. at \in Int /\ Len(q) \in Int /\ at <= Len(q)
            BY <2>1, <2>3
        <3>4. Len(after) = Len(q) - at
            <4>1. CASE at + 1 <= Len(q)
                <5>1. Len(after) = Len(q) - (at + 1) + 1
                    BY <3>2, <4>1
                <5> QED
                    BY <3>3, <5>1
            <4>2. CASE ~(at + 1 <= Len(q))
                <5>1. Len(after) = 0 /\ Len(q) - at = 0
                    BY <3>2, <3>3, <4>2
                <5> QED
                    BY <5>1
            <4> QED
                BY <4>1, <4>2
        <3>5. ASSUME NEW j \in 1 .. Len(q) - at PROVE after[j] = q[at + j]
            <4>1. j \in 1 .. Len(q) - (at + 1) + 1 /\ at + 1 + j - 1 = at + j
                BY <3>3
            <4>2. after[j] = q[at + 1 + j - 1]
                BY <3>2, <4>1
            <4> QED
                BY <4>1, <4>2
        <3> QED
            BY <3>2, <3>4, <3>5
    <2> HIDE DEF before, after
    <2>7. /\ s \in Seq(Tasks) /\ Len(s) = Len(q) - 1
          /\ \A j \in 1 .. Len(q) - 1 :
               s[j] = IF j <= at - 1 THEN before[j] ELSE after[j - (at - 1)]
        <3>1. (at - 1) + (Len(q) - at) = Len(q) - 1
            BY <2>1, <2>3
        <3>2. /\ s \in Seq(Tasks) /\ Len(s) = Len(before) + Len(after)
              /\ \A j \in 1 .. Len(before) + Len(after) :
                   s[j] = IF j <= Len(before) THEN before[j] ELSE after[j - Len(before)]
            BY <2>5, <2>6, ConcatProperties
        <3> HIDE DEF s
        <3>3. Len(before) + Len(after) = Len(q) - 1 /\ Len(before) = at - 1
            BY <2>5, <2>6, <3>1
        <3> QED
            BY <3>2, <3>3
    <2>8. \A j \in 1 .. Len(q) - 1 : s[j] = IF j < at THEN q[j] ELSE q[j + 1]
        <3> SUFFICES ASSUME NEW j \in 1 .. Len(q) - 1
                     PROVE  s[j] = IF j < at THEN q[j] ELSE q[j + 1]
            OBVIOUS
        <3>1. CASE j < at
            <4>1. j \in 1 .. at - 1 /\ j <= at - 1
                BY <2>1, <2>3, <3>1
            <4> QED
                BY <2>5, <2>7, <3>1, <4>1
        <3>2. CASE ~(j < at)
            <4>1. /\ j - (at - 1) \in 1 .. Len(q) - at /\ ~(j <= at - 1)
                  /\ at + (j - (at - 1)) = j + 1
                BY <2>1, <2>3, <3>2
            <4>2. after[j - (at - 1)] = q[j + 1]
                BY <2>6, <4>1
            <4> QED
                BY <2>7, <3>2, <4>1, <4>2
        <3> QED
            BY <3>1, <3>2
    <2> HIDE DEF s
    <2>9. ASSUME NEW j \in DOMAIN s, NEW k \in DOMAIN s, s[j] = s[k] PROVE j = k
        <3>1. j \in 1 .. Len(q) - 1 /\ k \in 1 .. Len(q) - 1
            BY <2>7
        <3>2. /\ j < at => s[j] = q[j] /\ j \in 1 .. Len(q)
              /\ j >= at => s[j] = q[j + 1] /\ j + 1 \in 1 .. Len(q)
              /\ k < at => s[k] = q[k] /\ k \in 1 .. Len(q)
              /\ k >= at => s[k] = q[k + 1] /\ k + 1 \in 1 .. Len(q)
            BY <2>1, <2>3, <2>8, <3>1
        <3>3. /\ j < at /\ k < at => j = k
              /\ j < at /\ k >= at => j = k + 1
              /\ j >= at /\ k < at => j + 1 = k
              /\ j >= at /\ k >= at => j + 1 = k + 1
            BY <2>2, <2>9, <3>2
        <3> QED
            BY <2>1, <2>3, <3>1, <3>3
    <2>10. ASSUME NEW u PROVE u \in Range(s) <=> u \in Range(q) /\ u # t
        <3>1. u \in Range(s) <=> \E j \in 1 .. Len(q) - 1 : s[j] = u
            <4>1. u \in Range(s) <=> \E j \in 1 .. Len(s) : s[j] = u
                BY <2>7, Positions
            <4> QED
                BY <2>7, <4>1
        <3>2. ASSUME NEW j \in 1 .. Len(q) - 1 PROVE s[j] \in Range(q) /\ s[j] # t
            <4>1. CASE j < at
                <5>1. j \in 1 .. Len(q) /\ j # at /\ s[j] = q[j]
                    BY <2>1, <2>3, <2>8, <4>1
                <5> QED
                    BY <2>1, <2>2, <2>3, <5>1
            <4>2. CASE ~(j < at)
                <5>1. j + 1 \in 1 .. Len(q) /\ j + 1 # at /\ s[j] = q[j + 1]
                    BY <2>1, <2>3, <2>8, <4>2
                <5> QED
                    BY <2>1, <2>2, <2>3, <5>1
            <4> QED
                BY <4>1, <4>2
        <3>3. ASSUME u \in Range(q), u # t PROVE \E j \in 1 .. Len(q) - 1 : s[j] = u
            <4>1. PICK m \in 1 .. Len(q) : q[m] = u
                BY <2>1, <3>3
            <4>2. m # at
                BY <2>3, <3>3, <4>1
            <4>3. CASE m < at
                <5>1. m \in 1 .. Len(q) - 1 /\ s[m] = q[m]
                    BY <2>1, <2>3, <2>8, <4>3
                <5> QED
                    BY <4>1, <5>1
            <4>4. CASE m > at
                <5>1. m - 1 \in 1 .. Len(q) - 1 /\ ~(m - 1 < at) /\ (m - 1) + 1 = m
                    BY <2>1, <2>3, <4>4
                <5>2. s[m - 1] = q[m]
                    BY <2>8, <5>1
                <5> QED
                    BY <4>1, <5>1, <5>2
            <4> QED
                BY <2>1, <2>3, <4>2, <4>3, <4>4
        <3> QED
            BY <3>1, <3>2, <3>3
    <2> QED
        BY <2>4, <2>7, <2>9, <2>10
<1> QED
    BY <1>1, <1>2

(* Until the pool is up no worker has a task. *)
LEMMA NothingRuns ==
    ASSUME PoolInv, boot # "ready"
    PROVE  /\ \A t \in Tasks : running[t] = 0 /\ t \notin Range(queue) /\ inbox[t] = "none"
           /\ \A i \in Workers : worker[i].job = NoTask
<1>1. \A t \in Tasks : running[t] = 0 /\ t \notin Range(queue) /\ inbox[t] = "none"
    BY DEF PoolInv, Starting, OnePlace
<1>2. ASSUME NEW i \in Workers PROVE worker[i].job = NoTask
    <2>1. worker[i].job \in Tasks \cup {NoTask}
        BY DEF PoolInv, TypeOK, WorkerStates
    <2>2. i # 0
        BY PoolSizeAssumption DEF Workers
    <2>3. ASSUME NEW t \in Tasks PROVE worker[i].job # t
        BY <1>1, <2>2 DEF PoolInv, RegistersAgree
    <2> QED
        BY <2>1, <2>3
<1> QED
    BY <1>1, <1>2

-----------------------------------------------------------------------------
(* Every step keeps PoolInv.                                               *)

(* A step that ends in _processQueue, from what the step made of the queue,*)
(* the free workers, the workers and the running tasks.                    *)
LEMMA AfterQueue ==
    ASSUME NEW q \in Seq(Tasks), NEW a \in SUBSET Workers,
           NEW w \in [Workers -> WorkerStates], NEW r \in [Tasks -> Workers \cup {0}],
           ProcessQueue(q, a, w, r), boot' = "ready",
           respawning' \subseteq Workers,
           flag' \in [Tasks -> {"absent", "live", "cancelled"}],
           caller' \in [Tasks -> Callers],
           inbox' \in [Tasks -> {"none", "complete", "error"}],
           \A j, k \in DOMAIN q : q[j] = q[k] => j = k,
           \A t \in Tasks, i \in Workers : r[t] = i <=> w[i].job = t,
           \A i \in a : w[i].job = NoTask /\ i \notin respawning',
           \A i \in Workers :
               /\ w[i].iso # "none"
               /\ w[i].reply # "none" => w[i].job # NoTask
               /\ i \in respawning' => w[i].job = NoTask,
           \A t \in Tasks : caller'[t] # "waiting" =>
               t \notin Range(q) /\ r[t] = 0 /\ inbox'[t] = "none",
           \A t \in Tasks : caller'[t] = "waiting" =>
               \/ t \in Range(q) /\ r[t] = 0 /\ inbox'[t] = "none"
               \/ t \notin Range(q) /\ r[t] # 0 /\ inbox'[t] = "none"
               \/ t \notin Range(q) /\ r[t] = 0 /\ inbox'[t] # "none",
           \A t \in Tasks :
               /\ caller'[t] = "idle" <=> flag'[t] = "absent"
               /\ flag'[t] = "cancelled" => t \notin Range(q) /\ r[t] = 0
    PROVE  PoolInv'
<1>1. \A t \in Range(q) : r[t] = 0
    <2>1. \A t \in Range(q) : t \in Tasks
        BY Positions
    <2> QED
        BY <2>1
<1>2. /\ queue' \in Seq(Tasks) /\ available' \subseteq a
      /\ worker' \in [Workers -> WorkerStates] /\ running' \in [Tasks -> Workers \cup {0}]
      /\ \A j, k \in DOMAIN queue' : queue'[j] = queue'[k] => j = k
      /\ \A t \in Tasks, i \in Workers : running'[t] = i <=> worker'[i].job = t
      /\ \A t \in Tasks :
           \/ t \in Range(queue') /\ t \in Range(q) /\ running'[t] = 0
           \/ t \notin Range(queue') /\ t \in Range(q) /\ running'[t] # 0
           \/ t \notin Range(queue') /\ t \notin Range(q) /\ running'[t] = r[t]
      /\ \A i \in Workers :
           /\ worker'[i].iso = w[i].iso /\ worker'[i].reply = w[i].reply
           /\ worker'[i].exit = w[i].exit
           /\ i \in available' \/ i \notin a => worker'[i] = w[i]
           /\ worker'[i].job = NoTask => w[i].job = NoTask
      /\ queue' # <<>> => available' = {}
    <2>1. \A i \in a : w[i].job = NoTask
        OBVIOUS
    <2>2. HandsOut(q, a, w, r)
        BY <1>1, <2>1, QueueHandsOut
    <2> QED
        BY <2>2 DEF HandsOut
<1>3. TypeOK'
    BY <1>2 DEF TypeOK
<1>4. RegistersAgree'
    <2>1. ASSUME NEW i \in available'
          PROVE  worker'[i].job = NoTask /\ worker'[i].iso # "none" /\ i \notin respawning'
        <3>1. i \in a /\ i \in Workers /\ worker'[i] = w[i]
            BY <1>2
        <3> QED
            BY <3>1
    <2> QED
        BY <1>2, <2>1 DEF RegistersAgree
<1>5. OnePlace'
    <2>1. ASSUME NEW t \in Tasks, caller'[t] # "waiting"
          PROVE  t \notin Range(queue') /\ running'[t] = 0 /\ inbox'[t] = "none"
        BY <1>2, <2>1
    <2>2. ASSUME NEW t \in Tasks, caller'[t] = "waiting"
          PROVE  \/ t \in Range(queue') /\ running'[t] = 0 /\ inbox'[t] = "none"
                 \/ t \notin Range(queue') /\ running'[t] # 0 /\ inbox'[t] = "none"
                 \/ t \notin Range(queue') /\ running'[t] = 0 /\ inbox'[t] # "none"
        BY <1>1, <1>2, <2>2
    <2> QED
        BY <1>2, <2>1, <2>2 DEF OnePlace
<1>6. Marks'
    <2>1. ASSUME NEW t \in Tasks
          PROVE  /\ caller'[t] = "idle" <=> flag'[t] = "absent"
                 /\ flag'[t] = "cancelled" => t \notin Range(queue') /\ running'[t] = 0
        BY <1>2
    <2> QED
        BY <2>1 DEF Marks
<1>7. Starting'
    BY <1>2 DEF Starting
<1>8. Busy'
    <2>1. ASSUME NEW i \in Workers
          PROVE  /\ worker'[i].reply # "none" => worker'[i].job # NoTask
                 /\ i \in respawning' => worker'[i].job = NoTask
        <3>1. i \in respawning' => i \notin a
            OBVIOUS
        <3> QED
            BY <1>2, <3>1
    <2> QED
        BY <2>1 DEF Busy
<1>9. NoIdleStall'
    BY <1>2 DEF NoIdleStall
<1> QED
    BY <1>3, <1>4, <1>5, <1>6, <1>7, <1>8, <1>9 DEF PoolInv

(* A submission joins the queue; its caller was preparing or has just begun. *)
LEMMA EnqueueKeeps ==
    ASSUME PoolInv, NEW t \in Tasks, caller[t] \in {"idle", "preparing"}, boot = "ready",
           Enqueue(t), boot' = boot, respawning' = respawning, inbox' = inbox,
           flag' = [flag EXCEPT ![t] = "live"]
    PROVE  PoolInv'
<1> DEFINE q == Append(queue, t)
<1>1. TypeOK
    BY DEF PoolInv
<1>2. /\ Len(queue) \in Nat /\ DOMAIN queue = 1 .. Len(queue)
      /\ \A u : u \in Range(queue) <=> \E j \in 1 .. Len(queue) : queue[j] = u
    BY <1>1, Positions DEF TypeOK
<1>3. t \notin Range(queue) /\ running[t] = 0 /\ inbox[t] = "none"
    BY DEF PoolInv, OnePlace
<1>4. /\ q \in Seq(Tasks) /\ Len(q) = Len(queue) + 1 /\ q[Len(queue) + 1] = t
      /\ \A j \in 1 .. Len(queue) : q[j] = queue[j]
    BY <1>1 DEF TypeOK
<1> HIDE DEF q
<1>5. \A u : u \in Range(q) <=> \E j \in 1 .. Len(queue) + 1 : q[j] = u
    <2> SUFFICES ASSUME NEW u
                 PROVE  u \in Range(q) <=> \E j \in 1 .. Len(queue) + 1 : q[j] = u
        OBVIOUS
    <2>1. u \in Range(q) <=> \E j \in 1 .. Len(q) : q[j] = u
        BY <1>4, Positions
    <2> QED
        BY <1>4, <2>1
<1>6. \A u : u \in Range(q) <=> u \in Range(queue) \/ u = t
    <2>1. \A j \in 1 .. Len(queue) + 1 : j \in 1 .. Len(queue) \/ j = Len(queue) + 1
        BY <1>2
    <2>2. \A j \in 1 .. Len(queue) : j \in 1 .. Len(queue) + 1
        BY <1>2
    <2>3. Len(queue) + 1 \in 1 .. Len(queue) + 1
        BY <1>2
    <2> QED
        BY <1>2, <1>4, <1>5, <2>1, <2>2, <2>3
<1>7. \A j, k \in DOMAIN q : q[j] = q[k] => j = k
    <2>1. DOMAIN q = 1 .. Len(queue) + 1
        BY <1>4
    <2>2. ASSUME NEW j \in 1 .. Len(queue) + 1, NEW k \in 1 .. Len(queue) + 1, q[j] = q[k]
          PROVE  j = k
        <3>1. \A m \in 1 .. Len(queue) + 1 : m \in 1 .. Len(queue) \/ m = Len(queue) + 1
            BY <1>2
        <3>2. \A m \in 1 .. Len(queue) : queue[m] # t
            BY <1>2, <1>3
        <3>3. \A m, n \in 1 .. Len(queue) : queue[m] = queue[n] => m = n
            BY <1>2 DEF PoolInv, OnePlace
        <3> QED
            BY <1>4, <2>2, <3>1, <3>2, <3>3
    <2> QED
        BY <2>1, <2>2
<1>8. ProcessQueue(q, available, worker, running) /\ caller' = [caller EXCEPT ![t] = "waiting"]
    BY DEF Enqueue, q
<1>9. \A i \in available : worker[i].job = NoTask /\ i \notin respawning'
    BY DEF PoolInv, RegistersAgree
<1>10. \A i \in Workers :
         /\ worker[i].iso # "none"
         /\ worker[i].reply # "none" => worker[i].job # NoTask
         /\ i \in respawning' => worker[i].job = NoTask
    BY DEF PoolInv, Starting, Busy
<1>11. \A u \in Tasks : caller'[u] # "waiting" =>
         u \notin Range(q) /\ running[u] = 0 /\ inbox'[u] = "none"
    BY <1>1, <1>6, <1>8 DEF PoolInv, OnePlace, TypeOK
<1>12. \A u \in Tasks : caller'[u] = "waiting" =>
         \/ u \in Range(q) /\ running[u] = 0 /\ inbox'[u] = "none"
         \/ u \notin Range(q) /\ running[u] # 0 /\ inbox'[u] = "none"
         \/ u \notin Range(q) /\ running[u] = 0 /\ inbox'[u] # "none"
    BY <1>1, <1>3, <1>6, <1>8 DEF PoolInv, OnePlace, TypeOK
<1>13. \A u \in Tasks :
         /\ caller'[u] = "idle" <=> flag'[u] = "absent"
         /\ flag'[u] = "cancelled" => u \notin Range(q) /\ running[u] = 0
    BY <1>1, <1>6, <1>8 DEF PoolInv, Marks, TypeOK
<1>14. /\ respawning' \subseteq Workers /\ available \in SUBSET Workers
       /\ flag' \in [Tasks -> {"absent", "live", "cancelled"}]
       /\ caller' \in [Tasks -> Callers]
       /\ inbox' \in [Tasks -> {"none", "complete", "error"}]
       /\ worker \in [Workers -> WorkerStates] /\ running \in [Tasks -> Workers \cup {0}]
    BY <1>1, <1>8 DEF TypeOK, Callers
<1>15. \A u \in Tasks, i \in Workers : running[u] = i <=> worker[i].job = u
    BY DEF PoolInv, RegistersAgree
<1>16. boot' = "ready"
    OBVIOUS
<1> QED
    BY <1>4, <1>7, <1>8, <1>9, <1>10, <1>11, <1>12, <1>13, <1>14, <1>15, <1>16, AfterQueue

(* A submission before the pool is up awaits initialize. *)
LEMMA PreparingKeeps ==
    ASSUME PoolInv, NEW t \in Tasks, boot # "ready", Submit(t)
    PROVE  PoolInv'
<1>1. TypeOK'
    BY DEF PoolInv, Submit, TypeOK, Callers
<1>2. RegistersAgree'
    BY DEF PoolInv, Submit, RegistersAgree, TypeOK
<1>3. OnePlace'
    BY DEF PoolInv, Submit, OnePlace, TypeOK
<1>4. Marks'
    BY DEF PoolInv, Submit, Marks, TypeOK
<1>5. Starting'
    BY DEF PoolInv, Submit, Starting, TypeOK
<1>6. Busy'
    BY DEF PoolInv, Submit, Busy, TypeOK
<1>7. NoIdleStall'
    BY DEF PoolInv, Submit, NoIdleStall, TypeOK
<1> QED
    BY <1>1, <1>2, <1>3, <1>4, <1>5, <1>6, <1>7 DEF PoolInv

(* A worker of the cold start is up. *)
LEMMA SpawnedKeeps ==
    ASSUME PoolInv, NEW i \in Workers, Spawned(i)
    PROVE  PoolInv'
<1>0. /\ \A j \in Workers : worker[j].job = NoTask
      /\ queue = <<>> /\ respawning = {} /\ \A t \in Tasks : running[t] = 0
    BY NothingRuns DEF Spawned, PoolInv, Starting
<1>1. TypeOK'
    BY DEF PoolInv, Spawned, TypeOK, WorkerStates, Fresh, Absent
<1>2. RegistersAgree'
    BY <1>0, NoTaskAssumption, PoolSizeAssumption
    DEF PoolInv, Spawned, RegistersAgree, TypeOK, WorkerStates, Fresh, Absent, Workers
<1>3. OnePlace'
    BY DEF PoolInv, Spawned, OnePlace, TypeOK
<1>4. Marks'
    BY DEF PoolInv, Spawned, Marks, TypeOK
<1>5. Starting'
    BY <1>0, PoolSizeAssumption
    DEF PoolInv, Spawned, Starting, TypeOK, WorkerStates, Fresh, Absent, Workers
<1>6. Busy'
    BY <1>0 DEF PoolInv, Spawned, Busy, TypeOK, WorkerStates, Fresh, Absent
<1>7. NoIdleStall'
    BY <1>0 DEF Spawned, NoIdleStall
<1> QED
    BY <1>1, <1>2, <1>3, <1>4, <1>5, <1>6, <1>7 DEF PoolInv

(* The cold start fails and leaves nothing behind. *)
LEMMA SpawnFailsKeeps ==
    ASSUME PoolInv, SpawnFails
    PROVE  PoolInv'
<1>0. /\ queue = <<>> /\ respawning = {} /\ \A t \in Tasks : running[t] = 0
    BY NothingRuns DEF SpawnFails, PoolInv, Starting
<1>1. TypeOK'
    BY DEF PoolInv, SpawnFails, TypeOK, WorkerStates, Absent, Callers
<1>2. RegistersAgree'
    BY <1>0, NoTaskAssumption, PoolSizeAssumption DEF SpawnFails, RegistersAgree, Absent, Workers
<1>3. OnePlace'
    BY DEF PoolInv, SpawnFails, OnePlace, TypeOK
<1>4. Marks'
    BY DEF PoolInv, SpawnFails, Marks, TypeOK
<1>5. Starting'
    BY <1>0 DEF PoolInv, SpawnFails, Starting, TypeOK, Callers
<1>6. Busy'
    BY <1>0 DEF PoolInv, SpawnFails, Busy, Absent
<1>7. NoIdleStall'
    BY <1>0 DEF SpawnFails, NoIdleStall
<1> QED
    BY <1>1, <1>2, <1>3, <1>4, <1>5, <1>6, <1>7 DEF PoolInv

(* The error of initialize reaches a submitter. *)
LEMMA RejectKeeps ==
    ASSUME PoolInv, NEW t \in Tasks, Reject(t)
    PROVE  PoolInv'
<1>1. TypeOK'
    BY DEF PoolInv, Reject, TypeOK, Callers
<1>2. RegistersAgree'
    BY DEF PoolInv, Reject, RegistersAgree, TypeOK
<1>3. OnePlace'
    BY DEF PoolInv, Reject, OnePlace, TypeOK
<1>4. Marks'
    BY DEF PoolInv, Reject, Marks, TypeOK
<1>5. Starting'
    BY DEF PoolInv, Reject, Starting, TypeOK
<1>6. Busy'
    BY DEF PoolInv, Reject, Busy, TypeOK
<1>7. NoIdleStall'
    BY DEF PoolInv, Reject, NoIdleStall, TypeOK
<1> QED
    BY <1>1, <1>2, <1>3, <1>4, <1>5, <1>6, <1>7 DEF PoolInv

(* A worker replies. *)
LEMMA WorkKeeps ==
    ASSUME PoolInv, NEW i \in Workers, NEW o \in {"complete", "error"}, Work(i, o)
    PROVE  PoolInv'
<1>0. boot # "cold"
    BY DEF PoolInv, Work, TypeOK, Absent
<1>1. TypeOK'
    <2>1. worker' \in [Workers -> WorkerStates]
        <3>1. [worker[i] EXCEPT !.reply = o] \in WorkerStates
            BY DEF PoolInv, TypeOK, WorkerStates
        <3> QED
            BY <3>1 DEF PoolInv, Work, TypeOK
    <2> QED
        BY <1>0, <2>1 DEF PoolInv, Work, TypeOK
<1>2. RegistersAgree'
    BY DEF PoolInv, Work, RegistersAgree, TypeOK, WorkerStates
<1>3. OnePlace'
    BY DEF PoolInv, Work, OnePlace, TypeOK
<1>4. Marks'
    BY DEF PoolInv, Work, Marks, TypeOK
<1>5. Starting'
    BY DEF PoolInv, Work, Starting, TypeOK, WorkerStates
<1>6. Busy'
    BY DEF PoolInv, Work, Busy, TypeOK, WorkerStates
<1>7. NoIdleStall'
    BY DEF PoolInv, Work, NoIdleStall, TypeOK
<1> QED
    BY <1>1, <1>2, <1>3, <1>4, <1>5, <1>6, <1>7 DEF PoolInv

(* A worker dies by itself. *)
LEMMA CrashKeeps ==
    ASSUME PoolInv, NEW i \in Workers, Crash(i)
    PROVE  PoolInv'
<1>0. boot # "cold"
    BY DEF PoolInv, Crash, TypeOK, Absent
<1>1. TypeOK'
    <2>1. worker' \in [Workers -> WorkerStates]
        <3>1. [worker[i] EXCEPT !.iso = "dead", !.exit = TRUE] \in WorkerStates
            BY DEF PoolInv, TypeOK, WorkerStates
        <3>2. worker' = [worker EXCEPT ![i] = [worker[i] EXCEPT !.iso = "dead", !.exit = TRUE]]
            BY DEF PoolInv, Crash, TypeOK
        <3> QED
            BY <3>1, <3>2 DEF PoolInv, TypeOK
    <2> QED
        BY <1>0, <2>1 DEF PoolInv, Crash, TypeOK
<1>2. RegistersAgree'
    BY DEF PoolInv, Crash, RegistersAgree, TypeOK, WorkerStates
<1>3. OnePlace'
    BY DEF PoolInv, Crash, OnePlace, TypeOK
<1>4. Marks'
    BY DEF PoolInv, Crash, Marks, TypeOK
<1>5. Starting'
    BY DEF PoolInv, Crash, Starting, TypeOK, WorkerStates
<1>6. Busy'
    BY DEF PoolInv, Crash, Busy, TypeOK, WorkerStates
<1>7. NoIdleStall'
    BY DEF PoolInv, Crash, NoIdleStall, TypeOK
<1> QED
    BY <1>1, <1>2, <1>3, <1>4, <1>5, <1>6, <1>7 DEF PoolInv

(* A replacement fails to start. *)
LEMMA RespawnFailsKeeps ==
    ASSUME PoolInv, NEW i \in Workers, RespawnFails(i)
    PROVE  PoolInv'
<1>1. TypeOK'
    BY DEF PoolInv, RespawnFails, TypeOK
<1>2. RegistersAgree'
    BY DEF PoolInv, RespawnFails, RegistersAgree, TypeOK
<1>3. OnePlace'
    BY DEF PoolInv, RespawnFails, OnePlace, TypeOK
<1>4. Marks'
    BY DEF PoolInv, RespawnFails, Marks, TypeOK
<1>5. Starting'
    BY DEF PoolInv, RespawnFails, Starting, TypeOK
<1>6. Busy'
    BY DEF PoolInv, RespawnFails, Busy, TypeOK
<1>7. NoIdleStall'
    BY DEF PoolInv, RespawnFails, NoIdleStall, TypeOK
<1> QED
    BY <1>1, <1>2, <1>3, <1>4, <1>5, <1>6, <1>7 DEF PoolInv

(* An outcome is delivered. *)
LEMMA DeliverKeeps ==
    ASSUME PoolInv, NEW t \in Tasks, Deliver(t)
    PROVE  PoolInv'
<1>1. TypeOK'
    BY DEF PoolInv, Deliver, TypeOK, Callers
<1>2. RegistersAgree'
    BY DEF PoolInv, Deliver, RegistersAgree, TypeOK
<1>3. OnePlace'
    BY DEF PoolInv, Deliver, OnePlace, TypeOK
<1>4. Marks'
    BY DEF PoolInv, Deliver, Marks, TypeOK
<1>5. Starting'
    BY DEF PoolInv, Deliver, Starting, TypeOK
<1>6. Busy'
    BY DEF PoolInv, Deliver, Busy, TypeOK
<1>7. NoIdleStall'
    BY DEF PoolInv, Deliver, NoIdleStall, TypeOK
<1> QED
    BY <1>1, <1>2, <1>3, <1>4, <1>5, <1>6, <1>7 DEF PoolInv

(* A busy worker is killed: its task has failed, its index awaits a        *)
(* replacement; only that task may be marked by the same step.             *)
LEMMA TerminateKeeps ==
    ASSUME PoolInv, NEW i \in Workers, worker[i].job # NoTask, Terminate(i),
           boot' = boot, available' = available, queue' = queue, caller' = caller,
           flag' \in [Tasks -> {"absent", "live", "cancelled"}],
           \A t \in Tasks :
               /\ flag'[t] = "absent" <=> flag[t] = "absent"
               /\ flag'[t] = "cancelled" => flag[t] = "cancelled" \/ t = worker[i].job
    PROVE  PoolInv'
<1> DEFINE u == worker[i].job
<1>1. TypeOK /\ RegistersAgree
    BY DEF PoolInv
<1>2. u \in Tasks /\ running[u] = i /\ i # 0
    BY <1>1, PoolSizeAssumption DEF TypeOK, RegistersAgree, WorkerStates, Workers
<1>3. \A j \in Workers : j # i => worker[j].job # u
    BY <1>1, <1>2 DEF RegistersAgree
<1>4. boot = "ready" /\ caller[u] = "waiting" /\ u \notin Range(queue) /\ inbox[u] = "none"
    BY <1>1, <1>2 DEF PoolInv, OnePlace, Starting, TypeOK
<1> HIDE DEF u
<1>5. /\ inbox' = [inbox EXCEPT ![u] = "error"] /\ worker' = [worker EXCEPT ![i] = Killed]
      /\ running' = [running EXCEPT ![u] = 0] /\ respawning' = respawning \cup {i}
    BY DEF Terminate, u
<1>6. Killed \in WorkerStates /\ Killed.job = NoTask /\ Killed.reply = "none" /\ Killed.iso = "dead"
    BY DEF Killed, Absent, WorkerStates
<1>7. TypeOK'
    BY <1>1, <1>4, <1>5, <1>6 DEF TypeOK
<1>8. RegistersAgree'
    <2>1. ASSUME NEW t \in Tasks, NEW j \in Workers
          PROVE  running'[t] = j <=> worker'[j].job = t
        <3>1. CASE j = i
            BY <1>1, <1>2, <1>5, <1>6, <3>1, NoTaskAssumption DEF TypeOK, RegistersAgree, u
        <3>2. CASE j # i
            <4>1. j # 0 /\ worker'[j] = worker[j]
                BY <1>1, <1>5, <3>2, PoolSizeAssumption DEF TypeOK, Workers
            <4> QED
                BY <1>1, <1>2, <1>3, <1>5, <3>2, <4>1 DEF TypeOK, RegistersAgree
        <3> QED
            BY <3>1, <3>2
    <2>2. i \notin available
        BY <1>1 DEF RegistersAgree
    <2>3. ASSUME NEW j \in available
          PROVE  worker'[j].job = NoTask /\ worker'[j].iso # "none" /\ j \notin respawning'
        <3>1. j # i /\ j \in Workers
            BY <1>1, <2>2 DEF TypeOK
        <3>2. worker'[j] = worker[j] /\ (j \in respawning' => j \in respawning)
            BY <1>1, <1>5, <3>1 DEF TypeOK
        <3> QED
            BY <1>1, <3>2 DEF RegistersAgree
    <2> QED
        BY <2>1, <2>3 DEF RegistersAgree
<1>9. OnePlace'
    BY <1>1, <1>2, <1>4, <1>5 DEF PoolInv, OnePlace, TypeOK
<1>10. Marks'
    <2>1. ASSUME NEW t \in Tasks
          PROVE  /\ caller'[t] = "idle" <=> flag'[t] = "absent"
                 /\ flag'[t] = "cancelled" => t \notin Range(queue') /\ running'[t] = 0
        <3>1. flag'[t] = "cancelled" => flag[t] = "cancelled" \/ t = u
            BY DEF u
        <3>2. flag'[t] = "absent" <=> flag[t] = "absent"
            OBVIOUS
        <3> QED
            BY <1>1, <1>2, <1>4, <1>5, <3>1, <3>2 DEF PoolInv, Marks, TypeOK
    <2> QED
        BY <2>1 DEF Marks
<1>11. Starting'
    BY <1>1, <1>4, <1>5, <1>6 DEF PoolInv, Starting, TypeOK
<1>12. Busy'
    BY <1>1, <1>5, <1>6 DEF PoolInv, Busy, TypeOK
<1>13. NoIdleStall'
    BY DEF PoolInv, NoIdleStall
<1> QED
    BY <1>7, <1>8, <1>9, <1>10, <1>11, <1>12, <1>13 DEF PoolInv

(* The exit notice of a worker. *)
LEMMA OnExitKeeps ==
    ASSUME PoolInv, NEW i \in Workers, OnExit(i)
    PROVE  PoolInv'
<1>1. CASE worker[i].job # NoTask
    <2>1. Terminate(i) /\ UNCHANGED <<boot, available, queue, flag, caller>>
        BY <1>1 DEF OnExit
    <2> QED
        BY <1>1, <2>1, TerminateKeeps DEF PoolInv, TypeOK
<1>2. CASE worker[i].job = NoTask
    <2>1. /\ worker' = [worker EXCEPT ![i] = [worker[i] EXCEPT !.exit = FALSE]]
          /\ UNCHANGED <<boot, available, respawning, queue, running, flag, caller, inbox>>
        BY <1>2 DEF OnExit, PoolInv, TypeOK
    <2>2. /\ [worker[i] EXCEPT !.exit = FALSE] \in WorkerStates
          /\ [worker[i] EXCEPT !.exit = FALSE].job = worker[i].job
          /\ [worker[i] EXCEPT !.exit = FALSE].iso = worker[i].iso
          /\ [worker[i] EXCEPT !.exit = FALSE].reply = worker[i].reply
        <3>1. worker[i] \in WorkerStates
            BY DEF PoolInv, TypeOK
        <3> QED
            BY <3>1 DEF WorkerStates
    <2>3. boot # "cold"
        BY DEF OnExit, PoolInv, TypeOK, Absent
    <2>4. \A j \in Workers : /\ worker'[j] \in WorkerStates /\ worker'[j].job = worker[j].job
                             /\ worker'[j].iso = worker[j].iso
                             /\ worker'[j].reply = worker[j].reply
        BY <2>1, <2>2 DEF PoolInv, TypeOK
    <2>5. TypeOK'
        BY <2>1, <2>2, <2>3 DEF PoolInv, TypeOK
    <2>6. RegistersAgree'
        BY <2>1, <2>4 DEF PoolInv, TypeOK, RegistersAgree
    <2>7. OnePlace' /\ Marks' /\ NoIdleStall'
        BY <2>1 DEF PoolInv, OnePlace, Marks, NoIdleStall
    <2>8. Starting'
        BY <2>1, <2>4 DEF PoolInv, Starting
    <2>9. Busy'
        BY <2>1, <2>4 DEF PoolInv, Busy
    <2> QED
        BY <2>5, <2>6, <2>7, <2>8, <2>9 DEF PoolInv
<1> QED
    BY <1>1, <1>2

(* A cancellation: of a queued task, of a running one, or of any other. *)
LEMMA CancelKeeps ==
    ASSUME PoolInv, NEW t \in Tasks, Cancel(t)
    PROVE  PoolInv'
<1>1. TypeOK
    BY DEF PoolInv
<1>2. /\ flag' = [flag EXCEPT ![t] = IF @ = "absent" THEN @ ELSE "cancelled"]
      /\ boot' = boot /\ available' = available /\ caller' = caller
    BY DEF Cancel
<1>3. /\ flag' \in [Tasks -> {"absent", "live", "cancelled"}]
      /\ \A u \in Tasks : /\ flag'[u] = "absent" <=> flag[u] = "absent"
                          /\ flag'[u] = "cancelled" => flag[u] = "cancelled" \/ u = t
    BY <1>1, <1>2 DEF TypeOK
<1>4. CASE t \in Range(queue)
    <2>1. /\ queue' = Without(queue, t) /\ inbox' = [inbox EXCEPT ![t] = "error"]
          /\ worker' = worker /\ running' = running /\ respawning' = respawning
        BY <1>4 DEF Cancel
    <2>2. queue \in Seq(Tasks) /\ \A j, k \in DOMAIN queue : queue[j] = queue[k] => j = k
        BY <1>1 DEF PoolInv, OnePlace, TypeOK
    <2>3. /\ queue' \in Seq(Tasks)
          /\ \A j, k \in DOMAIN queue' : queue'[j] = queue'[k] => j = k
          /\ \A u : u \in Range(queue') <=> u \in Range(queue) /\ u # t
        BY <2>1, <2>2, TakenOut
    <2>4. caller[t] = "waiting" /\ running[t] = 0
        BY <1>4 DEF PoolInv, OnePlace
    <2>5. queue # <<>>
        BY <1>4 DEF Range
    <2>6. TypeOK'
        BY <1>1, <1>2, <1>3, <2>1, <2>3 DEF TypeOK
    <2>7. RegistersAgree'
        BY <1>2, <2>1 DEF PoolInv, RegistersAgree
    <2>8. OnePlace'
        BY <1>1, <1>2, <2>1, <2>3, <2>4 DEF PoolInv, OnePlace, TypeOK
    <2>9. Marks'
        BY <1>1, <1>2, <1>3, <2>1, <2>3, <2>4 DEF PoolInv, Marks
    <2>10. Starting'
        BY <1>2, <2>1, <2>4 DEF PoolInv, Starting
    <2>11. Busy'
        BY <2>1 DEF PoolInv, Busy
    <2>12. NoIdleStall'
        BY <1>2, <2>5 DEF PoolInv, NoIdleStall
    <2> QED
        BY <2>6, <2>7, <2>8, <2>9, <2>10, <2>11, <2>12 DEF PoolInv
<1>5. CASE t \notin Range(queue) /\ running[t] # 0
    <2>1. Terminate(running[t]) /\ queue' = queue
        BY <1>5 DEF Cancel
    <2>2. running[t] \in Workers /\ worker[running[t]].job = t
        BY <1>1, <1>5 DEF PoolInv, TypeOK, RegistersAgree
    <2> QED
        BY <1>2, <1>3, <2>1, <2>2, NoTaskAssumption, TerminateKeeps
<1>6. CASE t \notin Range(queue) /\ running[t] = 0
    <2>1. UNCHANGED <<queue, worker, running, respawning, inbox>>
        BY <1>6 DEF Cancel
    <2>2. TypeOK'
        BY <1>1, <1>2, <1>3, <2>1 DEF TypeOK
    <2>3. RegistersAgree' /\ OnePlace' /\ Starting' /\ Busy' /\ NoIdleStall'
        BY <1>2, <2>1 DEF PoolInv, RegistersAgree, OnePlace, Starting, Busy, NoIdleStall
    <2>4. Marks'
        BY <1>2, <1>3, <1>6, <2>1 DEF PoolInv, Marks
    <2> QED
        BY <2>2, <2>3, <2>4 DEF PoolInv
<1> QED
    BY <1>4, <1>5, <1>6

(* The pool is up for a submission that waited for it. *)
LEMMA ResumeKeeps ==
    ASSUME PoolInv, NEW t \in Tasks, Resume(t)
    PROVE  PoolInv'
<1>1. CASE flag[t] = "cancelled"
    <2>1. /\ flag' = [flag EXCEPT ![t] = "absent"] /\ caller' = [caller EXCEPT ![t] = "idle"]
          /\ UNCHANGED <<boot, worker, available, respawning, queue, running, inbox>>
        BY <1>1 DEF Resume
    <2>2. TypeOK'
        BY <2>1 DEF PoolInv, TypeOK, Callers
    <2>3. RegistersAgree' /\ Busy' /\ NoIdleStall'
        BY <2>1 DEF PoolInv, RegistersAgree, Busy, NoIdleStall
    <2>4. OnePlace'
        BY <2>1 DEF Resume, PoolInv, OnePlace, TypeOK
    <2>5. Marks'
        BY <2>1 DEF PoolInv, Marks, TypeOK
    <2>6. Starting'
        BY <2>1 DEF PoolInv, Starting, TypeOK
    <2> QED
        BY <2>2, <2>3, <2>4, <2>5, <2>6 DEF PoolInv
<1>2. CASE flag[t] # "cancelled"
    <2>1. /\ caller[t] = "preparing" /\ boot = "ready" /\ Enqueue(t)
          /\ UNCHANGED <<boot, respawning, inbox, flag>>
        BY <1>2 DEF Resume
    <2>2. flag[t] = "live"
        BY <1>2, <2>1 DEF PoolInv, Marks, TypeOK
    <2>3. flag' = [flag EXCEPT ![t] = "live"]
        BY <2>1, <2>2 DEF PoolInv, TypeOK
    <2> QED
        BY <2>1, <2>3, EnqueueKeeps
<1> QED
    BY <1>1, <1>2

(* A reply arrives: its worker is free for the queue. *)
LEMMA OnReplyKeeps ==
    ASSUME PoolInv, NEW i \in Workers, OnReply(i)
    PROVE  PoolInv'
<1> DEFINE u == worker[i].job
           a == available \cup {i}
           w == [worker EXCEPT ![i] = [@ EXCEPT !.job = NoTask, !.reply = "none"]]
           r == [running EXCEPT ![worker[i].job] = 0]
<1>1. TypeOK /\ RegistersAgree /\ Busy
    BY DEF PoolInv
<1>2. u \in Tasks /\ running[u] = i /\ i # 0 /\ worker[i].reply \in {"complete", "error"}
    <2>1. worker[i] \in WorkerStates /\ worker[i].reply # "none" /\ u # NoTask
        BY <1>1 DEF OnReply, TypeOK, Busy
    <2> QED
        BY <1>1, <2>1, PoolSizeAssumption DEF RegistersAgree, WorkerStates, Workers
<1>3. boot = "ready" /\ caller[u] = "waiting" /\ u \notin Range(queue) /\ inbox[u] = "none"
    BY <1>1, <1>2 DEF PoolInv, OnePlace, Starting, TypeOK
<1>4. /\ inbox' = [inbox EXCEPT ![u] = worker[i].reply] /\ ProcessQueue(queue, a, w, r)
      /\ boot' = boot /\ respawning' = respawning /\ flag' = flag /\ caller' = caller
    BY DEF OnReply
<1>5. ASSUME NEW j \in Workers
      PROVE  /\ w[j] \in WorkerStates /\ w[j].iso = worker[j].iso
             /\ j = i => w[j].job = NoTask /\ w[j].reply = "none"
             /\ j # i => w[j] = worker[j]
    <2>1. w[j] = IF j = i THEN [worker[i] EXCEPT !.job = NoTask, !.reply = "none"] ELSE worker[j]
        BY <1>1 DEF TypeOK
    <2>2. worker[j] \in WorkerStates
        BY <1>1 DEF TypeOK
    <2> DEFINE freed == [worker[j] EXCEPT !.job = NoTask, !.reply = "none"]
    <2>3. /\ freed \in WorkerStates /\ freed.iso = worker[j].iso
          /\ freed.job = NoTask /\ freed.reply = "none"
        BY <2>2 DEF WorkerStates
    <2>4. w[j] = IF j = i THEN freed ELSE worker[j]
        BY <2>1
    <2> HIDE DEF w, freed
    <2> QED
        BY <2>2, <2>3, <2>4
<1>6. w \in [Workers -> WorkerStates]
    <2>1. w = [j \in Workers |-> w[j]]
        BY <1>1 DEF TypeOK
    <2> QED
        BY <1>5, <2>1
<1>7. r \in [Tasks -> Workers \cup {0}] /\ \A t \in Tasks : r[t] = IF t = u THEN 0 ELSE running[t]
    BY <1>1, <1>2 DEF TypeOK
<1>8. \A t \in Tasks, j \in Workers : r[t] = j <=> w[j].job = t
    <2> SUFFICES ASSUME NEW t \in Tasks, NEW j \in Workers
                 PROVE  r[t] = j <=> w[j].job = t
        OBVIOUS
    <2>1. j # 0 /\ t # NoTask /\ (running[t] = j <=> worker[j].job = t)
        BY <1>1, NoTaskAssumption, PoolSizeAssumption DEF RegistersAgree, Workers
    <2>2. CASE j = i
        <3>1. r[t] # j
            BY <1>2, <1>7, <2>1, <2>2
        <3> QED
            BY <1>5, <2>1, <2>2, <3>1
    <2>3. CASE j # i
        BY <1>2, <1>5, <1>7, <2>1, <2>3
    <2> QED
        BY <2>2, <2>3
<1> HIDE DEF u, w, r
<1>9. i \notin respawning /\ a \in SUBSET Workers
    <2>1. u # NoTask
        BY <1>2, NoTaskAssumption
    <2> QED
        BY <1>1, <2>1 DEF Busy, TypeOK, u
<1>10. \A j \in a : w[j].job = NoTask /\ j \notin respawning'
    <2> SUFFICES ASSUME NEW j \in a PROVE w[j].job = NoTask /\ j \notin respawning
        BY <1>4
    <2>1. CASE j = i
        BY <1>5, <1>9, <2>1
    <2>2. CASE j # i
        BY <1>1, <1>5, <1>9, <2>2 DEF RegistersAgree
    <2> QED
        BY <2>1, <2>2
<1> HIDE DEF a
<1>11. \A j \in Workers :
         /\ w[j].iso # "none"
         /\ w[j].reply # "none" => w[j].job # NoTask
         /\ j \in respawning' => w[j].job = NoTask
    <2> SUFFICES ASSUME NEW j \in Workers
                 PROVE  /\ w[j].iso # "none"
                        /\ w[j].reply # "none" => w[j].job # NoTask
                        /\ j \in respawning => w[j].job = NoTask
        BY <1>4
    <2>1. worker[j].iso # "none"
        BY <1>3 DEF PoolInv, Starting
    <2>2. /\ worker[j].reply # "none" => worker[j].job # NoTask
          /\ j \in respawning => worker[j].job = NoTask
        BY <1>1 DEF Busy
    <2> QED
        BY <1>5, <2>1, <2>2
<1>12. /\ boot' = "ready" /\ respawning' \subseteq Workers
       /\ flag' \in [Tasks -> {"absent", "live", "cancelled"}]
       /\ caller' \in [Tasks -> Callers]
       /\ inbox' \in [Tasks -> {"none", "complete", "error"}]
       /\ queue \in Seq(Tasks)
       /\ \A j, k \in DOMAIN queue : queue[j] = queue[k] => j = k
    BY <1>1, <1>2, <1>3, <1>4 DEF TypeOK, PoolInv, OnePlace
<1>13. \A t \in Tasks : caller'[t] # "waiting" =>
         t \notin Range(queue) /\ r[t] = 0 /\ inbox'[t] = "none"
    BY <1>1, <1>3, <1>4, <1>7 DEF PoolInv, OnePlace, TypeOK
<1>14. \A t \in Tasks : caller'[t] = "waiting" =>
         \/ t \in Range(queue) /\ r[t] = 0 /\ inbox'[t] = "none"
         \/ t \notin Range(queue) /\ r[t] # 0 /\ inbox'[t] = "none"
         \/ t \notin Range(queue) /\ r[t] = 0 /\ inbox'[t] # "none"
    BY <1>1, <1>2, <1>3, <1>4, <1>7 DEF PoolInv, OnePlace, TypeOK
<1>15. \A t \in Tasks :
         /\ caller'[t] = "idle" <=> flag'[t] = "absent"
         /\ flag'[t] = "cancelled" => t \notin Range(queue) /\ r[t] = 0
    BY <1>4, <1>7 DEF PoolInv, Marks
<1> QED
    BY <1>4, <1>6, <1>7, <1>8, <1>9, <1>10, <1>11, <1>12, <1>13, <1>14, <1>15, AfterQueue

(* A replacement is up and free for the queue. *)
LEMMA RespawnedKeeps ==
    ASSUME PoolInv, NEW i \in Workers, Respawned(i)
    PROVE  PoolInv'
<1> DEFINE a == available \cup {i}
           w == [worker EXCEPT ![i] = Fresh]
<1>1. TypeOK /\ RegistersAgree /\ Busy /\ OnePlace
    BY DEF PoolInv
<1>2. /\ i \in respawning /\ respawning' = respawning \ {i}
      /\ ProcessQueue(queue, a, w, running)
      /\ boot' = boot /\ flag' = flag /\ caller' = caller /\ inbox' = inbox
    BY DEF Respawned
<1>3. boot = "ready" /\ worker[i].job = NoTask
    BY <1>1, <1>2 DEF PoolInv, Starting, Busy, TypeOK
<1>4. /\ Fresh \in WorkerStates /\ Fresh.job = NoTask /\ Fresh.reply = "none"
      /\ Fresh.iso = "alive"
    BY DEF Fresh, Absent, WorkerStates
<1>5. /\ w \in [Workers -> WorkerStates] /\ w[i] = Fresh
      /\ \A j \in Workers : j # i => w[j] = worker[j]
    BY <1>1, <1>4 DEF TypeOK
<1>6. \A t \in Tasks, j \in Workers : running[t] = j <=> w[j].job = t
    <2> SUFFICES ASSUME NEW t \in Tasks, NEW j \in Workers
                 PROVE  running[t] = j <=> w[j].job = t
        OBVIOUS
    <2>1. running[t] = j <=> worker[j].job = t
        BY <1>1 DEF RegistersAgree
    <2>2. t # NoTask
        BY NoTaskAssumption
    <2>3. w[j].job = worker[j].job
        BY <1>3, <1>4, <1>5
    <2> QED
        BY <2>1, <2>3
<1> HIDE DEF w
<1>7. a \in SUBSET Workers /\ \A j \in a : w[j].job = NoTask /\ j \notin respawning'
    <2>1. a \in SUBSET Workers
        BY <1>1 DEF TypeOK
    <2>2. ASSUME NEW j \in a PROVE w[j].job = NoTask /\ j \notin respawning'
        <3>1. CASE j = i
            BY <1>2, <1>4, <1>5, <3>1
        <3>2. CASE j # i
            BY <1>1, <1>2, <1>5, <2>1, <3>2 DEF RegistersAgree
        <3> QED
            BY <3>1, <3>2
    <2> QED
        BY <2>1, <2>2
<1> HIDE DEF a
<1>8. \A j \in Workers :
        /\ w[j].iso # "none"
        /\ w[j].reply # "none" => w[j].job # NoTask
        /\ j \in respawning' => w[j].job = NoTask
    <2> SUFFICES ASSUME NEW j \in Workers
                 PROVE  /\ w[j].iso # "none"
                        /\ w[j].reply # "none" => w[j].job # NoTask
                        /\ j \in respawning => w[j].job = NoTask
        BY <1>2
    <2>1. worker[j].iso # "none"
        BY <1>3 DEF PoolInv, Starting
    <2>2. /\ worker[j].reply # "none" => worker[j].job # NoTask
          /\ j \in respawning => worker[j].job = NoTask
        BY <1>1 DEF Busy
    <2> QED
        BY <1>4, <1>5, <2>1, <2>2
<1>9. /\ boot' = "ready" /\ respawning' \subseteq Workers
      /\ flag' \in [Tasks -> {"absent", "live", "cancelled"}]
      /\ caller' \in [Tasks -> Callers]
      /\ inbox' \in [Tasks -> {"none", "complete", "error"}]
      /\ queue \in Seq(Tasks) /\ running \in [Tasks -> Workers \cup {0}]
      /\ \A j, k \in DOMAIN queue : queue[j] = queue[k] => j = k
    BY <1>1, <1>2, <1>3 DEF TypeOK, OnePlace
<1>10. \A t \in Tasks : caller'[t] # "waiting" =>
         t \notin Range(queue) /\ running[t] = 0 /\ inbox'[t] = "none"
    BY <1>1, <1>2 DEF OnePlace
<1>11. \A t \in Tasks : caller'[t] = "waiting" =>
         \/ t \in Range(queue) /\ running[t] = 0 /\ inbox'[t] = "none"
         \/ t \notin Range(queue) /\ running[t] # 0 /\ inbox'[t] = "none"
         \/ t \notin Range(queue) /\ running[t] = 0 /\ inbox'[t] # "none"
    BY <1>1, <1>2 DEF OnePlace
<1>12. \A t \in Tasks :
         /\ caller'[t] = "idle" <=> flag'[t] = "absent"
         /\ flag'[t] = "cancelled" => t \notin Range(queue) /\ running[t] = 0
    BY <1>2 DEF PoolInv, Marks
<1> QED
    BY <1>2, <1>5, <1>6, <1>7, <1>8, <1>9, <1>10, <1>11, <1>12, AfterQueue

-----------------------------------------------------------------------------
(* The invariant, and what it says of the pool.                            *)
LEMMA InitPoolInv == Init => PoolInv
<1> SUFFICES ASSUME Init PROVE PoolInv
    OBVIOUS
<1>1. Absent \in WorkerStates /\ Absent.job = NoTask /\ Absent.reply = "none"
    BY DEF Absent, WorkerStates
<1>2. \A t : t \notin Range(<<>>)
    BY DEF Range
<1>3. TypeOK
    BY <1>1 DEF Init, TypeOK, Callers
<1>4. RegistersAgree
    BY <1>1, NoTaskAssumption, PoolSizeAssumption DEF Init, RegistersAgree, Workers
<1>5. OnePlace
    BY <1>2 DEF Init, OnePlace
<1>6. Marks /\ Starting /\ NoIdleStall
    BY DEF Init, Marks, Starting, NoIdleStall
<1>7. Busy
    BY <1>1 DEF Init, Busy
<1> QED
    BY <1>3, <1>4, <1>5, <1>6, <1>7 DEF PoolInv

(* A submission, before and after the pool is up. *)
LEMMA SubmitKeeps ==
    ASSUME PoolInv, NEW t \in Tasks, Submit(t)
    PROVE  PoolInv'
<1>1. CASE boot = "ready"
    <2>1. /\ caller[t] \in {"idle", "preparing"} /\ Enqueue(t) /\ boot' = boot
          /\ respawning' = respawning /\ inbox' = inbox /\ flag' = [flag EXCEPT ![t] = "live"]
        BY <1>1 DEF Submit
    <2> QED
        BY <1>1, <2>1, EnqueueKeeps
<1>2. CASE boot # "ready"
    BY <1>2, PreparingKeeps
<1> QED
    BY <1>1, <1>2

LEMMA StepPoolInv == PoolInv /\ [Next]_vars => PoolInv'
<1> SUFFICES ASSUME PoolInv, [Next]_vars PROVE PoolInv'
    OBVIOUS
<1>1. ASSUME NEW t \in Tasks, Submit(t) \/ Resume(t) \/ Reject(t) \/ Deliver(t) \/ Cancel(t)
      PROVE  PoolInv'
    BY <1>1, SubmitKeeps, ResumeKeeps, RejectKeeps, DeliverKeeps, CancelKeeps
<1>2. ASSUME NEW i \in Workers,
             \/ Spawned(i) \/ Work(i, "complete") \/ Work(i, "error") \/ OnReply(i)
             \/ Crash(i) \/ OnExit(i) \/ Respawned(i) \/ RespawnFails(i)
      PROVE  PoolInv'
    BY <1>2, SpawnedKeeps, WorkKeeps, OnReplyKeeps, CrashKeeps, OnExitKeeps, RespawnedKeeps,
       RespawnFailsKeeps
<1>3. CASE SpawnFails
    BY <1>3, SpawnFailsKeeps
<1>4. CASE UNCHANGED vars
    BY <1>4 DEF vars, PoolInv, TypeOK, RegistersAgree, OnePlace, Marks, Starting, Busy,
                NoIdleStall
<1> QED
    BY <1>1, <1>2, <1>3, <1>4 DEF Next

LEMMA AlwaysPoolInv == Spec => []PoolInv
<1> QED
    BY InitPoolInv, StepPoolInv, PTL DEF Spec


(* The registers of the pool keep their types, and a start that failed     *)
(* leaves nothing behind in them.                                          *)
THEOREM TypeCorrect == Spec => []TypeOK
<1>1. PoolInv => TypeOK
    BY DEF PoolInv
<1> QED
    BY <1>1, AlwaysPoolInv, PTL

(* _runningTasks and the cancel hooks of the workers never disagree, and a *)
(* worker in _availableWorkers is idle, up and not being replaced.         *)
THEOREM RegistersCorrect == Spec => []RegistersAgree
<1>1. PoolInv => RegistersAgree
    BY DEF PoolInv
<1> QED
    BY <1>1, AlwaysPoolInv, PTL

(* A task that cancelTask has marked is neither queued nor on a worker.    *)
THEOREM CancelCorrect == Spec => []CancelStops
<1>1. PoolInv => CancelStops
    <2> SUFFICES ASSUME PoolInv, NEW t \in Tasks, flag[t] = "cancelled"
                 PROVE  t \notin Range(queue) /\ \A i \in Workers : worker[i].job # t
        BY DEF CancelStops
    <2>1. t \notin Range(queue) /\ running[t] = 0
        BY DEF PoolInv, Marks
    <2>2. \A i \in Workers : i # 0
        BY PoolSizeAssumption DEF Workers
    <2> QED
        BY <2>1, <2>2 DEF PoolInv, RegistersAgree
<1> QED
    BY <1>1, AlwaysPoolInv, PTL

(* _processQueue leaves no task in the queue beside a free worker. *)
THEOREM NoStall == Spec => []NoIdleStall
<1>1. PoolInv => NoIdleStall
    BY DEF PoolInv
<1> QED
    BY <1>1, AlwaysPoolInv, PTL

(* A submission that waits is in the queue once, on one worker, or has its *)
(* outcome on the way, and exactly one of these; any other is nowhere.     *)
THEOREM OnePlaceCorrect == Spec => []EveryTaskInOnePlace
<1>1. PoolInv => EveryTaskInOnePlace
    <2> SUFFICES ASSUME PoolInv, NEW t \in Tasks
                 PROVE  Cardinality(Places(t)) = IF caller[t] = "waiting" THEN 1 ELSE 0
        BY DEF EveryTaskInOnePlace
    <2>1. TypeOK /\ RegistersAgree /\ OnePlace
        BY DEF PoolInv
    <2>2. /\ DOMAIN queue = 1 .. Len(queue)
          /\ t \in Range(queue) <=> \E j \in DOMAIN queue : queue[j] = t
        BY <2>1, Positions DEF TypeOK
    <2>3. /\ {j \in DOMAIN queue : queue[j] = t} = {} <=> t \notin Range(queue)
          /\ \A j, k \in DOMAIN queue : queue[j] = t /\ queue[k] = t => j = k
        BY <2>1, <2>2 DEF OnePlace
    <2>4. /\ \A i \in Workers : worker[i].job = t <=> running[t] = i
          /\ running[t] = 0 \/ running[t] \in Workers
          /\ \A i \in Workers : i # 0
        BY <2>1, PoolSizeAssumption DEF RegistersAgree, TypeOK, Workers
    <2>5. \A p : p \in Places(t) <=>
                 \/ \E j \in DOMAIN queue : queue[j] = t /\ p = <<"queue", j>>
                 \/ running[t] # 0 /\ p = <<"worker", running[t]>>
                 \/ inbox[t] # "none" /\ p = <<"inbox", 1>>
        <3>1. \A p : p \in Places(t) <=>
                 \/ \E j \in DOMAIN queue : queue[j] = t /\ p = <<"queue", j>>
                 \/ \E i \in Workers : worker[i].job = t /\ p = <<"worker", i>>
                 \/ inbox[t] # "none" /\ p = <<"inbox", 1>>
            BY DEF Places
        <3>2. \A p : (\E i \in Workers : worker[i].job = t /\ p = <<"worker", i>>)
                       <=> running[t] # 0 /\ p = <<"worker", running[t]>>
            BY <2>4
        <3> QED
            BY <3>1, <3>2
    <2>6. CASE caller[t] # "waiting"
        <3>1. t \notin Range(queue) /\ running[t] = 0 /\ inbox[t] = "none"
            BY <2>1, <2>6 DEF OnePlace
        <3>2. Places(t) = {}
            BY <2>2, <2>5, <3>1
        <3> QED
            BY <2>6, <3>2, FS_EmptySet
    <2>7. CASE caller[t] = "waiting"
        <3>1. \E p : Places(t) = {p}
            <4>1. CASE t \in Range(queue) /\ running[t] = 0 /\ inbox[t] = "none"
                <5>1. PICK j \in DOMAIN queue : queue[j] = t
                    BY <2>2, <4>1
                <5>2. Places(t) = {<<"queue", j>>}
                    BY <2>3, <2>5, <4>1, <5>1
                <5> QED
                    BY <5>2
            <4>2. CASE t \notin Range(queue) /\ running[t] # 0 /\ inbox[t] = "none"
                <5>1. Places(t) = {<<"worker", running[t]>>}
                    BY <2>2, <2>5, <4>2
                <5> QED
                    BY <5>1
            <4>3. CASE t \notin Range(queue) /\ running[t] = 0 /\ inbox[t] # "none"
                <5>1. Places(t) = {<<"inbox", 1>>}
                    BY <2>2, <2>5, <4>3
                <5> QED
                    BY <5>1
            <4> QED
                BY <2>1, <2>7, <4>1, <4>2, <4>3 DEF OnePlace
        <3> QED
            BY <2>7, <3>1, FS_Singleton
    <2> QED
        BY <2>6, <2>7
<1> QED
    BY <1>1, AlwaysPoolInv, PTL


-----------------------------------------------------------------------------
(* The pool implements TaskPool.                                           *)

(* What a submitter sees of a task, case by case. *)
LEMMA Seen ==
    ASSUME PoolInv, NEW t \in Tasks
    PROVE  /\ caller[t] = "idle" => PoolState(t) = "idle"
           /\ caller[t] = "preparing" /\ flag[t] # "cancelled" => PoolState(t) = "pending"
           /\ caller[t] = "preparing" /\ flag[t] = "cancelled" => PoolState(t) = "failed"
           /\ caller[t] = "rejected" => PoolState(t) = "failed"
           /\ caller[t] = "waiting" /\ inbox[t] = "none" => PoolState(t) = "pending"
           /\ caller[t] = "waiting" /\ inbox[t] = "complete" => PoolState(t) = "done"
           /\ caller[t] = "waiting" /\ inbox[t] = "error" => PoolState(t) = "failed"
<1>1. caller[t] # "waiting" => inbox[t] = "none"
    BY DEF PoolInv, OnePlace
<1> QED
    BY <1>1 DEF PoolState

(* What the submitter sees depends on these three. *)
LEMMA SeenKept ==
    ASSUME NEW t \in Tasks, caller'[t] = caller[t], flag'[t] = flag[t], inbox'[t] = inbox[t]
    PROVE  PoolState(t)' = PoolState(t)
BY DEF PoolState

(* A step that shows to the submitter of t alone. *)
LEMMA OneSeen ==
    ASSUME NEW t \in Tasks, NEW v, PoolState(t)' = v,
           \A u \in Tasks \ {t} :
               caller'[u] = caller[u] /\ flag'[u] = flag[u] /\ inbox'[u] = inbox[u]
    PROVE  View' = [View EXCEPT ![t] = v]
<1>1. \A u \in Tasks \ {t} : PoolState(u)' = PoolState(u)
    BY SeenKept
<1> QED
    BY <1>1 DEF View

(* A submission that is seen to be pending is seen to fail. *)
LEMMA FailsAlone ==
    ASSUME NEW t \in Tasks, PoolState(t) = "pending", PoolState(t)' = "failed",
           \A u \in Tasks \ {t} :
               caller'[u] = caller[u] /\ flag'[u] = flag[u] /\ inbox'[u] = inbox[u]
    PROVE  Pool!PoolNext
<1>1. \A u \in Tasks \ {t} : PoolState(u)' = PoolState(u)
    BY SeenKept
<1>2. View' = [u \in Tasks |-> IF u \in {t} THEN "failed" ELSE View[u]]
    BY <1>1 DEF View
<1>3. {t} \in SUBSET Tasks /\ {t} # {}
    OBVIOUS
<1>4. \A u \in {t} : View[u] = "pending"
    BY DEF View
<1> QED
    BY <1>2, <1>3, <1>4 DEF Pool!PoolNext, Pool!Fail

LEMMA AllKept ==
    ASSUME caller' = caller, flag' = flag, inbox' = inbox
    PROVE  UNCHANGED View
<1>1. \A u \in Tasks : PoolState(u)' = PoolState(u)
    BY SeenKept
<1> QED
    BY <1>1 DEF View

LEMMA InitSeen == Init => Pool!PoolInit
BY DEF Init, Pool!PoolInit, PoolState, View


(* Steps of the code that submits. *)
LEMMA TaskSteps ==
    ASSUME PoolInv, PoolInv', NEW t \in Tasks,
           Submit(t) \/ Resume(t) \/ Reject(t) \/ Deliver(t)
    PROVE  Pool!PoolNext \/ UNCHANGED View
<1>1. TypeOK /\ TypeOK' /\ View[t] = PoolState(t)
    BY DEF PoolInv, View
<1>2. ASSUME \A u \in Tasks \ {t} :
                caller'[u] = caller[u] /\ flag'[u] = flag[u] /\ inbox'[u] = inbox[u]
      PROVE  /\ PoolState(t)' = PoolState(t) => UNCHANGED View
             /\ PoolState(t) = "idle" /\ PoolState(t)' = "pending" => Pool!Submit(t)
             /\ PoolState(t) \in {"done", "failed"} /\ PoolState(t)' = "idle" => Pool!Settle(t)
    <2>1. View' = [View EXCEPT ![t] = PoolState(t)']
        BY <1>2, OneSeen
    <2>2. View = [View EXCEPT ![t] = PoolState(t)]
        BY DEF View
    <2>3. PoolState(t)' = PoolState(t) => UNCHANGED View
        BY <2>1, <2>2
    <2>4. PoolState(t) = "idle" /\ PoolState(t)' = "pending" => Pool!Submit(t)
        BY <1>1, <2>1 DEF Pool!Submit
    <2>5. PoolState(t) \in {"done", "failed"} /\ PoolState(t)' = "idle" => Pool!Settle(t)
        BY <1>1, <2>1 DEF Pool!Settle, Pool!Outcomes
    <2> QED
        BY <2>3, <2>4, <2>5
<1>3. CASE Submit(t)
    <2>1. /\ caller[t] = "idle" /\ flag' = [flag EXCEPT ![t] = "live"] /\ inbox' = inbox
          /\ \E c \in {"preparing", "waiting"} : caller' = [caller EXCEPT ![t] = c]
        BY <1>3 DEF Submit, Enqueue
    <2>2. /\ flag'[t] = "live" /\ inbox'[t] = "none" /\ caller'[t] \in {"preparing", "waiting"}
          /\ \A u \in Tasks \ {t} :
               caller'[u] = caller[u] /\ flag'[u] = flag[u] /\ inbox'[u] = inbox[u]
        BY <1>1, <2>1 DEF TypeOK, PoolInv, OnePlace
    <2>3. PoolState(t) = "idle" /\ PoolState(t)' = "pending"
        BY <2>1, <2>2 DEF PoolState
    <2> QED
        BY <1>2, <2>2, <2>3 DEF Pool!PoolNext
<1>4. CASE Resume(t) /\ flag[t] # "cancelled"
    <2>1. /\ caller[t] = "preparing" /\ flag' = flag /\ inbox' = inbox
          /\ caller' = [caller EXCEPT ![t] = "waiting"]
        BY <1>4 DEF Resume, Enqueue
    <2>2. /\ inbox[t] = "none" /\ inbox'[t] = "none" /\ caller'[t] = "waiting"
          /\ \A u \in Tasks \ {t} :
               caller'[u] = caller[u] /\ flag'[u] = flag[u] /\ inbox'[u] = inbox[u]
        BY <1>1, <2>1 DEF TypeOK, PoolInv, OnePlace
    <2>3. PoolState(t)' = PoolState(t)
        BY <1>4, <2>1, <2>2 DEF PoolState
    <2> QED
        BY <1>2, <2>2, <2>3
<1>5. CASE \/ Resume(t) /\ flag[t] = "cancelled"
           \/ Reject(t)
           \/ Deliver(t)
    <2>1. /\ flag' = [flag EXCEPT ![t] = "absent"] /\ caller' = [caller EXCEPT ![t] = "idle"]
          /\ inbox' = inbox \/ inbox' = [inbox EXCEPT ![t] = "none"]
        BY <1>5 DEF Resume, Reject, Deliver
    <2>2. /\ caller'[t] = "idle"
          /\ \A u \in Tasks \ {t} :
               caller'[u] = caller[u] /\ flag'[u] = flag[u] /\ inbox'[u] = inbox[u]
        BY <1>1, <2>1 DEF TypeOK
    <2>3. \/ caller[t] = "preparing" /\ flag[t] = "cancelled"
          \/ caller[t] = "rejected"
          \/ caller[t] = "waiting" /\ inbox[t] \in {"complete", "error"}
        BY <1>1, <1>5 DEF Resume, Reject, Deliver, PoolInv, OnePlace, TypeOK
    <2>4. PoolState(t) \in {"done", "failed"}
        BY <2>3, Seen
    <2>5. PoolState(t)' = "idle"
        <3>1. inbox'[t] = "none"
            BY <2>2 DEF PoolInv, OnePlace
        <3> QED
            BY <2>2, <3>1 DEF PoolState
    <2> QED
        BY <1>2, <2>2, <2>4, <2>5 DEF Pool!PoolNext
<1> QED
    BY <1>3, <1>4, <1>5

(* A running task has an outcome: a reply, or its worker was killed. *)
LEMMA JobSteps ==
    ASSUME PoolInv, NEW t \in Tasks, running[t] # 0, NEW o \in {"complete", "error"},
           inbox' = [inbox EXCEPT ![t] = o], caller' = caller,
           \A u \in Tasks \ {t} : flag'[u] = flag[u]
    PROVE  Pool!PoolNext
<1>1. caller[t] = "waiting" /\ inbox[t] = "none"
    BY DEF PoolInv, OnePlace
<1>2. /\ inbox'[t] = o /\ caller'[t] = "waiting"
      /\ \A u \in Tasks \ {t} :
           caller'[u] = caller[u] /\ flag'[u] = flag[u] /\ inbox'[u] = inbox[u]
    BY <1>1 DEF PoolInv, TypeOK
<1>3. PoolState(t) = "pending"
    BY <1>1, Seen
<1>4. CASE o = "complete"
    <2>1. PoolState(t)' = "done"
        BY <1>2, <1>4 DEF PoolState
    <2>2. View' = [View EXCEPT ![t] = "done"]
        BY <1>2, <2>1, OneSeen
    <2> QED
        BY <1>3, <2>2 DEF Pool!PoolNext, Pool!Complete, View
<1>5. CASE o = "error"
    <2>1. PoolState(t)' = "failed"
        BY <1>2, <1>5 DEF PoolState
    <2> QED
        BY <1>2, <1>3, <2>1, FailsAlone
<1> QED
    BY <1>4, <1>5

(* A cancellation fails what it reaches. *)
LEMMA CancelStep ==
    ASSUME PoolInv, NEW t \in Tasks, Cancel(t)
    PROVE  Pool!PoolNext \/ UNCHANGED View
<1>1. TypeOK /\ RegistersAgree
    BY DEF PoolInv
<1>2. /\ flag' = [flag EXCEPT ![t] = IF @ = "absent" THEN @ ELSE "cancelled"]
      /\ caller' = caller
      /\ \A u \in Tasks \ {t} : flag'[u] = flag[u]
    BY <1>1 DEF Cancel, TypeOK
<1>3. CASE t \in Range(queue)
    <2>1. inbox' = [inbox EXCEPT ![t] = "error"]
        BY <1>3 DEF Cancel
    <2>2. caller[t] = "waiting" /\ inbox[t] = "none"
        BY <1>3 DEF PoolInv, OnePlace
    <2>3. /\ caller'[t] = "waiting" /\ inbox'[t] = "error"
          /\ \A u \in Tasks \ {t} :
               caller'[u] = caller[u] /\ flag'[u] = flag[u] /\ inbox'[u] = inbox[u]
        BY <1>1, <1>2, <2>1, <2>2 DEF TypeOK
    <2>4. PoolState(t) = "pending"
        BY <2>2, Seen
    <2>5. PoolState(t)' = "failed"
        BY <2>3 DEF PoolState
    <2> QED
        BY <2>3, <2>4, <2>5, FailsAlone
<1>4. CASE t \notin Range(queue) /\ running[t] # 0
    <2>1. running[t] \in Workers /\ worker[running[t]].job = t
        BY <1>1, <1>4 DEF TypeOK, RegistersAgree
    <2>2. inbox' = [inbox EXCEPT ![worker[running[t]].job] = "error"]
        BY <1>4 DEF Cancel, Terminate
    <2> QED
        BY <1>2, <1>4, <2>1, <2>2, JobSteps
<1>5. CASE t \notin Range(queue) /\ running[t] = 0
    <2>1. inbox' = inbox
        BY <1>5 DEF Cancel
    <2>2. \A u \in Tasks \ {t} :
            caller'[u] = caller[u] /\ flag'[u] = flag[u] /\ inbox'[u] = inbox[u]
        BY <1>2, <2>1
    <2>3. CASE caller[t] = "preparing" /\ flag[t] = "live"
        <3>1. PoolState(t) = "pending"
            BY <2>3, Seen
        <3>2. caller'[t] = "preparing" /\ flag'[t] = "cancelled" /\ inbox'[t] = "none"
            BY <1>1, <1>2, <2>1, <2>3 DEF TypeOK, PoolInv, OnePlace
        <3>3. PoolState(t)' = "failed"
            BY <3>2 DEF PoolState
        <3> QED
            BY <2>2, <3>1, <3>3, FailsAlone
    <2>4. CASE caller[t] = "preparing" /\ flag[t] # "live"
        <3>1. flag[t] = "cancelled"
            BY <1>1, <2>4 DEF TypeOK, PoolInv, Marks
        <3>2. flag' = flag
            BY <1>1, <1>2, <3>1 DEF TypeOK
        <3> QED
            BY <1>2, <2>1, <3>2, AllKept
    <2>5. CASE caller[t] # "preparing"
        <3>1. PoolState(t)' = PoolState(t)
            BY <1>2, <2>1, <2>5 DEF PoolState
        <3>2. View' = [View EXCEPT ![t] = PoolState(t)]
            BY <2>2, <3>1, OneSeen
        <3> QED
            BY <3>2 DEF View
    <2> QED
        BY <2>3, <2>4, <2>5
<1> QED
    BY <1>3, <1>4, <1>5

(* A start that fails fails everybody who awaits it and was not cancelled. *)
LEMMA StartFailsStep ==
    ASSUME PoolInv, SpawnFails
    PROVE  Pool!PoolNext \/ UNCHANGED View
<1> DEFINE S == {t \in Tasks : caller[t] = "preparing" /\ flag[t] # "cancelled"}
<1>1. /\ flag' = flag /\ inbox' = inbox
      /\ \A t \in Tasks : /\ caller[t] = "preparing" => caller'[t] = "rejected"
                          /\ caller[t] # "preparing" => caller'[t] = caller[t]
    BY DEF SpawnFails
<1>2. ASSUME NEW t \in Tasks
      PROVE  PoolState(t)' = IF t \in S THEN "failed" ELSE PoolState(t)
    <2>1. CASE caller[t] = "preparing"
        <3>1. caller'[t] = "rejected" /\ inbox'[t] = "none"
            BY <1>1, <2>1 DEF PoolInv, OnePlace
        <3>2. PoolState(t)' = "failed"
            BY <3>1 DEF PoolState
        <3>3. t \notin S => PoolState(t) = "failed"
            BY <2>1, Seen
        <3> QED
            BY <3>2, <3>3
    <2>2. CASE caller[t] # "preparing"
        <3>1. PoolState(t)' = PoolState(t)
            BY <1>1, <2>2, SeenKept
        <3> QED
            BY <2>2, <3>1
    <2> QED
        BY <2>1, <2>2
<1>3. CASE S = {}
    BY <1>2, <1>3 DEF View
<1>4. CASE S # {}
    <2>1. \A t \in S : View[t] = "pending"
        BY Seen DEF View
    <2>2. View' = [t \in Tasks |-> IF t \in S THEN "failed" ELSE View[t]]
        BY <1>2 DEF View
    <2>3. S \in SUBSET Tasks
        OBVIOUS
    <2> HIDE DEF S
    <2> QED
        BY <1>4, <2>1, <2>2, <2>3 DEF Pool!PoolNext, Pool!Fail
<1> QED
    BY <1>3, <1>4

(* The task of a worker is registered as running. *)
LEMMA JobRuns ==
    ASSUME PoolInv, NEW i \in Workers, worker[i].job # NoTask
    PROVE  \E t \in Tasks : t = worker[i].job /\ running[t] # 0
<1>1. worker[i].job \in Tasks
    BY DEF PoolInv, TypeOK, WorkerStates
<1>2. i # 0
    BY PoolSizeAssumption DEF Workers
<1> QED
    BY <1>1, <1>2 DEF PoolInv, RegistersAgree

LEMMA StepSeen ==
    PoolInv /\ PoolInv' /\ [Next]_vars
      => Pool!PoolNext \/ UNCHANGED View
<1> SUFFICES ASSUME PoolInv, PoolInv', [Next]_vars
             PROVE  Pool!PoolNext \/ UNCHANGED View
    OBVIOUS
<1>1. ASSUME NEW t \in Tasks, Submit(t) \/ Resume(t) \/ Reject(t) \/ Deliver(t) \/ Cancel(t)
      PROVE  Pool!PoolNext \/ UNCHANGED View
    BY <1>1, TaskSteps, CancelStep
<1>2. ASSUME NEW i \in Workers, OnReply(i)
      PROVE  Pool!PoolNext
    <2>1. worker[i] \in WorkerStates /\ worker[i].reply # "none" /\ worker[i].job # NoTask
        BY <1>2 DEF OnReply, PoolInv, TypeOK, Busy
    <2>2. /\ worker[i].reply \in {"complete", "error"}
          /\ inbox' = [inbox EXCEPT ![worker[i].job] = worker[i].reply]
          /\ caller' = caller /\ flag' = flag
        BY <1>2, <2>1 DEF OnReply, WorkerStates
    <2>3. PICK t \in Tasks : t = worker[i].job /\ running[t] # 0
        BY <2>1, JobRuns
    <2> QED
        BY <2>2, <2>3, JobSteps
<1>3. ASSUME NEW i \in Workers, OnExit(i), worker[i].job # NoTask
      PROVE  Pool!PoolNext
    <2>1. /\ inbox' = [inbox EXCEPT ![worker[i].job] = "error"]
          /\ caller' = caller /\ flag' = flag
        BY <1>3 DEF OnExit, Terminate
    <2>2. PICK t \in Tasks : t = worker[i].job /\ running[t] # 0
        BY <1>3, JobRuns
    <2> QED
        BY <2>1, <2>2, JobSteps
<1>4. ASSUME NEW i \in Workers,
             \/ Spawned(i) \/ Work(i, "complete") \/ Work(i, "error") \/ Crash(i)
             \/ OnExit(i) /\ worker[i].job = NoTask
             \/ Respawned(i) \/ RespawnFails(i)
      PROVE  UNCHANGED View
    <2>1. caller' = caller /\ flag' = flag /\ inbox' = inbox
        BY <1>4 DEF Spawned, Work, Crash, OnExit, Respawned, RespawnFails
    <2> QED
        BY <2>1, AllKept
<1>5. CASE SpawnFails
    BY <1>5, StartFailsStep
<1>6. CASE UNCHANGED vars
    BY <1>6, AllKept DEF vars
<1> QED
    BY <1>1, <1>2, <1>3, <1>4, <1>5, <1>6 DEF Next

(* What submitters see of the pool, whatever crashes, fails to start or is *)
(* cancelled, is TaskPool: an outcome is given once and never changes.     *)
THEOREM RefinesTaskPool == Spec => ImplementsTaskPool
<1>1. Init => Pool!PoolInit
    BY InitSeen
<1>2. PoolInv /\ PoolInv' /\ [Next]_vars => [Pool!PoolNext]_View
    BY StepSeen
<1> QED
    BY <1>1, <1>2, AlwaysPoolInv, PTL DEF Spec, ImplementsTaskPool, Pool!PoolSpec

=============================================================================
