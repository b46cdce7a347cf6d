------------------------ MODULE DownloadIsolatePool ------------------------
(***************************************************************************)
(* The pool of worker isolates of lib/services/download_manager/           *)
(* download_isolate_pool.dart: cold start, submission, the task queue,     *)
(* workers and their ports, cancellation, crashes and respawns.            *)
(*                                                                         *)
(* The main isolate runs one event at a time, so every handler below is a  *)
(* step; worker isolates run beside it and reach it only through ports.    *)
(* A port delivers in order, and the messages that one isolate sends       *)
(* arrive in the order sent: an exit notice never overtakes a reply.       *)
(***************************************************************************)
EXTENDS Integers, Sequences, FiniteSets, Functions

CONSTANTS
    Tasks,      \* task ids
    PoolSize,   \* workers of the pool
    NoTask      \* a value that is no task

ASSUME PoolSizeAssumption == PoolSize \in Nat \ {0}
ASSUME NoTaskAssumption == NoTask \notin Tasks

Workers == 1..PoolSize

VARIABLES
    boot,       \* initialize: "cold", "spawning" or "ready" (_initialized)
    worker,     \* worker[i]: the isolate at index i of _workers and its ports
    available,  \* _availableWorkers
    respawning, \* indices whose replacement isolate is being created
    queue,      \* _taskQueue
    running,    \* _runningTasks: the index that runs t, 0 for none
    flag,       \* downloadTaskCancellation: "absent", "live" or "cancelled"
    caller,     \* where the code that submitted t stands
    inbox       \* the outcome sent to t's receive port and not yet delivered

vars == <<boot, worker, available, respawning, queue, running, flag, caller,
          inbox>>

(***************************************************************************)
(* A worker: its isolate, the task whose _cancelCurrent is armed, the      *)
(* reply in flight on that task's port, and whether an exit notice is in   *)
(* flight on the worker's own port.                                        *)
(***************************************************************************)
WorkerStates == [iso : {"none", "alive", "dead"}, job : Tasks \cup {NoTask},
                 reply : {"none", "complete", "error"}, exit : BOOLEAN]

Absent == [iso |-> "none", job |-> NoTask, reply |-> "none", exit |-> FALSE]
Fresh == [Absent EXCEPT !.iso = "alive"]
Killed == [Absent EXCEPT !.iso = "dead"]

Callers == {"idle",       \* no submission of t is under way
            "preparing",  \* awaits initialize in _prepareSubmission
            "rejected",   \* that await has thrown
            "waiting"}    \* _enqueueTask was called, no outcome delivered yet

Init ==
    /\ boot = "cold"
    /\ worker = [i \in Workers |-> Absent]
    /\ available = {}
    /\ respawning = {}
    /\ queue = << >>
    /\ running = [t \in Tasks |-> 0]
    /\ flag = [t \in Tasks |-> "absent"]
    /\ caller = [t \in Tasks |-> "idle"]
    /\ inbox = [t \in Tasks |-> "none"]

-----------------------------------------------------------------------------
(* The task queue.                                                         *)

(***************************************************************************)
(* _processQueue, from queue q, available workers a, workers w and running *)
(* tasks r: tasks leave the queue first in first out while a worker is     *)
(* free, each to a worker of its own.                                      *)
(***************************************************************************)
ProcessQueue(q, a, w, r) ==
    LET k == IF Len(q) < Cardinality(a) THEN Len(q) ELSE Cardinality(a)
    IN  \E to \in Injection(1..k, a) :
          /\ queue' = SubSeq(q, k + 1, Len(q))
          /\ available' = a \ Range(to)
          /\ worker' = [i \in Workers |->
                          IF i \in Range(to)
                          THEN [w[i] EXCEPT !.job = q[CHOOSE j \in 1..k : to[j] = i]]
                          ELSE w[i]]
          /\ running' = [t \in Tasks |->
                          IF \E j \in 1..k : q[j] = t
                          THEN to[CHOOSE j \in 1..k : q[j] = t]
                          ELSE r[t]]

(* The queue without task t, which stands in it at most once. *)
Without(q, t) ==
    IF t \notin Range(q) THEN q
    ELSE LET at == CHOOSE j \in DOMAIN q : q[j] = t
         IN  SubSeq(q, 1, at - 1) \o SubSeq(q, at + 1, Len(q))

(* _enqueueTask. *)
Enqueue(t) ==
    /\ ProcessQueue(Append(queue, t), available, worker, running)
    /\ caller' = [caller EXCEPT ![t] = "waiting"]

-----------------------------------------------------------------------------
(* Submission and cold start.                                              *)

(* submitFileDownload and submitM3u8Download, up to their first await.     *)
Submit(t) ==
    /\ caller[t] = "idle"
    /\ flag' = [flag EXCEPT ![t] = "live"]
    /\ IF boot = "ready"
       THEN Enqueue(t) /\ UNCHANGED boot
       ELSE /\ boot' = "spawning"
            /\ caller' = [caller EXCEPT ![t] = "preparing"]
            /\ UNCHANGED <<worker, available, queue, running>>
    /\ UNCHANGED <<respawning, inbox>>

(* _initialize: one more worker is up; after the last one the pool is.     *)
Spawned(i) ==
    /\ boot = "spawning"
    /\ worker[i].iso = "none"
    /\ \A j \in 1..(i - 1) : worker[j].iso # "none"
    /\ worker' = [worker EXCEPT ![i] = Fresh]
    /\ available' = available \cup {i}
    /\ boot' = IF i = PoolSize THEN "ready" ELSE boot
    /\ UNCHANGED <<respawning, queue, running, flag, caller, inbox>>

(* Bug: the workers that had started are left in _workers.                 *)
SpawnFails_KeepsWorkers ==
    /\ boot = "spawning"
    /\ boot' = "cold"
    /\ available' = {}
    /\ caller' = [t \in Tasks |->
                    IF caller[t] = "preparing" THEN "rejected" ELSE caller[t]]
    /\ UNCHANGED <<worker, respawning, queue, running, flag, inbox>>

(* A worker fails to start or to shake hands within 30 seconds: catchError *)
(* of initialize disposes of the others, and everybody who awaits it gets  *)
(* the error.                                                              *)
SpawnFails ==
    /\ boot = "spawning"
    /\ boot' = "cold"
    /\ worker' = [i \in Workers |-> Absent]
    /\ available' = {}
    /\ caller' = [t \in Tasks |->
                    IF caller[t] = "preparing" THEN "rejected" ELSE caller[t]]
    /\ UNCHANGED <<respawning, queue, running, flag, inbox>>

(* Bug: a cancellation during the cold start is not looked at.             *)
Resume_IgnoresCancel(t) ==
    /\ caller[t] = "preparing"
    /\ boot = "ready"
    /\ Enqueue(t)
    /\ UNCHANGED <<boot, respawning, inbox, flag>>

(* _prepareSubmission returns: a task cancelled meanwhile is reported as   *)
(* cancelled and never queued.                                             *)
Resume(t) ==
    /\ caller[t] = "preparing"
    /\ boot = "ready"
    /\ IF flag[t] = "cancelled"
       THEN /\ flag' = [flag EXCEPT ![t] = "absent"]
            /\ caller' = [caller EXCEPT ![t] = "idle"]
            /\ UNCHANGED <<worker, available, queue, running>>
       ELSE Enqueue(t) /\ UNCHANGED flag
    /\ UNCHANGED <<boot, respawning, inbox>>

(* _prepareSubmission rethrows what initialize threw.                      *)
Reject(t) ==
    /\ caller[t] = "rejected"
    /\ caller' = [caller EXCEPT ![t] = "idle"]
    /\ flag' = [flag EXCEPT ![t] = "absent"]
    /\ UNCHANGED <<boot, worker, available, respawning, queue, running, inbox>>

-----------------------------------------------------------------------------
(* Workers.                                                                *)

(* The isolate of worker i finishes its task and replies.                  *)
Work(i, r) ==
    /\ worker[i].iso = "alive"
    /\ worker[i].job # NoTask
    /\ worker[i].reply = "none"
    /\ worker' = [worker EXCEPT ![i].reply = r]
    /\ UNCHANGED <<boot, available, respawning, queue, running, flag, caller,
                   inbox>>

(* Bug: the task stays registered as running.                              *)
OnReply_KeepsRunning(i) ==
    /\ worker[i].reply # "none"
    /\ inbox' = [inbox EXCEPT ![worker[i].job] = worker[i].reply]
    /\ ProcessQueue(queue, available \cup {i},
                    [worker EXCEPT ![i] = [@ EXCEPT !.job = NoTask, !.reply = "none"]],
                    running)
    /\ UNCHANGED <<boot, respawning, flag, caller>>

(* The reply arrives on the task's port: it is forwarded to the submitter, *)
(* and the then of _processQueue gives the worker back and looks at the    *)
(* queue.                                                                  *)
OnReply(i) ==
    /\ worker[i].reply # "none"
    /\ inbox' = [inbox EXCEPT ![worker[i].job] = worker[i].reply]
    /\ ProcessQueue(queue, available \cup {i},
                    [worker EXCEPT ![i] = [@ EXCEPT !.job = NoTask, !.reply = "none"]],
                    [running EXCEPT ![worker[i].job] = 0])
    /\ UNCHANGED <<boot, respawning, flag, caller>>

(* Bug: the isolate dies without a word to the submitter.                  *)
Terminate_Silent(i) ==
    /\ inbox' = inbox
    /\ worker' = [worker EXCEPT ![i] = Killed]
    /\ running' = [running EXCEPT ![worker[i].job] = 0]
    /\ respawning' = respawning \cup {i}

(***************************************************************************)
(* _cancelCurrent of worker i, and the then of _processQueue up to its     *)
(* await of a new worker: the isolate is killed, both ports are closed     *)
(* (what was in flight on them is lost), the submitter gets an error.      *)
(***************************************************************************)
Terminate(i) ==
    /\ inbox' = [inbox EXCEPT ![worker[i].job] = "error"]
    /\ worker' = [worker EXCEPT ![i] = Killed]
    /\ running' = [running EXCEPT ![worker[i].job] = 0]
    /\ respawning' = respawning \cup {i}

(* The isolate of worker i dies by itself: an uncaught error, or no memory.*)
Crash(i) ==
    /\ worker[i].iso = "alive"
    /\ worker' = [worker EXCEPT ![i].iso = "dead", ![i].exit = TRUE]
    /\ UNCHANGED <<boot, available, respawning, queue, running, flag, caller,
                   inbox>>

(* The exit notice arrives: it ends the running task, if there is one, and *)
(* is ignored if there is none.                                            *)
OnExit(i) ==
    /\ worker[i].exit
    /\ worker[i].reply = "none"
    /\ IF worker[i].job # NoTask
       THEN Terminate(i)
       ELSE /\ worker' = [worker EXCEPT ![i].exit = FALSE]
            /\ UNCHANGED <<running, respawning, inbox>>
    /\ UNCHANGED <<boot, available, queue, flag, caller>>

(* Bug: the new worker is made available, the queue is not looked at.      *)
Respawned_NoQueue(i) ==
    /\ i \in respawning
    /\ respawning' = respawning \ {i}
    /\ worker' = [worker EXCEPT ![i] = Fresh]
    /\ available' = available \cup {i}
    /\ UNCHANGED <<boot, queue, running, flag, caller, inbox>>

(* The replacement of a terminated worker is up.                           *)
Respawned(i) ==
    /\ i \in respawning
    /\ respawning' = respawning \ {i}
    /\ ProcessQueue(queue, available \cup {i}, [worker EXCEPT ![i] = Fresh], running)
    /\ UNCHANGED <<boot, flag, caller, inbox>>

(* It fails to start: the error of the then is nobody's, and the index is  *)
(* never made available again.                                             *)
RespawnFails(i) ==
    /\ i \in respawning
    /\ respawning' = respawning \ {i}
    /\ UNCHANGED <<boot, worker, available, queue, running, flag, caller, inbox>>

-----------------------------------------------------------------------------
(* Outcomes and cancellation.                                              *)

(* _listenToTask: the outcome reaches the submitter, whose port closes.    *)
Deliver(t) ==
    /\ inbox[t] # "none"
    /\ inbox' = [inbox EXCEPT ![t] = "none"]
    /\ flag' = [flag EXCEPT ![t] = "absent"]
    /\ caller' = [caller EXCEPT ![t] = "idle"]
    /\ UNCHANGED <<boot, worker, available, respawning, queue, running>>

(* Bug: a queued task is reported as cancelled but stays in the queue.     *)
Cancel_LeavesQueue(t) ==
    /\ flag' = [flag EXCEPT ![t] = IF @ = "absent" THEN @ ELSE "cancelled"]
    /\ IF t \in Range(queue)
       THEN /\ inbox' = [inbox EXCEPT ![t] = "error"]
            /\ UNCHANGED <<worker, running, respawning, queue>>
       ELSE /\ IF running[t] # 0
               THEN Terminate(running[t])
               ELSE UNCHANGED <<worker, running, respawning, inbox>>
            /\ UNCHANGED queue
    /\ UNCHANGED <<boot, available, caller>>

(* Bug: whatever stage a submission is in, it is sent the cancel error.    *)
Cancel_AlwaysReports(t) ==
    /\ flag' = [flag EXCEPT ![t] = IF @ = "absent" THEN @ ELSE "cancelled"]
    /\ queue' = Without(queue, t)
    /\ IF running[t] # 0
       THEN Terminate(running[t])
       ELSE /\ inbox' = [inbox EXCEPT ![t] = IF flag[t] = "absent" THEN @ ELSE "error"]
            /\ UNCHANGED <<worker, running, respawning>>
    /\ UNCHANGED <<boot, available, caller>>

(***************************************************************************)
(* cancelTask, from cancelDownloads or from the close of a downloader: it  *)
(* marks the submission, takes a queued task out of the queue with an      *)
(* error for its submitter, and kills the isolate of a running one.        *)
(***************************************************************************)
Cancel(t) ==
    /\ flag' = [flag EXCEPT ![t] = IF @ = "absent" THEN @ ELSE "cancelled"]
    /\ IF t \in Range(queue)
       THEN /\ queue' = Without(queue, t)
            /\ inbox' = [inbox EXCEPT ![t] = "error"]
            /\ UNCHANGED <<worker, running, respawning>>
       ELSE /\ IF running[t] # 0
               THEN Terminate(running[t])
               ELSE UNCHANGED <<worker, running, respawning, inbox>>
            /\ UNCHANGED queue
    /\ UNCHANGED <<boot, available, caller>>

Next ==
    \/ \E t \in Tasks : \/ Submit(t)
                        \/ Resume(t)
                        \/ Reject(t)
                        \/ Deliver(t)
                        \/ Cancel(t)
    \/ \E i \in Workers : \/ Spawned(i)
                          \/ Work(i, "complete")
                          \/ Work(i, "error")
                          \/ OnReply(i)
                          \/ Crash(i)
                          \/ OnExit(i)
                          \/ Respawned(i)
                          \/ RespawnFails(i)
    \/ SpawnFails

Spec == Init /\ [][Next]_vars

(***************************************************************************)
(* The event loop delivers what ports hold; a handshake succeeds or times  *)
(* out; a worker's downloads are bounded by timeouts and three attempts.   *)
(* Nobody has to submit or cancel, and nothing has to crash.               *)
(***************************************************************************)
Fairness ==
    /\ WF_vars(SpawnFails \/ \E i \in Workers : Spawned(i))
    /\ \A t \in Tasks : /\ WF_vars(Resume(t))
                        /\ WF_vars(Reject(t))
                        /\ WF_vars(Deliver(t))
    /\ \A i \in Workers : /\ WF_vars(Work(i, "complete") \/ Work(i, "error"))
                          /\ WF_vars(OnReply(i))
                          /\ WF_vars(OnExit(i))
                          /\ WF_vars(Respawned(i) \/ RespawnFails(i))

FairSpec == Spec /\ Fairness

-----------------------------------------------------------------------------
(* Properties.                                                             *)

(* The state has its types, and a pool whose start has failed keeps        *)
(* nothing of it: a worker left behind would shift the indices of the next *)
(* start.                                                                  *)
TypeOK ==
    /\ boot \in {"cold", "spawning", "ready"}
    /\ worker \in [Workers -> WorkerStates]
    /\ available \subseteq Workers
    /\ respawning \subseteq Workers
    /\ queue \in Seq(Tasks)
    /\ running \in [Tasks -> Workers \cup {0}]
    /\ flag \in [Tasks -> {"absent", "live", "cancelled"}]
    /\ caller \in [Tasks -> Callers]
    /\ inbox \in [Tasks -> {"none", "complete", "error"}]
    /\ boot = "cold" => available = {} /\ \A i \in Workers : worker[i] = Absent

(* No task is lost or doubled: a submission that waits for its outcome is  *)
(* in the queue once, or on one worker, or has its outcome on the way, and *)
(* exactly one of these; a task nobody waits for is nowhere.  A task that  *)
(* falls between the three leaves its downloader, and with it the slot of  *)
(* its source in the gate, waiting forever.                                *)
Places(t) ==
    {<<"queue", j>> : j \in {j \in DOMAIN queue : queue[j] = t}}
    \cup {<<"worker", i>> : i \in {i \in Workers : worker[i].job = t}}
    \cup {<<"inbox", 1>> : x \in {x \in {1} : inbox[t] # "none"}}

EveryTaskInOnePlace ==
    \A t \in Tasks :
        Cardinality(Places(t)) = IF caller[t] = "waiting" THEN 1 ELSE 0

(* The two registers of who is busy agree: a task is registered as running *)
(* on worker i exactly while i's cancel hook is armed for it, and a worker *)
(* offered to the queue has no task, is up and is not being replaced.  A   *)
(* stale entry would let a cancellation kill the isolate of another task.  *)
RegistersAgree ==
    /\ \A t \in Tasks, i \in Workers : running[t] = i <=> worker[i].job = t
    /\ \A i \in available : /\ worker[i].job = NoTask
                            /\ worker[i].iso # "none"
                            /\ i \notin respawning

(* A cancelled task writes nothing more: once cancelTask has returned, the *)
(* task is neither queued nor on a worker, whatever it was doing before    *)
(* (including waiting for the cold start).                                 *)
CancelStops ==
    \A t \in Tasks : flag[t] = "cancelled" =>
        t \notin Range(queue) /\ \A i \in Workers : worker[i].job # t

(* A task never waits in the queue beside a free worker.                   *)
NoIdleStall == queue # << >> => available = {}

(* The pool implements what it promises.  A submission cancelled before    *)
(* the pool is up has its outcome already.                                 *)
PoolState(t) ==
    CASE caller[t] = "idle" -> "idle"
      [] inbox[t] = "complete" -> "done"
      [] \/ inbox[t] = "error"
         \/ caller[t] = "rejected"
         \/ caller[t] = "preparing" /\ flag[t] = "cancelled" -> "failed"
      [] OTHER -> "pending"

View == [t \in Tasks |-> PoolState(t)]

Pool == INSTANCE TaskPool WITH state <- View

ImplementsTaskPool == Pool!PoolSpec

(* A worker index that can never run a task again: its isolate is dead and *)
(* neither an exit notice nor a replacement is on the way.                 *)
Lost(i) == worker[i].iso = "dead" /\ ~worker[i].exit /\ i \notin respawning

(* Every submission settles: its submitter gets an outcome.                *)
EveryTaskSettles == \A t \in Tasks : caller[t] # "idle" ~> caller[t] = "idle"

(* As long as no worker is lost, every submission settles, through cold    *)
(* starts that fail, crashes of busy workers and cancellations.            *)
SettlesWhileNoWorkerLost == [](\A i \in Workers : ~Lost(i)) => EveryTaskSettles

(* What the tests call "worker startup errors surface instead of hanging   *)
(* forever": where no isolate that has started dies by itself, so that     *)
(* only the start of an isolate can fail, every submission settles.        *)
StartupErrorsSurface ==
    [](\A i \in Workers : ~worker[i].exit) => EveryTaskSettles

=============================================================================
