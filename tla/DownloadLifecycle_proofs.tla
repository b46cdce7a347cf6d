---------------------- MODULE DownloadLifecycle_proofs ----------------------
(***************************************************************************)
(* The attempts use the gate as it is meant to be used, so that all that   *)
(* is proved about the gate alone holds of it in the whole lifecycle; they *)
(* use the pool as it is meant to be; and a missing record means that the  *)
(* attempt was cancelled.                                                  *)
(***************************************************************************)
EXTENDS DownloadLifecycle, DownloadSlots_proofs

(* What the user does to a download, and what goes on beside the attempts. *)
UserStep(d) ==
    Tap(d) \/ AddToQueue(d) \/ StartDue(d) \/ StartDropped(d) \/ Cancel(d)

OtherStep(d) == Progress(d) \/ PoolStep(d) \/ Converted(d) \/ ConvertFails(d)

(* processDownloads only owes starts.                                      *)
LEMMA QueueOnlyOwes ==
    ASSUME ProcessDownloads \/ UNCHANGED vars
    PROVE  /\ UNCHANGED <<record, writes, pc, acquired, task, converting,
                         cancelled, uncaught>>
           /\ UNCHANGED gateVars
BY DEF ProcessDownloads, attempts, vars, lifeVars

-----------------------------------------------------------------------------
(* What the shared steps do to the gate.                                   *)

(* An attempt leaves with a release, or without touching the gate.         *)
LEMMA LeaveUsesGate ==
    ASSUME NEW d \in Downloads, Leave(d) \/ MarkFailed(d)
    PROVE  Release(d) \/ UNCHANGED gateVars
BY DEF Leave, MarkFailed

(* A user's action and a write leave the gate alone.                       *)
LEMMA UsersLeaveGate ==
    ASSUME NEW d \in Downloads, Write \/ UserStep(d)
    PROVE  UNCHANGED gateVars
BY DEF Write, UserStep, Tap, AddToQueue, StartDue, StartDropped, Cancel, Start, attempts

(* So do progress, the pool and conversions.                               *)
LEMMA PoolLeavesGate ==
    ASSUME NEW d \in Downloads, OtherStep(d)
    PROVE  UNCHANGED gateVars
BY DEF OtherStep, Progress, PoolStep, Converted, ConvertFails

(* A step of an attempt asks the gate, is woken by it, releases it, or     *)
(* leaves it alone.                                                        *)
LEMMA AttemptUsesGate ==
    ASSUME NEW d \in Downloads, AttemptStep(d)
    PROVE  \/ \E l \in Limits : Acquire(d, l)
           \/ Launch(d)
           \/ Release(d)
           \/ UNCHANGED gateVars
<1>1. CASE GoToGate(d)
    BY <1>1, LeaveUsesGate DEF GoToGate
<1>2. CASE Timer(d)
    BY <1>2 DEF Timer
<1>3. CASE Enter(d)
    BY <1>3 DEF Enter
<1>4. CASE Refused(d) \/ Prepared(d) \/ Closed(d)
    BY <1>4, LeaveUsesGate DEF Refused, Prepared, Closed
<1>5. CASE PrepareFails(d) \/ SubmitFails(d) \/ CollectError(d)
           \/ MergeFails(d) \/ CloseFails(d)
    BY <1>5, LeaveUsesGate
    DEF PrepareFails, SubmitFails, CollectError, MergeFails, CloseFails
<1>6. CASE SubmitTask(d) \/ AllOnDisk(d) \/ Collect(d) \/ Merged(d)
    BY <1>6 DEF SubmitTask, AllOnDisk, Collect, Merged
<1> QED
    BY <1>1, <1>2, <1>3, <1>4, <1>5, <1>6 DEF AttemptStep

(* Every step of the lifecycle is a step of the gate, or none of its       *)
(* business.                                                               *)
LEMMA LifeNextUsesGate == [LifeNext]_vars => [Next]_gateVars
<1> SUFFICES ASSUME [LifeNext]_vars PROVE [Next]_gateVars
    OBVIOUS
<1>1. CASE UNCHANGED vars \/ ProcessDownloads
    BY <1>1, QueueOnlyOwes
<1>2. CASE Write
    BY <1>2 DEF Write
<1>3. ASSUME NEW d \in Downloads, UserStep(d) \/ OtherStep(d)
      PROVE  UNCHANGED gateVars
    BY <1>3, UsersLeaveGate, PoolLeavesGate
<1>4. ASSUME NEW d \in Downloads, AttemptStep(d)
      PROVE  [Next]_gateVars
    BY <1>4, AttemptUsesGate DEF Next
<1> QED
    BY <1>1, <1>2, <1>3, <1>4 DEF LifeNext, UserStep, OtherStep

(* Whatever the lifecycle does to the gate is an operation of the gate.    *)
THEOREM LifecycleUsesGate == LifeSpec => Spec
<1>1. LifeInit => Init
    BY DEF LifeInit
<1>2. [LifeNext]_vars => [Next]_gateVars
    BY LifeNextUsesGate
<1> QED
    BY <1>1, <1>2, PTL DEF LifeSpec, Spec

(* So one source has one download in the whole lifecycle, whatever fails   *)
(* or is cancelled, and no waiter is left asleep.                          *)
THEOREM LifecycleSlots == LifeSpec => [](SlotsMatchHolders /\ NoStrandedWaiter)
BY LifecycleUsesGate, SlotsCorrect, WaitersServed, PTL

(* And the order of the user holds in the whole lifecycle: the gate that   *)
(* the attempts use implements the slots, admits within the limit and lets *)
(* nobody past a waiter that ranks before it.                              *)
THEOREM LifecycleOrder == LifeSpec => ImplementsSlots /\ AdmitsWithinLimit /\ NoQueueJumping
BY LifecycleUsesGate, GateImplementsSlots, AdmissionWithinLimit, OrderHonoured, PTL

-----------------------------------------------------------------------------
(***************************************************************************)
(* The inductive invariant of the attempts.  SlotsFollowAttempts is not    *)
(* inductive: that the attempt goes on from where it awaited its write     *)
(* needs that the write is there, and is its only one.                     *)
(***************************************************************************)

Outside == {"idle", "enqueuing", "enqueued"}
Inside == {"preparing", "submitting", "loading", "fetching", "streaming",
           "merging", "storing", "closing", "marking", "marked"}

(* Where an attempt stands, what it remembers, and what the gate holds for *)
(* it, agree.                                                              *)
Placed(d) ==
    /\ acquired[d] <=> pc[d] \in Inside
    /\ pc[d] \in Outside => phase[d] = "out"
    /\ pc[d] = "gating" => phase[d] # "out"
    /\ pc[d] \in Inside => phase[d] = "running"

(* An attempt that a queued write will wake awaits it, and no other.       *)
WakesMatch ==
    /\ \A i \in DOMAIN writes :
          writes[i].wakes => pc[writes[i].id] \in DOMAIN Woken
    /\ \A i, j \in DOMAIN writes :
          writes[i].wakes /\ writes[j].wakes /\ writes[i].id = writes[j].id => i = j

LifeTypes ==
    /\ record \in [Downloads -> Records]
    /\ writes \in Seq(WriteRequests)
    /\ pc \in [Downloads -> Points]
    /\ acquired \in [Downloads -> BOOLEAN]

LifeInv == GateInv /\ LifeTypes /\ WakesMatch /\ \A d \in Downloads : Placed(d)

(* The awaits that end with a write, and where they end.                   *)
LEMMA WokenPoints ==
    /\ DOMAIN Woken = {"enqueuing", "storing", "marking"}
    /\ Woken["enqueuing"] = "enqueued"
    /\ Woken["storing"] = "closing"
    /\ Woken["marking"] = "marked"
BY DEF Woken

LEMMA PointsAre ==
    Points = Outside \cup Inside \cup {"gating"}
BY WokenPoints DEF Points, Outside, Inside

-----------------------------------------------------------------------------
(* The gate, seen from one download.                                       *)

(* The others at the gate move from waiting to launching, if at all.       *)
OthersOnlyGranted(d) ==
    \A e \in Downloads \ {d} :
        phase'[e] = phase[e] \/ (phase[e] = "waiting" /\ phase'[e] = "launching")

LEMMA DispatchGrantsListed ==
    ASSUME NEW q, NEW n, NEW busy, NEW max, NEW ph, Dispatch(q, n, busy, max, ph)
    PROVE  \A e \in Downloads :
               phase'[e] = ph[e] \/ (e \in Range(q) /\ phase'[e] = "launching")
BY DEF Dispatch, Granted, Eligible

LEMMA AcquirePlaces ==
    ASSUME GateInv, NEW d \in Downloads, NEW l \in Limits, Acquire(d, l)
    PROVE  OthersOnlyGranted(d) /\ phase'[d] # "out"
<1> DEFINE ph == [phase EXCEPT ![d] = "waiting"]
           q == Append(waiters, d)
<1>1. \A e \in Downloads :
          phase'[e] = ph[e] \/ (e \in Range(q) /\ phase'[e] = "launching")
    <2>1. Dispatch(q, active, activeSources, maxConcurrent', ph)
        BY DEF Acquire
    <2> HIDE DEF q, ph
    <2> QED
        BY <2>1, DispatchGrantsListed
<1>2. Range(q) = Waiting \cup {d}
    BY RangeOfAppend DEF GateInv, TypeOK, ListIsWaiting
<1>3. \A e \in Downloads : ph[e] = IF e = d THEN "waiting" ELSE phase[e]
    BY DEF GateInv, TypeOK
<1> HIDE DEF ph, q
<1> QED
    BY <1>1, <1>2, <1>3 DEF OthersOnlyGranted, Waiting, In

LEMMA ReleasePlaces ==
    ASSUME GateInv, NEW d \in Downloads, Release(d)
    PROVE  OthersOnlyGranted(d) /\ phase'[d] = "out"
<1> DEFINE ph == [phase EXCEPT ![d] = "out"]
<1>1. \A e \in Downloads :
          phase'[e] = ph[e] \/ (e \in Range(waiters) /\ phase'[e] = "launching")
    <2> DEFINE n == IF active > 0 THEN active - 1 ELSE active
               busy == activeSources \ {SourceOf[d]}
    <2>1. Dispatch(waiters, n, busy, maxConcurrent, ph)
        BY DEF Release
    <2> HIDE DEF n, busy, ph
    <2> QED
        BY <2>1, DispatchGrantsListed
<1>2. Range(waiters) = Waiting /\ phase[d] = "running"
    BY DEF GateInv, ListIsWaiting, Release
<1>3. \A e \in Downloads : ph[e] = IF e = d THEN "out" ELSE phase[e]
    BY DEF GateInv, TypeOK
<1> HIDE DEF ph
<1> QED
    BY <1>1, <1>2, <1>3 DEF OthersOnlyGranted, Waiting, In

-----------------------------------------------------------------------------
(* One download moves.                                                     *)

(* A step of d's attempt that awaits no write, or of its user, keeps the   *)
(* others in place, and may queue one write for d.                         *)
Moves(d) ==
    /\ \A e \in Downloads \ {d} : pc'[e] = pc[e] /\ acquired'[e] = acquired[e]
    /\ OthersOnlyGranted(d)

QueuesFor(d) ==
    \/ writes' = writes
    \/ \E op \in {"enqueue", "tap", "save", "delete"}, row \in SUBSET Flags, w \in BOOLEAN :
          /\ writes' = Append(writes, [op |-> op, id |-> d, row |-> row, wakes |-> w])
          /\ w => pc[d] \notin DOMAIN Woken /\ pc'[d] \in DOMAIN Woken

(* A move keeps the others placed.                                         *)
LEMMA OthersPlaced ==
    ASSUME LifeInv, NEW d \in Downloads, Moves(d), Placed(d)'
    PROVE  \A e \in Downloads : Placed(e)'
<1> SUFFICES ASSUME NEW e \in Downloads \ {d} PROVE Placed(e)'
    OBVIOUS
<1>1. /\ pc'[e] = pc[e] /\ (acquired'[e] = acquired[e])
      /\ phase'[e] = phase[e] \/ (phase[e] = "waiting" /\ phase'[e] = "launching")
    BY DEF Moves, OthersOnlyGranted
<1>2. Placed(e)
    BY DEF LifeInv
<1> QED
    BY <1>1, <1>2 DEF Placed

(* A queued write keeps the wakes in order.                                *)
LEMMA WakesKept ==
    ASSUME LifeInv, NEW d \in Downloads, QueuesFor(d),
           \A e \in Downloads \ {d} : pc'[e] = pc[e],
           pc'[d] = pc[d] \/ pc[d] \notin DOMAIN Woken
    PROVE  WakesMatch' /\ writes' \in Seq(WriteRequests)
<1>1. /\ writes \in Seq(WriteRequests)
      /\ WakesMatch
    BY DEF LifeInv, LifeTypes
<1>2. \A i \in DOMAIN writes : writes[i].id \in Downloads
    <2>1. \A i \in DOMAIN writes : writes[i] \in WriteRequests
        BY <1>1
    <2>2. \A x \in WriteRequests : x.id \in Downloads
        BY DEF WriteRequests
    <2> QED
        BY <2>1, <2>2
<1>3. \A i \in DOMAIN writes :
          writes[i].wakes =>
              /\ pc[writes[i].id] \in DOMAIN Woken
              /\ pc'[writes[i].id] \in DOMAIN Woken
    BY <1>1, <1>2 DEF WakesMatch
<1>4. CASE writes' = writes
    BY <1>1, <1>3, <1>4 DEF WakesMatch
<1>5. ASSUME NEW op \in {"enqueue", "tap", "save", "delete"}, NEW row \in SUBSET Flags,
             NEW w \in BOOLEAN,
             writes' = Append(writes, [op |-> op, id |-> d, row |-> row, wakes |-> w]),
             w => pc[d] \notin DOMAIN Woken /\ pc'[d] \in DOMAIN Woken
      PROVE  WakesMatch' /\ writes' \in Seq(WriteRequests)
    <2> DEFINE x == [op |-> op, id |-> d, row |-> row, wakes |-> w]
    <2>1. x \in WriteRequests /\ x.id = d /\ x.wakes = w
        BY DEF WriteRequests
    <2> HIDE DEF x
    <2>2. /\ DOMAIN writes' = 1..(Len(writes) + 1)
          /\ DOMAIN writes = 1..Len(writes) /\ Len(writes) \in Nat
          /\ \A i \in DOMAIN writes : writes'[i] = writes[i]
          /\ writes'[Len(writes) + 1] = x
          /\ writes' \in Seq(WriteRequests)
        BY <1>1, <1>5, <2>1 DEF x
    <2>3. \A i \in DOMAIN writes' : i \in DOMAIN writes \/ i = Len(writes) + 1
        BY <2>2
    <2>4. \A i \in DOMAIN writes : w /\ writes[i].wakes => writes[i].id # d
        BY <1>3, <1>5
    <2>5. \A i \in DOMAIN writes' :
              writes'[i].wakes => pc'[writes'[i].id] \in DOMAIN Woken
        BY <1>3, <1>5, <2>1, <2>2, <2>3
    <2>6. \A i, j \in DOMAIN writes' :
              writes'[i].wakes /\ writes'[j].wakes /\ writes'[i].id = writes'[j].id
                  => i = j
        BY <1>1, <2>1, <2>2, <2>3, <2>4 DEF WakesMatch
    <2> QED
        BY <2>2, <2>5, <2>6 DEF WakesMatch
<1> QED
    BY <1>4, <1>5 DEF QueuesFor

(* What every step of one download's attempt, and of its user, keeps.      *)
Kept(d) ==
    /\ Moves(d)
    /\ QueuesFor(d)
    /\ pc'[d] = pc[d] \/ pc[d] \notin DOMAIN Woken
    /\ Placed(d)'
    /\ pc' \in [Downloads -> Points]
    /\ acquired' \in [Downloads -> BOOLEAN]

LEMMA KeptKeeps ==
    ASSUME LifeInv, [LifeNext]_vars, NEW d \in Downloads, Kept(d), record' = record
    PROVE  LifeInv'
<1>1. GateInv'
    BY LifeNextUsesGate, NextKeeps DEF LifeInv
<1>2. WakesMatch' /\ writes' \in Seq(WriteRequests)
    BY WakesKept DEF Kept, Moves
<1>3. \A e \in Downloads : Placed(e)'
    BY OthersPlaced DEF Kept
<1>4. LifeTypes'
    BY <1>2 DEF LifeTypes, Kept, LifeInv
<1> QED
    BY <1>1, <1>2, <1>3, <1>4 DEF LifeInv

(* A step that leaves the attempts and the gate alone.                     *)
LEMMA StillKept ==
    ASSUME LifeInv, NEW d \in Downloads, UNCHANGED <<gateVars, pc, acquired>>,
           QueuesFor(d)
    PROVE  Kept(d)
<1>1. Placed(d)'
    BY DEF LifeInv, Placed, gateVars
<1>2. Moves(d)
    BY DEF Moves, OthersOnlyGranted, gateVars
<1> QED
    BY <1>1, <1>2 DEF Kept, LifeInv, LifeTypes

(* A step to another point on the same side of the gate.                   *)
LEMMA AdvanceKept ==
    ASSUME LifeInv, NEW d \in Downloads, NEW x \in Points,
           pc' = [pc EXCEPT ![d] = x], UNCHANGED <<gateVars, acquired>>,
           pc[d] \notin DOMAIN Woken,
           \/ pc[d] \in Inside /\ x \in Inside
           \/ pc[d] \in Outside /\ x \in Outside,
           QueuesFor(d)
    PROVE  Kept(d)
<1>1. pc \in [Downloads -> Points] /\ acquired \in [Downloads -> BOOLEAN]
    BY DEF LifeInv, LifeTypes
<1>2. pc'[d] = x /\ \A e \in Downloads \ {d} : pc'[e] = pc[e]
    BY <1>1
<1>3. Placed(d)'
    BY <1>2 DEF LifeInv, Placed, gateVars, Inside, Outside
<1>4. Moves(d)
    BY <1>2 DEF Moves, OthersOnlyGranted, gateVars
<1>5. pc' \in [Downloads -> Points]
    BY <1>1
<1> QED
    BY <1>1, <1>3, <1>4, <1>5 DEF Kept

(* The finally: an attempt that got past the gate returns its slot, one    *)
(* that did not has none.                                                  *)
LEMMA LeaveKept ==
    ASSUME LifeInv, NEW d \in Downloads, Leave(d), writes' = writes,
           pc[d] \in Inside \cup {"enqueued"}, pc[d] \notin DOMAIN Woken
    PROVE  Kept(d)
<1>1. pc \in [Downloads -> Points] /\ acquired \in [Downloads -> BOOLEAN]
    BY DEF LifeInv, LifeTypes
<1>2. /\ pc' = [pc EXCEPT ![d] = "idle"]
      /\ acquired' = [acquired EXCEPT ![d] = FALSE]
    BY DEF Leave
<1>3. /\ pc'[d] = "idle" /\ ~acquired'[d]
      /\ \A e \in Downloads \ {d} : pc'[e] = pc[e] /\ acquired'[e] = acquired[e]
    BY <1>1, <1>2
<1>4. OthersOnlyGranted(d) /\ phase'[d] = "out"
    <2>1. CASE acquired[d]
        BY <2>1, ReleasePlaces DEF Leave, LifeInv
    <2>2. CASE ~acquired[d]
        <3>1. UNCHANGED gateVars
            BY <2>2 DEF Leave
        <3>2. phase[d] = "out"
            BY <2>2 DEF LifeInv, Placed, Outside
        <3> QED
            BY <3>1, <3>2 DEF OthersOnlyGranted, gateVars
    <2> QED
        BY <2>1, <2>2
<1>5. Placed(d)'
    BY <1>3, <1>4 DEF Placed, Inside
<1>6. pc' \in [Downloads -> Points] /\ acquired' \in [Downloads -> BOOLEAN]
    BY <1>1, <1>2 DEF Points
<1> QED
    BY <1>3, <1>4, <1>5, <1>6 DEF Kept, Moves, QueuesFor

(* The rows that are saved are records.                                    *)
LEMMA RowsAreFlags ==
    ASSUME LifeInv, NEW d \in Downloads, record[d] # Absent
    PROVE  /\ Failed(record[d]) \in SUBSET Flags
           /\ Done(record[d]) \in SUBSET Flags
           /\ Undone(record[d]) \in SUBSET Flags
<1>1. record[d] \in SUBSET Flags
    BY DEF LifeInv, LifeTypes, Records
<1> QED
    BY <1>1 DEF Failed, Done, Undone, Flags

(* The failure of an attempt that got past the gate.                       *)
LEMMA MarkFailedKept ==
    ASSUME LifeInv, NEW d \in Downloads, MarkFailed(d),
           pc[d] \in Inside, pc[d] \notin DOMAIN Woken
    PROVE  Kept(d)
<1>1. CASE record[d] = Absent \/ "isDownload" \in record[d]
    BY <1>1, LeaveKept DEF MarkFailed
<1>2. CASE ~(record[d] = Absent \/ "isDownload" \in record[d])
    <2>1. /\ QueueSave(d, Failed(record[d]), TRUE)
          /\ pc' = [pc EXCEPT ![d] = "marking"]
          /\ UNCHANGED <<gateVars, acquired>>
        BY <1>2 DEF MarkFailed
    <2>2. Failed(record[d]) \in SUBSET Flags
        BY <1>2, RowsAreFlags
    <2>3. pc'[d] = "marking"
        BY <2>1 DEF LifeInv, LifeTypes
    <2>4. QueuesFor(d)
        BY <2>1, <2>2, <2>3, WokenPoints DEF QueueSave, Queue, QueuesFor
    <2>5. "marking" \in Points /\ "marking" \in Inside
        BY PointsAre DEF Inside
    <2> QED
        BY <2>1, <2>4, <2>5, AdvanceKept
<1> QED
    BY <1>1, <1>2

(* A completion, or a progress, is queued for nobody to await.             *)
LEMMA ProgressQueues ==
    ASSUME LifeInv, NEW d \in Downloads,
           \/ SetCompleted(d)
           \/ SetProgress(d, Undone(record[d]))
    PROVE  QueuesFor(d)
<1>1. CASE record[d] = Absent
    BY <1>1 DEF SetCompleted, SetProgress, QueuesFor
<1>2. CASE record[d] # Absent
    <2>1. Done(record[d]) \in SUBSET Flags /\ Undone(record[d]) \in SUBSET Flags
        BY <1>2, RowsAreFlags
    <2> QED
        BY <1>2, <2>1 DEF SetCompleted, SetProgress, QueueSave, Queue, QueuesFor
<1> QED
    BY <1>1, <1>2

-----------------------------------------------------------------------------
(* The actions.                                                            *)

(* What the user does: an attempt starts awaiting its enqueue, and all the *)
(* rest is queued for nobody to await.                                     *)
LEMMA UserKept ==
    ASSUME LifeInv, NEW d \in Downloads, UserStep(d)
    PROVE  Kept(d) /\ record' = record
<1>1. CASE StartDue(d)
    <2>1. Start(d)
        BY <1>1 DEF StartDue
    <2>2. /\ pc[d] = "idle" /\ pc' = [pc EXCEPT ![d] = "enqueuing"]
          /\ QueueEnqueue(d, TRUE)
          /\ UNCHANGED <<gateVars, acquired>> /\ record' = record
        BY <2>1 DEF Start, scheduled
    <2>3. pc'[d] = "enqueuing"
        BY <2>2 DEF LifeInv, LifeTypes
    <2>4. QueuesFor(d)
        BY <2>2, <2>3, WokenPoints DEF QueueEnqueue, Queue, QueuesFor
    <2>5. "enqueuing" \in Points /\ "enqueuing" \in Outside /\ "idle" \in Outside
        BY PointsAre DEF Outside
    <2> QED
        BY <2>2, <2>4, <2>5, WokenPoints, AdvanceKept
<1>2. CASE Tap(d) \/ AddToQueue(d) \/ StartDropped(d)
    <2>1. QueuesFor(d)
        BY <1>2 DEF Tap, AddToQueue, StartDropped, QueueTap, QueueEnqueue, Queue,
                    QueuesFor
    <2>2. UNCHANGED <<gateVars, pc, acquired, record>>
        BY <1>2 DEF Tap, AddToQueue, StartDropped, attempts
    <2> QED
        BY <2>1, <2>2, StillKept
<1>3. CASE Cancel(d)
    <2>1. QueuesFor(d)
        BY <1>3 DEF Cancel, QueueDelete, Queue, QueuesFor
    <2> QED
        BY <1>3, <2>1, StillKept DEF Cancel
<1> QED
    BY <1>1, <1>2, <1>3 DEF UserStep

(* Progress, the pool and conversions.                                     *)
LEMMA PoolKept ==
    ASSUME LifeInv, NEW d \in Downloads, OtherStep(d)
    PROVE  Kept(d) /\ record' = record
<1>1. CASE Progress(d) \/ Converted(d)
    <2>1. QueuesFor(d)
        BY <1>1, ProgressQueues DEF Progress, Converted
    <2> QED
        BY <1>1, <2>1, StillKept DEF Progress, Converted
<1>2. CASE PoolStep(d) \/ ConvertFails(d)
    <2>1. QueuesFor(d)
        BY <1>2 DEF PoolStep, ConvertFails, QueuesFor
    <2> QED
        BY <1>2, <2>1, StillKept DEF PoolStep, ConvertFails
<1> QED
    BY <1>1, <1>2 DEF OtherStep

(* Towards the gate, and through it.                                       *)
LEMMA GateKept ==
    ASSUME LifeInv, NEW d \in Downloads, GoToGate(d) \/ Timer(d) \/ Enter(d)
    PROVE  Kept(d) /\ record' = record
<1>1. pc \in [Downloads -> Points] /\ acquired \in [Downloads -> BOOLEAN]
    BY DEF LifeInv, LifeTypes
<1>2. Placed(d) /\ GateInv
    BY DEF LifeInv
<1>3. CASE GoToGate(d)
    <2>1. /\ pc[d] = "enqueued" /\ record' = record /\ writes' = writes
          /\ \/ Leave(d)
             \/ /\ \E l \in Limits : Acquire(d, l)
                /\ pc' = [pc EXCEPT ![d] = "gating"]
                /\ acquired' = acquired
        BY <1>3 DEF GoToGate
    <2>2. CASE Leave(d)
        BY <2>1, <2>2, WokenPoints, LeaveKept
    <2>3. CASE /\ \E l \in Limits : Acquire(d, l)
               /\ pc' = [pc EXCEPT ![d] = "gating"]
               /\ acquired' = acquired
        <3>1. OthersOnlyGranted(d) /\ phase'[d] # "out"
            BY <1>2, <2>3, AcquirePlaces
        <3>2. pc'[d] = "gating" /\ \A e \in Downloads \ {d} : pc'[e] = pc[e]
            BY <1>1, <2>3
        <3>3. Placed(d)'
            BY <1>2, <2>1, <2>3, <3>1, <3>2 DEF Placed, Inside, Outside
        <3>4. pc' \in [Downloads -> Points]
            BY <1>1, <2>3, PointsAre
        <3>5. pc[d] \notin DOMAIN Woken
            BY <2>1, WokenPoints
        <3> QED
            BY <1>1, <2>1, <2>3, <3>1, <3>2, <3>3, <3>4, <3>5
            DEF Kept, Moves, QueuesFor
    <2> QED
        BY <2>1, <2>2, <2>3
<1>4. CASE Timer(d)
    <2>1. /\ phase[d] = "launching" /\ phase' = [phase EXCEPT ![d] = "running"]
          /\ UNCHANGED <<pc, acquired, writes, record>>
        BY <1>4 DEF Timer, Launch, lifeVars
    <2>2. phase'[d] = "running" /\ \A e \in Downloads \ {d} : phase'[e] = phase[e]
        BY <1>2, <2>1 DEF GateInv, TypeOK
    <2>3. pc[d] = "gating"
        BY <1>1, <1>2, <2>1, PointsAre DEF Placed
    <2>4. Placed(d)'
        BY <1>2, <2>1, <2>2, <2>3 DEF Placed, Inside, Outside
    <2> QED
        BY <1>1, <2>1, <2>2, <2>4 DEF Kept, Moves, QueuesFor, OthersOnlyGranted
<1>5. CASE Enter(d)
    <2>1. /\ pc[d] = "gating" /\ phase[d] = "running" /\ record' = record
          /\ writes' = writes /\ ~acquired[d]
        BY <1>2, <1>5 DEF Enter, Placed, Inside
    <2>2. pc[d] \notin DOMAIN Woken
        BY <2>1, WokenPoints
    <2>3. CASE record[d] = Absent
        <3>1. pc' = [pc EXCEPT ![d] = "idle"] /\ Release(d) /\ acquired' = acquired
            BY <1>5, <2>3 DEF Enter
        <3>2. OthersOnlyGranted(d) /\ phase'[d] = "out"
            BY <1>2, <3>1, ReleasePlaces
        <3>3. pc'[d] = "idle" /\ \A e \in Downloads \ {d} : pc'[e] = pc[e]
            BY <1>1, <3>1
        <3>4. Placed(d)'
            BY <2>1, <3>1, <3>2, <3>3 DEF Placed, Inside
        <3>5. pc' \in [Downloads -> Points]
            BY <1>1, <3>1 DEF Points
        <3> QED
            BY <1>1, <2>1, <2>2, <3>1, <3>2, <3>3, <3>4, <3>5
            DEF Kept, Moves, QueuesFor
    <2>4. CASE record[d] # Absent
        <3>1. /\ pc' = [pc EXCEPT ![d] = "preparing"]
              /\ acquired' = [acquired EXCEPT ![d] = TRUE]
              /\ UNCHANGED gateVars
            BY <1>5, <2>4 DEF Enter
        <3>2. /\ pc'[d] = "preparing" /\ acquired'[d]
              /\ \A e \in Downloads \ {d} :
                    pc'[e] = pc[e] /\ acquired'[e] = acquired[e]
            BY <1>1, <3>1
        <3>3. Placed(d)'
            BY <2>1, <3>1, <3>2 DEF Placed, Inside, Outside, gateVars
        <3>4. OthersOnlyGranted(d)
            BY <3>1 DEF OthersOnlyGranted, gateVars
        <3>5. pc' \in [Downloads -> Points] /\ acquired' \in [Downloads -> BOOLEAN]
            BY <1>1, <3>1, PointsAre DEF Inside
        <3> QED
            BY <2>1, <2>2, <3>2, <3>3, <3>4, <3>5 DEF Kept, Moves, QueuesFor
    <2> QED
        BY <2>3, <2>4
<1> QED
    BY <1>3, <1>4, <1>5

(* A task handed in is fetched in the way the episode is stored, and when  *)
(* it is done a stream is merged.                                          *)
LEMMA SubmitPoints ==
    ASSUME LifeInv, NEW d \in Downloads, SubmitTask(d)
    PROVE  \E x \in InPool : pc' = [pc EXCEPT ![d] = x]
<1>1. d \in DOMAIN pc
    BY DEF LifeInv, LifeTypes
<1>2. CASE pc[d] = "loading"
    <2>1. pc' = [pc EXCEPT ![d] = "streaming"]
        BY <1>1, <1>2 DEF SubmitTask
    <2> QED
        BY <2>1 DEF InPool
<1>3. CASE pc[d] # "loading"
    <2>1. pc' = [pc EXCEPT ![d] = "fetching"]
        BY <1>1, <1>3 DEF SubmitTask
    <2> QED
        BY <2>1 DEF InPool
<1> QED
    BY <1>2, <1>3

LEMMA CollectPoints ==
    ASSUME LifeInv, NEW d \in Downloads, Collect(d)
    PROVE  \E x \in {"merging", "closing"} : pc' = [pc EXCEPT ![d] = x]
<1>1. d \in DOMAIN pc
    BY DEF LifeInv, LifeTypes
<1>2. CASE pc[d] = "streaming"
    <2>1. pc' = [pc EXCEPT ![d] = "merging"]
        BY <1>1, <1>2 DEF Collect
    <2> QED
        BY <2>1
<1>3. CASE pc[d] # "streaming"
    <2>1. pc' = [pc EXCEPT ![d] = "closing"]
        BY <1>1, <1>3 DEF Collect
    <2> QED
        BY <2>1
<1> QED
    BY <1>2, <1>3

(* The attempt behind the gate.                                            *)
LEMMA InsideKept ==
    ASSUME LifeInv, NEW d \in Downloads,
           \/ Refused(d) \/ PrepareFails(d) \/ Prepared(d)
           \/ SubmitTask(d) \/ SubmitFails(d) \/ AllOnDisk(d)
           \/ Collect(d) \/ CollectError(d) \/ Merged(d) \/ MergeFails(d)
           \/ Closed(d) \/ CloseFails(d)
    PROVE  Kept(d) /\ record' = record
<1>1. /\ Inside \subseteq Points
      /\ {"preparing", "submitting", "loading", "fetching", "streaming", "merging",
          "closing", "marked", "storing"} \subseteq Inside
      /\ \A x \in {"preparing", "submitting", "loading", "fetching", "streaming",
                   "merging", "closing", "marked"} : x \notin DOMAIN Woken
    BY WokenPoints, PointsAre DEF Inside
<1>2. CASE Refused(d) \/ Closed(d)
    <2>1. /\ Leave(d) /\ writes' = writes /\ record' = record
          /\ pc[d] \in {"preparing", "closing", "marked"}
        BY <1>2 DEF Refused, Closed
    <2> QED
        BY <1>1, <2>1, LeaveKept
<1>3. CASE \/ PrepareFails(d) \/ SubmitFails(d) \/ CollectError(d)
           \/ MergeFails(d) \/ CloseFails(d)
    <2>1. /\ MarkFailed(d) /\ record' = record
          /\ pc[d] \in {"preparing", "submitting", "loading", "fetching", "streaming",
                        "merging", "closing"}
        BY <1>3 DEF PrepareFails, SubmitFails, CollectError, MergeFails, CloseFails,
                    InPool
    <2> QED
        BY <1>1, <2>1, MarkFailedKept
<1>4. CASE Prepared(d)
    <2>1. CASE record[d] = Absent
        <3>1. Leave(d) /\ writes' = writes /\ record' = record /\ pc[d] = "preparing"
            BY <1>4, <2>1 DEF Prepared
        <3> QED
            BY <1>1, <3>1, LeaveKept
    <2>2. CASE record[d] # Absent
        <3>1. /\ pc[d] = "preparing"
              /\ UNCHANGED <<gateVars, acquired>>
              /\ writes' = writes /\ record' = record
            BY <1>4, <2>2 DEF Prepared
        <3>2. PICK x \in {"submitting", "loading"} : pc' = [pc EXCEPT ![d] = x]
            BY <1>4, <2>2 DEF Prepared
        <3> QED
            BY <1>1, <3>1, <3>2, AdvanceKept DEF QueuesFor
    <2> QED
        BY <2>1, <2>2
<1>5. CASE SubmitTask(d)
    <2>1. /\ pc[d] \in {"submitting", "loading"}
          /\ UNCHANGED <<gateVars, acquired>> /\ writes' = writes /\ record' = record
        BY <1>5 DEF SubmitTask
    <2>2. PICK x \in InPool : pc' = [pc EXCEPT ![d] = x]
        BY <1>5, SubmitPoints
    <2> QED
        BY <1>1, <2>1, <2>2, AdvanceKept DEF QueuesFor, InPool
<1>6. CASE AllOnDisk(d)
    <2>1. /\ pc[d] = "submitting" /\ UNCHANGED <<gateVars, acquired>>
          /\ record' = record
        BY <1>6 DEF AllOnDisk
    <2>2. CASE record[d] = Absent
        <3>1. pc' = [pc EXCEPT ![d] = "closing"] /\ writes' = writes
            BY <1>6, <2>2 DEF AllOnDisk
        <3> QED
            BY <1>1, <2>1, <3>1, AdvanceKept DEF QueuesFor
    <2>3. CASE record[d] # Absent
        <3>1. /\ pc' = [pc EXCEPT ![d] = "storing"]
              /\ QueueSave(d, Done(record[d]), TRUE)
            BY <1>6, <2>3 DEF AllOnDisk
        <3>2. pc'[d] = "storing"
            BY <3>1 DEF LifeInv, LifeTypes
        <3>3. Done(record[d]) \in SUBSET Flags
            BY <2>3, RowsAreFlags
        <3>4. QueuesFor(d)
            BY <1>1, <2>1, <3>1, <3>2, <3>3, WokenPoints
            DEF QueueSave, Queue, QueuesFor
        <3> QED
            BY <1>1, <2>1, <3>1, <3>4, AdvanceKept
    <2> QED
        BY <2>2, <2>3
<1>7. CASE Collect(d)
    <2>1. /\ pc[d] \in {"fetching", "streaming"} /\ UNCHANGED <<gateVars, acquired>>
          /\ record' = record
          /\ SetCompleted(d) \/ writes' = writes
        BY <1>7 DEF Collect, InPool
    <2>2. PICK x \in {"merging", "closing"} : pc' = [pc EXCEPT ![d] = x]
        BY <1>7, CollectPoints
    <2>3. QueuesFor(d)
        BY <2>1, ProgressQueues DEF QueuesFor
    <2> QED
        BY <1>1, <2>1, <2>2, <2>3, AdvanceKept
<1>8. CASE Merged(d)
    <2>1. /\ pc[d] = "merging" /\ pc' = [pc EXCEPT ![d] = "closing"]
          /\ UNCHANGED <<gateVars, acquired>>
          /\ record' = record /\ SetCompleted(d)
        BY <1>8 DEF Merged
    <2>2. QueuesFor(d)
        BY <2>1, ProgressQueues
    <2> QED
        BY <1>1, <2>1, <2>2, AdvanceKept
<1> QED
    BY <1>2, <1>3, <1>4, <1>5, <1>6, <1>7, <1>8

(* A write executes: it wakes the one attempt that awaits it, on the same  *)
(* side of the gate.                                                       *)
LEMMA WriteKeeps ==
    ASSUME LifeInv, Write
    PROVE  LifeInv'
<1> DEFINE w == Head(writes)
<1>1. /\ record \in [Downloads -> Records] /\ writes \in Seq(WriteRequests)
      /\ pc \in [Downloads -> Points] /\ acquired \in [Downloads -> BOOLEAN]
      /\ WakesMatch /\ GateInv /\ \A d \in Downloads : Placed(d)
    BY DEF LifeInv, LifeTypes
<1>2. /\ writes # << >> /\ writes' = Tail(writes)
      /\ UNCHANGED <<gateVars, acquired>>
      /\ pc' = [pc EXCEPT ![w.id] = IF w.wakes THEN Woken[@] ELSE @]
    BY DEF Write
<1>3. w \in WriteRequests /\ w = writes[1] /\ 1 \in DOMAIN writes
    BY <1>1, <1>2
<1>4. /\ w.op \in {"enqueue", "tap", "save", "delete"} /\ w.id \in Downloads
      /\ w.row \in SUBSET Flags /\ w.wakes \in BOOLEAN
    BY <1>3 DEF WriteRequests
<1>5. GateInv'
    BY <1>1, <1>2, StutterKeeps
<1>6. record' \in [Downloads -> Records]
    <2>1. Enqueued(record[w.id]) \in Records /\ Absent \in Records /\ w.row \in Records
        BY <1>1, <1>4 DEF Enqueued, Records, Flags
    <2>2. PICK r \in Records : record' = [record EXCEPT ![w.id] = r]
        <3>1. CASE w.op \in {"enqueue", "tap"}
            BY <2>1, <3>1 DEF Write
        <3>2. CASE w.op = "save"
            BY <2>1, <3>2 DEF Write
        <3>3. CASE w.op = "delete"
            BY <2>1, <3>3 DEF Write
        <3> QED
            BY <1>4, <3>1, <3>2, <3>3
    <2> QED
        BY <1>1, <2>2
<1>7. w.wakes => pc[w.id] \in DOMAIN Woken
    BY <1>1, <1>3 DEF WakesMatch
<1>8. \A d \in Downloads : ~(d = w.id /\ w.wakes) => pc'[d] = pc[d]
    BY <1>1, <1>2, <1>4
<1>9. w.wakes => pc'[w.id] = Woken[pc[w.id]]
    BY <1>1, <1>2, <1>4
<1> HIDE DEF w
<1>10. \A d \in Downloads : Placed(d)'
    <2> SUFFICES ASSUME NEW d \in Downloads PROVE Placed(d)'
        OBVIOUS
    <2>1. phase' = phase /\ acquired' = acquired /\ Placed(d)
        BY <1>1, <1>2 DEF gateVars
    <2>2. CASE d = w.id /\ w.wakes
        <3>1. \/ pc[d] = "enqueuing" /\ pc'[d] = "enqueued"
              \/ pc[d] = "storing" /\ pc'[d] = "closing"
              \/ pc[d] = "marking" /\ pc'[d] = "marked"
            BY <1>7, <1>9, <2>2, WokenPoints
        <3> QED
            BY <2>1, <3>1 DEF Placed, Inside, Outside
    <2>3. CASE ~(d = w.id /\ w.wakes)
        BY <1>8, <2>1, <2>3 DEF Placed
    <2> QED
        BY <2>2, <2>3
<1>11. pc' \in [Downloads -> Points]
    <2>1. w.wakes => Woken[pc[w.id]] \in Points
        BY <1>7, WokenPoints, PointsAre DEF Inside, Outside
    <2>2. PICK x \in Points : pc' = [pc EXCEPT ![w.id] = x]
        BY <1>1, <1>2, <1>4, <2>1
    <2> QED
        BY <1>1, <2>2
<1>12. /\ writes' \in Seq(WriteRequests)
       /\ \A i \in DOMAIN writes' :
             i + 1 \in DOMAIN writes /\ i + 1 # 1 /\ i \in Int
             /\ writes'[i] = writes[i + 1]
    BY <1>1, <1>2
<1>13. WakesMatch'
    <2>1. ASSUME NEW i \in DOMAIN writes', writes'[i].wakes
          PROVE  pc'[writes'[i].id] \in DOMAIN Woken
        <3>1. pc[writes[i + 1].id] \in DOMAIN Woken
            BY <1>1, <1>12, <2>1 DEF WakesMatch
        <3>2. writes[i + 1].id \in Downloads
            <4>1. writes[i + 1] \in WriteRequests
                BY <1>1, <1>12
            <4> QED
                BY <4>1 DEF WriteRequests
        <3>3. ~(writes[i + 1].id = w.id /\ w.wakes)
            BY <1>1, <1>3, <1>12, <2>1 DEF WakesMatch
        <3> QED
            BY <1>8, <1>12, <3>1, <3>2, <3>3
    <2>2. ASSUME NEW i \in DOMAIN writes', NEW j \in DOMAIN writes',
                 writes'[i].wakes, writes'[j].wakes, writes'[i].id = writes'[j].id
          PROVE  i = j
        <3>1. i + 1 = j + 1
            BY <1>1, <1>12, <2>2 DEF WakesMatch
        <3> QED
            BY <1>12, <3>1
    <2> QED
        BY <2>1, <2>2 DEF WakesMatch
<1> QED
    BY <1>2, <1>5, <1>6, <1>10, <1>11, <1>12, <1>13, <1>1 DEF LifeInv, LifeTypes

(* Nobody is scheduled when the program starts.                            *)
LEMMA LifeInitEstablishes == LifeInit => LifeInv
<1> SUFFICES ASSUME LifeInit PROVE LifeInv
    OBVIOUS
<1>1. GateInv
    BY InitEstablishes DEF LifeInit
<1>2. LifeTypes
    <2>1. record \in [Downloads -> Records]
        BY RecordsAssumption DEF LifeInit
    <2> QED
        BY <2>1 DEF LifeInit, LifeTypes, Points
<1>3. WakesMatch
    BY DEF LifeInit, WakesMatch
<1>4. \A d \in Downloads : Placed(d)
    BY DEF LifeInit, Init, Placed, Inside
<1> QED
    BY <1>1, <1>2, <1>3, <1>4 DEF LifeInv

(* Every step of the lifecycle keeps its invariant.                        *)
LEMMA LifeNextKeeps == LifeInv /\ [LifeNext]_vars => LifeInv'
<1> SUFFICES ASSUME LifeInv, [LifeNext]_vars PROVE LifeInv'
    OBVIOUS
<1>1. CASE UNCHANGED vars \/ ProcessDownloads
    <2>1. UNCHANGED <<record, writes, pc, acquired>> /\ UNCHANGED gateVars
        BY <1>1, QueueOnlyOwes
    <2>2. GateInv'
        BY <2>1, StutterKeeps DEF LifeInv
    <2> QED
        BY <2>1, <2>2 DEF LifeInv, LifeTypes, WakesMatch, Placed, gateVars
<1>2. CASE Write
    BY <1>2, WriteKeeps
<1>3. ASSUME NEW d \in Downloads, UserStep(d) \/ OtherStep(d)
      PROVE  LifeInv'
    BY <1>3, UserKept, PoolKept, KeptKeeps
<1>4. ASSUME NEW d \in Downloads, AttemptStep(d)
      PROVE  LifeInv'
    <2>1. Kept(d) /\ record' = record
        BY <1>4, GateKept, InsideKept DEF AttemptStep
    <2> QED
        BY <2>1, KeptKeeps
<1> QED
    BY <1>1, <1>2, <1>3, <1>4 DEF LifeNext, UserStep, OtherStep

(* The inductive invariant holds in every reachable state.                 *)
THEOREM LifeInvariant == LifeSpec => []LifeInv
<1>1. LifeInit => LifeInv
    BY LifeInitEstablishes
<1>2. LifeInv /\ [LifeNext]_vars => LifeInv'
    BY LifeNextKeeps
<1> QED
    BY <1>1, <1>2, PTL DEF LifeSpec

(* No attempt leaks its slot or returns one twice, whatever fails, is      *)
(* cancelled or asked for meanwhile: for any number of downloads, sources, *)
(* requests and queued writes.                                             *)
THEOREM AttemptsKeepSlots == LifeSpec => []SlotsFollowAttempts
<1>1. LifeInv => SlotsFollowAttempts
    BY DEF LifeInv, Placed, SlotsFollowAttempts, Inside, Outside
<1> QED
    BY <1>1, LifeInvariant, PTL

-----------------------------------------------------------------------------
(***************************************************************************)
(* The pool.  An attempt hands it a task when it begins to fetch, and      *)
(* takes the outcome when it stops.                                        *)
(***************************************************************************)

(* A step of an attempt hands in a task, takes an outcome, or leaves the   *)
(* pool alone.                                                             *)
LEMMA AttemptUsesPool ==
    ASSUME NEW d \in Downloads, AttemptStep(d)
    PROVE  \/ SubmitTask(d) /\ Pool!Submit(d)
           \/ (Collect(d) \/ CollectError(d)) /\ Pool!Settle(d)
           \/ task' = task
<1>1. CASE SubmitTask(d) \/ Collect(d) \/ CollectError(d)
    BY <1>1 DEF SubmitTask, Collect, CollectError
<1>2. CASE GoToGate(d) \/ Timer(d) \/ Enter(d)
    BY <1>2 DEF GoToGate, Timer, Enter, lifeVars
<1>3. CASE \/ Refused(d) \/ PrepareFails(d) \/ Prepared(d) \/ SubmitFails(d)
           \/ AllOnDisk(d)
    BY <1>3 DEF Refused, PrepareFails, Prepared, SubmitFails, AllOnDisk
<1>4. CASE Merged(d) \/ MergeFails(d) \/ Closed(d) \/ CloseFails(d)
    BY <1>4 DEF Merged, MergeFails, Closed, CloseFails
<1> QED
    BY <1>1, <1>2, <1>3, <1>4 DEF AttemptStep

(* The user cancels tasks, the pool settles them, and nothing else outside *)
(* an attempt touches them.                                                *)
LEMMA OthersUsePool ==
    ASSUME NEW d \in Downloads, Write \/ UserStep(d) \/ OtherStep(d)
    PROVE  Pool!Complete(d) \/ Pool!Fail({d}) \/ task' = task
<1>1. CASE Write
    BY <1>1 DEF Write
<1>2. CASE Tap(d) \/ AddToQueue(d) \/ StartDue(d) \/ StartDropped(d)
    BY <1>2 DEF Tap, AddToQueue, StartDue, StartDropped, Start, attempts
<1>3. CASE Cancel(d)
    BY <1>3 DEF Cancel, CancelTask
<1>4. CASE OtherStep(d)
    BY <1>4 DEF OtherStep, Progress, PoolStep, Converted, ConvertFails
<1> QED
    BY <1>1, <1>2, <1>3, <1>4 DEF UserStep

LEMMA LifeNextUsesPool == [LifeNext]_vars => [Pool!PoolNext]_task
<1> SUFFICES ASSUME [LifeNext]_vars PROVE [Pool!PoolNext]_task
    OBVIOUS
<1>1. CASE UNCHANGED vars \/ ProcessDownloads
    BY <1>1, QueueOnlyOwes
<1>2. CASE Write
    BY <1>2 DEF Write
<1>3. ASSUME NEW d \in Downloads, AttemptStep(d)
      PROVE  [Pool!PoolNext]_task
    BY <1>3, AttemptUsesPool DEF Pool!PoolNext
<1>4. ASSUME NEW d \in Downloads, UserStep(d) \/ OtherStep(d)
      PROVE  [Pool!PoolNext]_task
    <2>1. Pool!Complete(d) \/ Pool!Fail({d}) \/ task' = task
        BY <1>4, OthersUsePool
    <2>2. {d} \in SUBSET Downloads
        OBVIOUS
    <2> QED
        BY <2>1, <2>2 DEF Pool!PoolNext
<1> QED
    BY <1>1, <1>2, <1>3, <1>4 DEF LifeNext, UserStep, OtherStep

(* The lifecycle uses the pool as the pool expects to be used: nothing is  *)
(* submitted under an id that is in use, and an outcome is taken once.     *)
THEOREM LifecycleUsesPool == LifeSpec => Pool!PoolSpec
<1>1. LifeInit => Pool!PoolInit
    BY DEF LifeInit, Pool!PoolInit
<1>2. [LifeNext]_vars => [Pool!PoolNext]_task
    BY LifeNextUsesPool
<1> QED
    BY <1>1, <1>2, PTL DEF LifeSpec, Pool!PoolSpec

-----------------------------------------------------------------------------
(***************************************************************************)
(* What an attempt awaits is under way: the write that will wake it is     *)
(* queued, and while it fetches, and only then, the pool holds its task.   *)
(***************************************************************************)

QueuedWake(d) == \E i \in DOMAIN writes : writes[i].wakes /\ writes[i].id = d

WriteAwaited(d) == pc[d] \in DOMAIN Woken => QueuedWake(d)

TaskAwaited(d) == task[d] # "idle" <=> pc[d] \in InPool

RestTypes ==
    /\ task \in [Downloads -> Pool!PoolStates]
    /\ converting \in [Downloads -> Nat]
    /\ cancelled \subseteq Downloads /\ uncaught \subseteq Downloads
    /\ due \in [Downloads -> Nat]
    /\ requests \in 0..MaxRequests

AwaitInv == RestTypes /\ \A d \in Downloads : WriteAwaited(d) /\ TaskAwaited(d)

(* The steps of the pool, seen from one task.                              *)
LEMMA PoolMoves ==
    ASSUME task \in [Downloads -> Pool!PoolStates], NEW d \in Downloads
    PROVE  /\ Pool!Submit(d) => task'[d] = "pending"
           /\ Pool!Complete(d) => task[d] = "pending" /\ task'[d] = "done"
           /\ Pool!Fail({d}) => task[d] = "pending" /\ task'[d] = "failed"
           /\ Pool!Settle(d) => task'[d] = "idle"
           /\ Pool!Submit(d) \/ Pool!Complete(d) \/ Pool!Fail({d}) \/ Pool!Settle(d) =>
                 /\ task' \in [Downloads -> Pool!PoolStates]
                 /\ \A e \in Downloads \ {d} : task'[e] = task[e]
BY DEF Pool!Submit, Pool!Complete, Pool!Fail, Pool!Settle, Pool!PoolStates,
       Pool!Outcomes

(* Types that no await depends on.                                         *)
LEMMA RestTyped ==
    ASSUME RestTypes, [LifeNext]_vars
    PROVE  RestTypes'
<1>0. Ask => requests' \in 0..MaxRequests
    BY BoundsAssumption DEF Ask, RestTypes
<1> USE DEF RestTypes
<1>1. CASE UNCHANGED vars
    BY <1>1 DEF vars, lifeVars
<1>2. CASE Write
    <2>1. due' \in [Downloads -> Nat]
        <3> DEFINE w == Head(writes)
        <3>1. due' = [due EXCEPT ![w.id] = IF w.op = "tap" THEN @ + 1 ELSE @]
            BY <1>2 DEF Write
        <3> HIDE DEF w
        <3>2. \A d \in Downloads : due[d] + 1 \in Nat
            OBVIOUS
        <3>3. CASE w.op = "tap"
            BY <3>1, <3>2, <3>3
        <3>4. CASE w.op # "tap"
            BY <3>1, <3>4
        <3> QED
            BY <3>3, <3>4
    <2>2. UNCHANGED <<task, converting, cancelled, uncaught, requests>>
        BY <1>2 DEF Write
    <2> QED
        BY <2>1, <2>2
<1>3. ASSUME NEW d \in Downloads, UserStep(d) \/ OtherStep(d)
      PROVE  RestTypes'
    <2>1. task' \in [Downloads -> Pool!PoolStates]
        BY <1>3, OthersUsePool, PoolMoves
    <2>2. CASE StartDue(d)
        BY <2>1, <2>2 DEF StartDue, Start
    <2>3. CASE Tap(d) \/ AddToQueue(d)
        BY <1>0, <2>1, <2>3 DEF Tap, AddToQueue, attempts
    <2>4. CASE StartDropped(d) \/ Cancel(d)
        BY <2>1, <2>4 DEF StartDropped, Cancel, attempts, asks
    <2>5. CASE Progress(d) \/ PoolStep(d)
        BY <2>1, <2>5 DEF Progress, PoolStep, asks
    <2>6. CASE Converted(d) \/ ConvertFails(d)
        BY <2>1, <2>6 DEF Converted, ConvertFails, asks
    <2> QED
        BY <1>3, <2>2, <2>3, <2>4, <2>5, <2>6 DEF UserStep, OtherStep
<1>4. ASSUME NEW d \in Downloads, AttemptStep(d)
      PROVE  RestTypes'
    <2>1. task' \in [Downloads -> Pool!PoolStates]
        BY <1>4, AttemptUsesPool, PoolMoves
    <2>2. CASE GoToGate(d) \/ Timer(d) \/ Enter(d)
        BY <2>1, <2>2 DEF GoToGate, Timer, Enter, lifeVars, asks
    <2>3. CASE \/ Refused(d) \/ PrepareFails(d) \/ Prepared(d) \/ SubmitTask(d)
               \/ SubmitFails(d) \/ AllOnDisk(d)
        BY <2>1, <2>3
        DEF Refused, PrepareFails, Prepared, SubmitTask, SubmitFails, AllOnDisk, asks
    <2>4. CASE \/ CollectError(d) \/ Merged(d) \/ MergeFails(d) \/ Closed(d)
               \/ CloseFails(d)
        BY <2>1, <2>4 DEF CollectError, Merged, MergeFails, Closed, CloseFails, asks
    <2>5. CASE Collect(d)
        BY <2>1, <2>5 DEF Collect, asks
    <2> QED
        BY <1>4, <2>2, <2>3, <2>4, <2>5 DEF AttemptStep
<1>5. CASE ProcessDownloads
    <2> DEFINE found == {d \in Downloads : Pending(record[d])}
    <2>1. /\ requests + Cardinality(found) <= MaxRequests
          /\ requests' = requests + Cardinality(found)
          /\ due' = [d \in Downloads |-> IF d \in found THEN due[d] + 1 ELSE due[d]]
        BY <1>5 DEF ProcessDownloads
    <2>2. Cardinality(found) \in Nat
        BY DownloadsAssumption, FS_Subset, FS_CardinalityType
    <2> HIDE DEF found
    <2>3. requests' \in 0..MaxRequests /\ due' \in [Downloads -> Nat]
        BY <2>1, <2>2, BoundsAssumption
    <2> QED
        BY <1>5, <2>3, QueueOnlyOwes
<1> QED
    BY <1>1, <1>2, <1>3, <1>4, <1>5 DEF LifeNext, UserStep, OtherStep

-----------------------------------------------------------------------------
(* The writes.                                                             *)

(* An attempt that begins to await a write has queued it.                  *)
QueuesWake(d) ==
    \E op, row :
        writes' = Append(writes, [op |-> op, id |-> d, row |-> row, wakes |-> TRUE])

BeginsWait(d) == pc'[d] \in DOMAIN Woken => pc'[d] = pc[d] \/ QueuesWake(d)

(* All but a start leaves the attempts where they await.                   *)
LEMMA RestStill ==
    ASSUME NEW d \in Downloads,
           \/ Tap(d) \/ AddToQueue(d) \/ StartDropped(d) \/ Cancel(d) \/ OtherStep(d)
    PROVE  UNCHANGED pc
BY DEF Tap, AddToQueue, StartDropped, Cancel, OtherStep, Progress, PoolStep,
       Converted, ConvertFails, attempts

LEMMA FailureWaits ==
    ASSUME LifeInv, NEW d \in Downloads, Leave(d) \/ MarkFailed(d)
    PROVE  pc'[d] = "idle" \/ (pc'[d] = "marking" /\ QueuesWake(d))
<1>1. pc \in [Downloads -> Points]
    BY DEF LifeInv, LifeTypes
<1>2. CASE Leave(d)
    BY <1>1, <1>2 DEF Leave
<1>3. CASE MarkFailed(d) /\ ~Leave(d)
    BY <1>1, <1>3 DEF MarkFailed, QueueSave, Queue, QueuesWake
<1> QED
    BY <1>2, <1>3

LEMMA AttemptWaits ==
    ASSUME LifeInv, NEW d \in Downloads, AttemptStep(d)
    PROVE  BeginsWait(d)
<1>1. pc \in [Downloads -> Points]
    BY DEF LifeInv, LifeTypes
<1>2. \A x \in {"idle", "gating", "preparing", "submitting", "loading", "fetching",
                "streaming", "merging", "closing"} : x \notin DOMAIN Woken
    BY WokenPoints
<1> SUFFICES pc'[d] = pc[d] \/ pc'[d] \notin DOMAIN Woken \/ QueuesWake(d)
    BY DEF BeginsWait
<1>3. CASE Leave(d) \/ MarkFailed(d)
    BY <1>2, <1>3, FailureWaits
<1>4. CASE GoToGate(d) \/ Timer(d) \/ Enter(d)
    BY <1>1, <1>2, <1>3, <1>4 DEF GoToGate, Timer, Enter, lifeVars
<1>5. CASE Prepared(d) \/ SubmitTask(d) \/ Merged(d)
    <2>1. CASE Prepared(d)
        BY <1>1, <1>2, <1>3, <2>1 DEF Prepared
    <2>2. CASE SubmitTask(d)
        BY <1>1, <1>2, <2>2, SubmitPoints DEF InPool
    <2>3. CASE Merged(d)
        BY <1>1, <1>2, <2>3 DEF Merged
    <2> QED
        BY <1>5, <2>1, <2>2, <2>3
<1>6. CASE Collect(d)
    <2>1. pc'[d] \in {"merging", "closing"}
        BY <1>1, <1>6, CollectPoints
    <2> QED
        BY <1>2, <2>1
<1>7. CASE AllOnDisk(d)
    <2>1. \/ pc' = [pc EXCEPT ![d] = "closing"]
          \/ QueueSave(d, Done(record[d]), TRUE)
        BY <1>7 DEF AllOnDisk
    <2> QED
        BY <1>1, <1>2, <2>1 DEF QueueSave, Queue, QueuesWake
<1>8. CASE \/ Refused(d) \/ PrepareFails(d) \/ SubmitFails(d) \/ CollectError(d)
           \/ MergeFails(d) \/ Closed(d) \/ CloseFails(d)
    BY <1>3, <1>8 DEF Refused, PrepareFails, SubmitFails, CollectError, MergeFails,
                      Closed, CloseFails
<1> QED
    BY <1>4, <1>5, <1>6, <1>7, <1>8 DEF AttemptStep

LEMMA OthersWait ==
    ASSUME LifeInv, NEW d \in Downloads, UserStep(d) \/ OtherStep(d)
    PROVE  BeginsWait(d)
<1>1. CASE StartDue(d)
    BY <1>1 DEF StartDue, Start, QueueEnqueue, Queue, QueuesWake, BeginsWait
<1>2. CASE UNCHANGED pc
    BY <1>2 DEF BeginsWait
<1> QED
    BY <1>1, <1>2, RestStill DEF UserStep

(* A write that is queued stays queued when others join.                   *)
LEMMA WriteStillAwaited ==
    ASSUME LifeInv, NEW d \in Downloads, Kept(d), BeginsWait(d),
           \A e \in Downloads : WriteAwaited(e)
    PROVE  \A e \in Downloads : WriteAwaited(e)'
<1>1. writes \in Seq(WriteRequests)
    BY DEF LifeInv, LifeTypes
<1>2. writes' = writes \/ \E x : writes' = Append(writes, x)
    BY DEF Kept, QueuesFor
<1>3. \A e \in Downloads : QueuedWake(e) => QueuedWake(e)'
    <2>1. CASE writes' = writes
        BY <2>1 DEF QueuedWake
    <2>2. ASSUME NEW x, writes' = Append(writes, x)
          PROVE  \A e \in Downloads : QueuedWake(e) => QueuedWake(e)'
        <3>1. \A i \in DOMAIN writes : i \in DOMAIN writes' /\ writes'[i] = writes[i]
            BY <1>1, <2>2
        <3> QED
            BY <3>1 DEF QueuedWake
    <2> QED
        BY <1>2, <2>1, <2>2
<1>4. QueuesWake(d) => QueuedWake(d)'
    <2> SUFFICES ASSUME QueuesWake(d) PROVE QueuedWake(d)'
        OBVIOUS
    <2>1. PICK x : writes' = Append(writes, x) /\ x.id = d /\ x.wakes
        BY DEF QueuesWake
    <2>2. Len(writes) + 1 \in DOMAIN writes' /\ writes'[Len(writes) + 1] = x
        BY <1>1, <2>1
    <2> QED
        BY <2>1, <2>2 DEF QueuedWake
<1>5. \A e \in Downloads \ {d} : pc'[e] = pc[e]
    BY DEF Kept, Moves
<1> QED
    BY <1>3, <1>4, <1>5 DEF WriteAwaited, BeginsWait

(* The write that executes wakes the one who awaits it; the others keep    *)
(* theirs.                                                                 *)
LEMMA WriteKeepsAwaited ==
    ASSUME LifeInv, Write, \A e \in Downloads : WriteAwaited(e) /\ TaskAwaited(e),
           NEW d \in Downloads
    PROVE  WriteAwaited(d)' /\ TaskAwaited(d)'
<1> DEFINE w == Head(writes)
<1>1. /\ writes \in Seq(WriteRequests) /\ pc \in [Downloads -> Points]
      /\ WakesMatch
    BY DEF LifeInv, LifeTypes
<1>2. /\ writes # << >> /\ writes' = Tail(writes) /\ task' = task
      /\ pc' = [pc EXCEPT ![w.id] = IF w.wakes THEN Woken[@] ELSE @]
    BY DEF Write
<1>3. w \in WriteRequests /\ w = writes[1] /\ 1 \in DOMAIN writes
    BY <1>1, <1>2
<1>4. w.id \in Downloads
    BY <1>3 DEF WriteRequests
<1>5. CASE d = w.id /\ w.wakes
    <2>1. pc[d] \in DOMAIN Woken /\ pc'[d] = Woken[pc[d]]
        BY <1>1, <1>2, <1>3, <1>4, <1>5 DEF WakesMatch
    <2>2. /\ pc'[d] \notin DOMAIN Woken
          /\ pc'[d] \notin InPool /\ pc[d] \notin InPool
        BY <2>1, WokenPoints DEF InPool
    <2> QED
        BY <1>2, <2>2 DEF WriteAwaited, TaskAwaited
<1>6. CASE ~(d = w.id /\ w.wakes)
    <2>1. pc'[d] = pc[d]
        BY <1>1, <1>2, <1>4, <1>6
    <2>2. QueuedWake(d) => QueuedWake(d)'
        <3> SUFFICES ASSUME QueuedWake(d) PROVE QueuedWake(d)'
            OBVIOUS
        <3>1. PICK i \in DOMAIN writes : writes[i].wakes /\ writes[i].id = d
            BY DEF QueuedWake
        <3>2. i # 1
            BY <1>3, <1>6, <3>1
        <3>3. i - 1 \in DOMAIN writes' /\ writes'[i - 1] = writes[i]
            <4> HIDE DEF w
            <4> QED
                BY <1>1, <1>2, <3>2
        <3> QED
            BY <3>1, <3>3 DEF QueuedWake
    <2> QED
        BY <1>2, <2>1, <2>2 DEF WriteAwaited, TaskAwaited
<1> QED
    BY <1>5, <1>6

-----------------------------------------------------------------------------
(* The tasks.                                                              *)

LEMMA AttemptKeepsTask ==
    ASSUME LifeInv, RestTypes, NEW d \in Downloads, AttemptStep(d), TaskAwaited(d)
    PROVE  TaskAwaited(d)'
<1>1. pc \in [Downloads -> Points]
    BY DEF LifeInv, LifeTypes
<1>2. task \in [Downloads -> Pool!PoolStates]
    BY DEF RestTypes
<1>3. CASE SubmitTask(d)
    <2>1. task'[d] = "pending"
        BY <1>2, <1>3, PoolMoves DEF SubmitTask
    <2>2. pc'[d] \in InPool
        BY <1>1, <1>3, SubmitPoints
    <2> QED
        BY <2>1, <2>2 DEF TaskAwaited
<1>4. CASE Collect(d)
    <2>1. task'[d] = "idle"
        BY <1>2, <1>4, PoolMoves DEF Collect
    <2>2. pc'[d] \notin InPool
        BY <1>1, <1>4, CollectPoints DEF InPool
    <2> QED
        BY <2>1, <2>2 DEF TaskAwaited
<1>5. CASE CollectError(d)
    <2>1. task'[d] = "idle" /\ pc'[d] \notin InPool
        BY <1>2, <1>5, PoolMoves, FailureWaits DEF CollectError, InPool
    <2> QED
        BY <2>1 DEF TaskAwaited
<1>6. CASE GoToGate(d) \/ Timer(d) \/ Enter(d)
    <2>1. task' = task
        BY <1>6 DEF GoToGate, Timer, Enter, lifeVars
    <2>2. pc'[d] = pc[d] \/ (pc[d] \notin InPool /\ pc'[d] \notin InPool)
        BY <1>1, <1>6, FailureWaits DEF GoToGate, Timer, Enter, lifeVars, InPool
    <2> QED
        BY <2>1, <2>2 DEF TaskAwaited
<1>7. CASE Prepared(d) \/ AllOnDisk(d) \/ Merged(d)
    <2>1. task' = task
        BY <1>7 DEF Prepared, AllOnDisk, Merged
    <2>2. pc[d] \notin InPool /\ pc'[d] \notin InPool
        <3>1. CASE Prepared(d)
            BY <1>1, <3>1, FailureWaits DEF Prepared, InPool
        <3>2. CASE AllOnDisk(d)
            BY <1>1, <3>2 DEF AllOnDisk, InPool
        <3>3. CASE Merged(d)
            BY <1>1, <3>3 DEF Merged, InPool
        <3> QED
            BY <1>7, <3>1, <3>2, <3>3
    <2> QED
        BY <2>1, <2>2 DEF TaskAwaited
<1>8. CASE \/ Refused(d) \/ PrepareFails(d) \/ SubmitFails(d) \/ MergeFails(d)
           \/ Closed(d) \/ CloseFails(d)
    <2>1. task' = task /\ pc[d] \notin InPool /\ (Leave(d) \/ MarkFailed(d))
        BY <1>8 DEF Refused, PrepareFails, SubmitFails, MergeFails, Closed, CloseFails,
                    InPool
    <2>2. pc'[d] \notin InPool
        BY <2>1, FailureWaits DEF InPool
    <2> QED
        BY <2>1, <2>2 DEF TaskAwaited
<1> QED
    BY <1>3, <1>4, <1>5, <1>6, <1>7, <1>8 DEF AttemptStep

LEMMA OthersKeepTask ==
    ASSUME LifeInv, RestTypes, NEW d \in Downloads, TaskAwaited(d),
           UserStep(d) \/ OtherStep(d)
    PROVE  TaskAwaited(d)'
<1>1. pc \in [Downloads -> Points]
    BY DEF LifeInv, LifeTypes
<1>2. task'[d] # "idle" <=> task[d] # "idle"
    BY OthersUsePool, PoolMoves DEF RestTypes
<1>3. pc'[d] = pc[d] \/ (pc[d] = "idle" /\ pc'[d] = "enqueuing")
    <2>1. CASE StartDue(d)
        BY <1>1, <2>1 DEF StartDue, Start, scheduled
    <2>2. CASE UNCHANGED pc
        BY <2>2
    <2> QED
        BY <2>1, <2>2, RestStill DEF UserStep
<1> QED
    BY <1>2, <1>3 DEF TaskAwaited, InPool

(* A step of one download leaves the tasks of the others where they are.   *)
LEMMA OthersTasks ==
    ASSUME LifeInv, RestTypes, NEW d \in Downloads, Kept(d), TaskAwaited(d)',
           \A e \in Downloads : TaskAwaited(e),
           \/ task' = task
           \/ Pool!Submit(d) \/ Pool!Settle(d) \/ Pool!Complete(d) \/ Pool!Fail({d})
    PROVE  \A e \in Downloads : TaskAwaited(e)'
<1>1. \A e \in Downloads \ {d} : pc'[e] = pc[e] /\ task'[e] = task[e]
    BY PoolMoves DEF RestTypes, Kept, Moves
<1> QED
    BY <1>1 DEF TaskAwaited

-----------------------------------------------------------------------------
LEMMA LifeNextKeepsAwaits ==
    ASSUME LifeInv, AwaitInv, [LifeNext]_vars
    PROVE  AwaitInv'
<1>1. RestTypes' /\ RestTypes
    BY RestTyped DEF AwaitInv
<1>2. \A e \in Downloads : WriteAwaited(e) /\ TaskAwaited(e)
    BY DEF AwaitInv
<1>3. CASE UNCHANGED vars \/ ProcessDownloads
    <2>1. UNCHANGED <<writes, pc, task>>
        BY <1>3, QueueOnlyOwes
    <2> QED
        BY <1>1, <1>2, <2>1 DEF AwaitInv, WriteAwaited, QueuedWake, TaskAwaited
<1>4. CASE Write
    BY <1>1, <1>2, <1>4, WriteKeepsAwaited DEF AwaitInv
<1>5. ASSUME NEW d \in Downloads, UserStep(d) \/ OtherStep(d)
      PROVE  AwaitInv'
    <2>1. Kept(d)
        BY <1>5, UserKept, PoolKept
    <2>2. \A e \in Downloads : WriteAwaited(e)'
        BY <1>2, <1>5, <2>1, OthersWait, WriteStillAwaited
    <2>3. \A e \in Downloads : TaskAwaited(e)'
        <3>1. TaskAwaited(d)'
            BY <1>1, <1>2, <1>5, OthersKeepTask
        <3>2. Pool!Complete(d) \/ Pool!Fail({d}) \/ task' = task
            BY <1>5, OthersUsePool
        <3> QED
            BY <1>1, <1>2, <2>1, <3>1, <3>2, OthersTasks
    <2> QED
        BY <1>1, <2>2, <2>3 DEF AwaitInv
<1>6. ASSUME NEW d \in Downloads, AttemptStep(d)
      PROVE  AwaitInv'
    <2>1. Kept(d)
        BY <1>6, GateKept, InsideKept DEF AttemptStep
    <2>2. \A e \in Downloads : WriteAwaited(e)'
        BY <1>2, <1>6, <2>1, AttemptWaits, WriteStillAwaited
    <2>3. \A e \in Downloads : TaskAwaited(e)'
        <3>1. TaskAwaited(d)'
            BY <1>1, <1>2, <1>6, AttemptKeepsTask
        <3>2. Pool!Submit(d) \/ Pool!Settle(d) \/ task' = task
            BY <1>6, AttemptUsesPool
        <3> QED
            BY <1>1, <1>2, <2>1, <3>1, <3>2, OthersTasks
    <2> QED
        BY <1>1, <2>2, <2>3 DEF AwaitInv
<1> QED
    BY <1>3, <1>4, <1>5, <1>6 DEF LifeNext, UserStep, OtherStep

(* What an attempt awaits is always under way: an attempt that awaits a    *)
(* write has it queued, and the pool holds a task exactly for those that   *)
(* fetch, so that no attempt submits over an earlier one of its chapter.   *)
THEOREM AwaitsAreUnderWay == LifeSpec => []AwaitInv
<1>1. LifeInit => AwaitInv
    BY BoundsAssumption, WokenPoints
    DEF LifeInit, AwaitInv, RestTypes, WriteAwaited, TaskAwaited, InPool,
        Pool!PoolStates
<1>2. LifeInv /\ AwaitInv /\ [LifeNext]_vars => AwaitInv'
    BY LifeNextKeepsAwaits
<1> QED
    BY <1>1, <1>2, LifeInvariant, PTL DEF LifeSpec

(* The one write that wakes an attempt is counted.                         *)
LEMMA OneWake ==
    ASSUME LifeInv, AwaitInv, NEW d \in Downloads
    PROVE  Cardinality({i \in DOMAIN writes : writes[i].wakes /\ writes[i].id = d})
             = IF pc[d] \in DOMAIN Woken THEN 1 ELSE 0
<1> DEFINE W == {i \in DOMAIN writes : writes[i].wakes /\ writes[i].id = d}
<1>1. CASE pc[d] \in DOMAIN Woken
    <2>1. PICK i \in DOMAIN writes : writes[i].wakes /\ writes[i].id = d
        BY <1>1 DEF AwaitInv, WriteAwaited, QueuedWake
    <2>2. W = {i}
        BY <2>1 DEF LifeInv, WakesMatch
    <2> HIDE DEF W
    <2>3. Cardinality(W) = 1
        BY <2>2, FS_Singleton
    <2> QED
        BY <1>1, <2>3 DEF W
<1>2. CASE pc[d] \notin DOMAIN Woken
    <2>1. W = {}
        BY <1>2 DEF LifeInv, WakesMatch
    <2> HIDE DEF W
    <2>2. Cardinality(W) = 0
        BY <2>1, FS_EmptySet
    <2> QED
        BY <1>2, <2>2 DEF W
<1> QED
    BY <1>1, <1>2

(* The types, and that an attempt is woken by the one write it awaits: for *)
(* any number of downloads, requests and queued writes.                    *)
THEOREM LifeTyped == LifeSpec => []LifeTypeOK
<1>1. LifeInv /\ AwaitInv => LifeTypeOK
    BY OneWake DEF LifeInv, LifeTypes, AwaitInv, RestTypes, LifeTypeOK
<1> QED
    BY <1>1, LifeInvariant, AwaitsAreUnderWay, PTL

-----------------------------------------------------------------------------
(***************************************************************************)
(* A missing record means a cancellation, for any number of downloads,     *)
(* requests and queued writes.  What isDownloadCancelled relies on is that *)
(* writes execute in the order they were queued: the delete of an earlier  *)
(* cancellation is behind the enqueue of an attempt only if it was queued  *)
(* after it, and then the attempt itself was cancelled.                    *)
(***************************************************************************)

(* A delete of d's record is queued from position i on.                    *)
DeleteFrom(d, i) ==
    \E j \in DOMAIN writes : j >= i /\ writes[j].op = "delete" /\ writes[j].id = d

(* The enqueue of d's attempt stands at position i.                        *)
EnqueueAt(d, i) ==
    writes[i].op = "enqueue" /\ writes[i].id = d /\ writes[i].wakes

(***************************************************************************)
(* The strengthening: while an attempt that was not cancelled awaits its   *)
(* enqueue, that enqueue is queued with no delete behind it; once it has   *)
(* executed, the record is there and no delete is queued.                  *)
(***************************************************************************)
Entering(d) ==
    pc[d] = "enqueuing" /\ d \notin cancelled =>
        \E i \in DOMAIN writes : EnqueueAt(d, i) /\ ~DeleteFrom(d, i)

Entered(d) ==
    pc[d] \notin {"idle", "enqueuing"} /\ d \notin cancelled =>
        record[d] # Absent /\ ~DeleteFrom(d, 1)

RecordsInv == \A d \in Downloads : Entering(d) /\ Entered(d)

-----------------------------------------------------------------------------
(* The queue.                                                              *)

(* What joins the queue joins it at its end.                               *)
LEMMA AppendedAtEnd ==
    ASSUME LifeInv, NEW x, writes' = Append(writes, x)
    PROVE  /\ Len(writes) \in Nat
           /\ DOMAIN writes = 1..Len(writes)
           /\ DOMAIN writes' = 1..(Len(writes) + 1)
           /\ \A i \in DOMAIN writes : i \in Int /\ writes'[i] = writes[i]
           /\ writes'[Len(writes) + 1] = x
BY DEF LifeInv, LifeTypes

(* Anything but a delete leaves the deletes of the queue as they are.      *)
LEMMA NoNewDelete ==
    ASSUME LifeInv, NEW d, NEW i \in Int,
           \/ writes' = writes
           \/ \E x : writes' = Append(writes, x) /\ (x.op # "delete" \/ x.id # d),
           ~DeleteFrom(d, i)
    PROVE  ~DeleteFrom(d, i)'
<1>1. CASE writes' = writes
    BY <1>1 DEF DeleteFrom
<1>2. ASSUME NEW x, writes' = Append(writes, x), x.op # "delete" \/ x.id # d
      PROVE  ~DeleteFrom(d, i)'
    <2>1. /\ Len(writes) \in Nat
          /\ DOMAIN writes = 1..Len(writes)
          /\ DOMAIN writes' = 1..(Len(writes) + 1)
          /\ \A j \in DOMAIN writes : writes'[j] = writes[j]
          /\ writes'[Len(writes) + 1] = x
        BY <1>2, AppendedAtEnd
    <2>2. \A j \in DOMAIN writes' : j \in DOMAIN writes \/ j = Len(writes) + 1
        BY <2>1
    <2> QED
        BY <1>2, <2>1, <2>2 DEF DeleteFrom
<1> QED
    BY <1>1, <1>2

(* A queued enqueue stays where it is until it executes.                   *)
LEMMA EnqueueStays ==
    ASSUME LifeInv, NEW d, NEW i \in DOMAIN writes, EnqueueAt(d, i),
           \/ writes' = writes
           \/ \E x : writes' = Append(writes, x)
    PROVE  i \in DOMAIN writes' /\ EnqueueAt(d, i)' /\ i \in Int
<1>1. CASE writes' = writes
    BY <1>1 DEF EnqueueAt, LifeInv, LifeTypes
<1>2. ASSUME NEW x, writes' = Append(writes, x)
      PROVE  i \in DOMAIN writes' /\ EnqueueAt(d, i)' /\ i \in Int
    BY <1>2, AppendedAtEnd DEF EnqueueAt
<1> QED
    BY <1>1, <1>2

-----------------------------------------------------------------------------
(* The steps.                                                              *)

(* One download is left as it was, or moves on behind its enqueue, and     *)
(* whatever is queued is no delete of it.                                  *)
Undisturbed(d) ==
    /\ record' = record
    /\ d \in cancelled' <=> d \in cancelled
    /\ \/ writes' = writes
       \/ \E x : writes' = Append(writes, x) /\ (x.op # "delete" \/ x.id # d)
    /\ \/ pc'[d] = "idle"
       \/ pc'[d] = pc[d]
       \/ pc[d] \notin {"idle", "enqueuing"} /\ pc'[d] # "enqueuing"

LEMMA UndisturbedKeeps ==
    ASSUME LifeInv, NEW d \in Downloads, Entering(d) /\ Entered(d), Undisturbed(d)
    PROVE  Entering(d)' /\ Entered(d)'
<1>1. Entering(d)'
    <2> SUFFICES ASSUME pc'[d] = "enqueuing", d \notin cancelled'
                 PROVE  (\E i \in DOMAIN writes : EnqueueAt(d, i) /\ ~DeleteFrom(d, i))'
        BY DEF Entering
    <2>1. pc[d] = "enqueuing" /\ d \notin cancelled
        BY DEF Undisturbed
    <2>2. PICK i \in DOMAIN writes : EnqueueAt(d, i) /\ ~DeleteFrom(d, i)
        BY <2>1 DEF Entering
    <2>3. i \in DOMAIN writes' /\ EnqueueAt(d, i)' /\ i \in Int
        BY <2>2, EnqueueStays DEF Undisturbed
    <2>4. ~DeleteFrom(d, i)'
        BY <2>2, <2>3, NoNewDelete DEF Undisturbed
    <2> QED
        BY <2>3, <2>4
<1>2. Entered(d)'
    <2> SUFFICES ASSUME pc'[d] \notin {"idle", "enqueuing"}, d \notin cancelled'
                 PROVE  record'[d] # Absent /\ ~DeleteFrom(d, 1)'
        BY DEF Entered
    <2>1. pc[d] \notin {"idle", "enqueuing"} /\ d \notin cancelled
        BY DEF Undisturbed
    <2>2. record[d] # Absent /\ ~DeleteFrom(d, 1)
        BY <2>1 DEF Entered
    <2> QED
        BY <2>2, NoNewDelete DEF Undisturbed
<1> QED
    BY <1>1, <1>2

(* A new attempt queues its enqueue at the end: every delete is before it. *)
LEMMA StartKeeps ==
    ASSUME LifeInv, RecordsInv, NEW d \in Downloads, Start(d)
    PROVE  RecordsInv'
<1> DEFINE x == [op |-> "enqueue", id |-> d, row |-> {}, wakes |-> TRUE]
<1>1. /\ pc' = [pc EXCEPT ![d] = "enqueuing"] /\ writes' = Append(writes, x)
      /\ record' = record /\ cancelled' = cancelled \ {d}
    BY DEF Start, QueueEnqueue, Queue
<1>2. pc'[d] = "enqueuing" /\ \A e \in Downloads \ {d} : pc'[e] = pc[e]
    BY <1>1 DEF LifeInv, LifeTypes
<1>3. x.op = "enqueue" /\ x.id = d /\ x.wakes
    OBVIOUS
<1> HIDE DEF x
<1>4. \A e \in Downloads \ {d} : Entering(e)' /\ Entered(e)'
    <2> SUFFICES ASSUME NEW e \in Downloads \ {d} PROVE Entering(e)' /\ Entered(e)'
        OBVIOUS
    <2>1. Undisturbed(e)
        BY <1>1, <1>2, <1>3 DEF Undisturbed
    <2> QED
        BY <2>1, UndisturbedKeeps DEF RecordsInv
<1>5. Entering(d)'
    <2>1. PICK n \in Nat \ {0} : DOMAIN writes' = 1..n /\ writes'[n] = x
        <3>1. /\ Len(writes) \in Nat
              /\ DOMAIN writes' = 1..(Len(writes) + 1)
              /\ writes'[Len(writes) + 1] = x
            BY <1>1, AppendedAtEnd
        <3> QED
            BY <3>1
    <2>2. n \in DOMAIN writes' /\ EnqueueAt(d, n)'
        BY <1>3, <2>1 DEF EnqueueAt
    <2>3. \A j \in DOMAIN writes' : j >= n => j = n
        BY <2>1
    <2>4. ~DeleteFrom(d, n)'
        BY <1>3, <2>1, <2>3 DEF DeleteFrom
    <2> QED
        BY <2>2, <2>4 DEF Entering
<1>6. Entered(d)'
    BY <1>2 DEF Entered
<1> QED
    BY <1>4, <1>5, <1>6 DEF RecordsInv

(* A cancellation queues a delete of the one it marks as cancelled.        *)
LEMMA CancelKeeps ==
    ASSUME LifeInv, RecordsInv, NEW d \in Downloads, Cancel(d)
    PROVE  RecordsInv'
<1> DEFINE x == [op |-> "delete", id |-> d, row |-> {}, wakes |-> FALSE]
<1>1. /\ UNCHANGED <<pc, record>> /\ writes' = Append(writes, x)
      /\ cancelled' = cancelled \cup {d}
    BY DEF Cancel, QueueDelete, Queue
<1>2. x.id = d
    OBVIOUS
<1> HIDE DEF x
<1>3. ASSUME NEW e \in Downloads \ {d} PROVE Entering(e)' /\ Entered(e)'
    <2>1. Undisturbed(e)
        BY <1>1, <1>2 DEF Undisturbed
    <2> QED
        BY <2>1, UndisturbedKeeps DEF RecordsInv
<1>4. Entering(d)' /\ Entered(d)'
    BY <1>1 DEF Entering, Entered
<1> QED
    BY <1>3, <1>4 DEF RecordsInv

(* The oldest write executes.  An enqueue leaves a record, a save too; a   *)
(* delete has no attempt that was not cancelled to disturb.                *)
LEMMA WriteKeepsRecords ==
    ASSUME LifeInv, RecordsInv, Write
    PROVE  RecordsInv'
<1> DEFINE w == Head(writes)
<1>1. /\ record \in [Downloads -> Records] /\ writes \in Seq(WriteRequests)
      /\ pc \in [Downloads -> Points] /\ WakesMatch
    BY DEF LifeInv, LifeTypes
<1>2. /\ writes # << >> /\ writes' = Tail(writes) /\ cancelled' = cancelled
      /\ pc' = [pc EXCEPT ![w.id] = IF w.wakes THEN Woken[@] ELSE @]
    BY DEF Write
<1>3. w \in WriteRequests /\ w = writes[1] /\ 1 \in DOMAIN writes
    BY <1>1, <1>2
<1>4. /\ w.op \in {"enqueue", "tap", "save", "delete"} /\ w.id \in Downloads
      /\ w.row \in SUBSET Flags /\ w.wakes \in BOOLEAN
    BY <1>3 DEF WriteRequests
<1>5. w.wakes => pc[w.id] \in DOMAIN Woken
    BY <1>1, <1>3 DEF WakesMatch
<1>6. \A d \in Downloads :
          pc'[d] = IF d = w.id /\ w.wakes THEN Woken[pc[d]] ELSE pc[d]
    BY <1>1, <1>2, <1>4
<1>7. \A d \in Downloads : d # w.id => record'[d] = record[d]
    BY <1>1, <1>4 DEF Write
<1>8. Absent \notin SUBSET Flags
    BY DEF Absent, Flags
<1>9. w.op \in {"enqueue", "tap"} => record'[w.id] # Absent
    <2>1. Enqueued(record[w.id]) # Absent
        BY <1>8 DEF Enqueued, Flags
    <2> QED
        BY <1>1, <1>4, <2>1 DEF Write
<1>10. w.op = "save" => record'[w.id] # Absent
    <2>1. w.row # Absent
        BY <1>4, <1>8
    <2> QED
        BY <1>1, <1>4, <2>1 DEF Write
<1>11. /\ DOMAIN writes = 1..Len(writes) /\ Len(writes) \in Nat \ {0}
       /\ DOMAIN writes' = 1..(Len(writes) - 1)
       /\ \A i \in DOMAIN writes' : writes'[i] = writes[i + 1]
    BY <1>1, <1>2
<1> HIDE DEF w
<1>12. ASSUME NEW d \in Downloads PROVE Entering(d)' /\ Entered(d)'
    <2>1. Entering(d) /\ Entered(d)
        BY DEF RecordsInv
    <2>2. ASSUME NEW i \in Int, i >= 1, ~DeleteFrom(d, i)
          PROVE  ~DeleteFrom(d, i)' /\ (i >= 2 => ~DeleteFrom(d, i - 1)')
        <3>1. \A j \in DOMAIN writes' :
                  /\ j + 1 \in DOMAIN writes /\ j \in Int
                  /\ writes'[j] = writes[j + 1]
            BY <1>11
        <3>2. \A j \in DOMAIN writes' :
                  j + 1 >= i => ~(writes'[j].op = "delete" /\ writes'[j].id = d)
            BY <2>2, <3>1 DEF DeleteFrom
        <3>3. \A j \in DOMAIN writes' : (j >= i \/ j >= i - 1) => j + 1 >= i
            BY <3>1
        <3> QED
            BY <3>2, <3>3 DEF DeleteFrom
    <2>3. Entering(d)'
        <3> SUFFICES ASSUME pc'[d] = "enqueuing", d \notin cancelled
                     PROVE  (\E i \in DOMAIN writes : EnqueueAt(d, i) /\ ~DeleteFrom(d, i))'
            BY <1>2 DEF Entering
        <3>1. pc[d] = "enqueuing" /\ ~(d = w.id /\ w.wakes)
            BY <1>5, <1>6, WokenPoints
        <3>2. PICK i \in DOMAIN writes : EnqueueAt(d, i) /\ ~DeleteFrom(d, i)
            BY <2>1, <3>1 DEF Entering
        <3>3. i # 1
            BY <1>3, <3>1, <3>2 DEF EnqueueAt
        <3>4. i \in Int /\ i >= 2 /\ i - 1 \in DOMAIN writes' /\ (i - 1) + 1 = i
            BY <1>11, <3>3
        <3>5. EnqueueAt(d, i - 1)'
            BY <1>11, <3>2, <3>4 DEF EnqueueAt
        <3>6. ~DeleteFrom(d, i - 1)'
            BY <2>2, <3>2, <3>4
        <3> QED
            BY <3>4, <3>5, <3>6
    <2>4. Entered(d)'
        <3> SUFFICES ASSUME pc'[d] \notin {"idle", "enqueuing"}, d \notin cancelled
                     PROVE  record'[d] # Absent /\ ~DeleteFrom(d, 1)'
            BY <1>2 DEF Entered
        <3>1. CASE pc[d] = "enqueuing"
            <4>1. d = w.id /\ w.wakes
                BY <1>6, <3>1
            <4>2. PICK i \in DOMAIN writes : EnqueueAt(d, i) /\ ~DeleteFrom(d, i)
                BY <2>1, <3>1 DEF Entering
            <4>3. i = 1
                BY <1>1, <1>3, <4>1, <4>2 DEF EnqueueAt, WakesMatch
            <4>4. w.op = "enqueue"
                BY <1>3, <4>2, <4>3 DEF EnqueueAt
            <4> QED
                BY <1>9, <2>2, <4>1, <4>2, <4>3, <4>4
        <3>2. CASE pc[d] # "enqueuing"
            <4>1. pc[d] \notin {"idle", "enqueuing"}
                BY <1>5, <1>6, <3>2, WokenPoints
            <4>2. record[d] # Absent /\ ~DeleteFrom(d, 1)
                BY <2>1, <4>1 DEF Entered
            <4>3. ~(w.op = "delete" /\ w.id = d)
                BY <1>3, <4>2 DEF DeleteFrom
            <4>4. record'[d] # Absent
                BY <1>4, <1>7, <1>9, <1>10, <4>2, <4>3
            <4> QED
                BY <2>2, <4>2, <4>4
        <3> QED
            BY <3>1, <3>2
    <2> QED
        BY <2>3, <2>4
<1> QED
    BY <1>12 DEF RecordsInv

(* The wakes of QueuesFor aside, what a step queues is a write of d.       *)
Ordinary(d) ==
    /\ record' = record /\ cancelled' = cancelled
    /\ \/ writes' = writes
       \/ \E x : writes' = Append(writes, x) /\ x.op # "delete"
    /\ \A e \in Downloads \ {d} : pc'[e] = pc[e]
    /\ \/ pc'[d] \in {"idle", pc[d]}
       \/ pc[d] \notin {"idle", "enqueuing"} /\ pc'[d] # "enqueuing"

LEMMA OrdinaryKeeps ==
    ASSUME LifeInv, RecordsInv, NEW d \in Downloads, Ordinary(d)
    PROVE  RecordsInv'
<1>1. ASSUME NEW e \in Downloads PROVE Undisturbed(e)
    BY DEF Ordinary, Undisturbed
<1> QED
    BY <1>1, UndisturbedKeeps DEF RecordsInv

-----------------------------------------------------------------------------
(* The actions.                                                            *)

(* What is queued for a record is an enqueue or a save.                    *)
QueuesNoDelete ==
    \/ writes' = writes
    \/ \E x : writes' = Append(writes, x) /\ x.op # "delete"

LEMMA SavesNoDelete ==
    ASSUME NEW d, NEW row, NEW w,
           QueueSave(d, row, w) \/ QueueEnqueue(d, w) \/ QueueTap(d)
    PROVE  QueuesNoDelete
<1>1. CASE QueueSave(d, row, w)
    <2> DEFINE x == [op |-> "save", id |-> d, row |-> row, wakes |-> w]
    <2>1. writes' = Append(writes, x) /\ x.op # "delete"
        BY <1>1 DEF QueueSave, Queue
    <2> QED
        BY <2>1 DEF QueuesNoDelete
<1>2. CASE QueueEnqueue(d, w)
    <2> DEFINE x == [op |-> "enqueue", id |-> d, row |-> {}, wakes |-> w]
    <2>1. writes' = Append(writes, x) /\ x.op # "delete"
        BY <1>2 DEF QueueEnqueue, Queue
    <2> QED
        BY <2>1 DEF QueuesNoDelete
<1>3. CASE QueueTap(d)
    <2> DEFINE x == [op |-> "tap", id |-> d, row |-> {}, wakes |-> FALSE]
    <2>1. writes' = Append(writes, x) /\ x.op # "delete"
        BY <1>3 DEF QueueTap, Queue
    <2> QED
        BY <2>1 DEF QueuesNoDelete
<1> QED
    BY <1>1, <1>2, <1>3

LEMMA ProgressNoDelete ==
    ASSUME NEW d, SetCompleted(d) \/ SetProgress(d, Undone(record[d]))
    PROVE  QueuesNoDelete
BY SavesNoDelete DEF SetCompleted, SetProgress, QueuesNoDelete

(* An attempt moves on, or ends.                                           *)
LEMMA MoveOrdinary ==
    ASSUME LifeInv, NEW d \in Downloads, NEW x,
           pc' = [pc EXCEPT ![d] = x], QueuesNoDelete,
           record' = record, cancelled' = cancelled,
           \/ x = "idle"
           \/ pc[d] \notin {"idle", "enqueuing"} /\ x # "enqueuing"
    PROVE  Ordinary(d)
<1>1. pc'[d] = x /\ \A e \in Downloads \ {d} : pc'[e] = pc[e]
    BY DEF LifeInv, LifeTypes
<1> QED
    BY <1>1 DEF Ordinary, QueuesNoDelete

LEMMA FailureOrdinary ==
    ASSUME LifeInv, NEW d \in Downloads, MarkFailed(d),
           pc[d] \notin {"idle", "enqueuing"},
           record' = record, cancelled' = cancelled
    PROVE  Ordinary(d)
<1>1. CASE Leave(d) /\ writes' = writes
    BY <1>1, MoveOrdinary DEF Leave, QueuesNoDelete
<1>2. CASE /\ QueueSave(d, Failed(record[d]), TRUE)
           /\ pc' = [pc EXCEPT ![d] = "marking"]
    BY <1>2, SavesNoDelete, MoveOrdinary
<1> QED
    BY <1>1, <1>2 DEF MarkFailed

(* Every step of an attempt is ordinary.                                   *)
LEMMA AttemptOrdinary ==
    ASSUME LifeInv, NEW d \in Downloads, AttemptStep(d)
    PROVE  Ordinary(d)
<1>1. CASE GoToGate(d)
    <2>1. /\ pc[d] = "enqueued"
          /\ writes' = writes /\ record' = record /\ cancelled' = cancelled
          /\ pc' = [pc EXCEPT ![d] = "idle"] \/ pc' = [pc EXCEPT ![d] = "gating"]
        BY <1>1 DEF GoToGate, Leave
    <2> QED
        BY <2>1, MoveOrdinary DEF QueuesNoDelete
<1>2. CASE Timer(d)
    BY <1>2 DEF Timer, lifeVars, Ordinary
<1>3. CASE Enter(d)
    <2>1. /\ pc[d] = "gating"
          /\ writes' = writes /\ record' = record /\ cancelled' = cancelled
          /\ pc' = [pc EXCEPT ![d] = "idle"] \/ pc' = [pc EXCEPT ![d] = "preparing"]
        BY <1>3 DEF Enter
    <2> QED
        BY <2>1, MoveOrdinary DEF QueuesNoDelete
<1>4. CASE Refused(d) \/ Closed(d)
    <2>1. /\ pc' = [pc EXCEPT ![d] = "idle"]
          /\ writes' = writes /\ record' = record /\ cancelled' = cancelled
        BY <1>4 DEF Refused, Closed, Leave
    <2> QED
        BY <2>1, MoveOrdinary DEF QueuesNoDelete
<1>5. CASE \/ PrepareFails(d) \/ SubmitFails(d) \/ CollectError(d)
           \/ MergeFails(d) \/ CloseFails(d)
    <2>1. /\ MarkFailed(d) /\ record' = record /\ cancelled' = cancelled
          /\ pc[d] \notin {"idle", "enqueuing"}
        BY <1>5 DEF PrepareFails, SubmitFails, CollectError, MergeFails, CloseFails,
                    InPool
    <2> QED
        BY <2>1, FailureOrdinary
<1>6. CASE Prepared(d)
    <2>1. /\ pc[d] = "preparing"
          /\ writes' = writes /\ record' = record /\ cancelled' = cancelled
          /\ \/ pc' = [pc EXCEPT ![d] = "idle"]
             \/ pc' = [pc EXCEPT ![d] = "submitting"]
             \/ pc' = [pc EXCEPT ![d] = "loading"]
        BY <1>6 DEF Prepared, Leave
    <2> QED
        BY <2>1, MoveOrdinary DEF QueuesNoDelete
<1>7. CASE SubmitTask(d)
    <2>1. /\ pc[d] \in {"submitting", "loading"}
          /\ writes' = writes /\ record' = record /\ cancelled' = cancelled
        BY <1>7 DEF SubmitTask
    <2>2. PICK x \in {"fetching", "streaming"} : pc' = [pc EXCEPT ![d] = x]
        BY <1>7, SubmitPoints DEF InPool
    <2> QED
        BY <2>1, <2>2, MoveOrdinary DEF QueuesNoDelete
<1>8. CASE AllOnDisk(d)
    <2>1. pc[d] = "submitting" /\ record' = record /\ cancelled' = cancelled
        BY <1>8 DEF AllOnDisk
    <2>2. CASE record[d] = Absent
        <3>1. pc' = [pc EXCEPT ![d] = "closing"] /\ writes' = writes
            BY <1>8, <2>2 DEF AllOnDisk
        <3> QED
            BY <2>1, <3>1, MoveOrdinary DEF QueuesNoDelete
    <2>3. CASE record[d] # Absent
        <3>1. /\ pc' = [pc EXCEPT ![d] = "storing"]
              /\ QueueSave(d, Done(record[d]), TRUE)
            BY <1>8, <2>3 DEF AllOnDisk
        <3> QED
            BY <2>1, <3>1, SavesNoDelete, MoveOrdinary
    <2> QED
        BY <2>2, <2>3
<1>9. CASE Collect(d)
    <2>1. /\ pc[d] \in {"fetching", "streaming"}
          /\ record' = record /\ cancelled' = cancelled
          /\ SetCompleted(d) \/ writes' = writes
        BY <1>9 DEF Collect, InPool
    <2>2. PICK x \in {"merging", "closing"} : pc' = [pc EXCEPT ![d] = x]
        BY <1>9, CollectPoints
    <2>3. QueuesNoDelete
        BY <2>1, ProgressNoDelete DEF QueuesNoDelete
    <2> QED
        BY <2>1, <2>2, <2>3, MoveOrdinary
<1>10. CASE Merged(d)
    <2>1. /\ pc[d] = "merging" /\ pc' = [pc EXCEPT ![d] = "closing"]
          /\ record' = record /\ cancelled' = cancelled /\ SetCompleted(d)
        BY <1>10 DEF Merged
    <2>2. QueuesNoDelete
        BY <2>1, ProgressNoDelete
    <2> QED
        BY <2>1, <2>2, MoveOrdinary
<1> QED
    BY <1>1, <1>2, <1>3, <1>4, <1>5, <1>6, <1>7, <1>8, <1>9, <1>10 DEF AttemptStep

(* So are an enqueue with no attempt, progress, the pool and conversions.  *)
LEMMA RestOrdinary ==
    ASSUME NEW d \in Downloads,
           Tap(d) \/ AddToQueue(d) \/ StartDropped(d) \/ OtherStep(d)
    PROVE  Ordinary(d)
<1>1. UNCHANGED <<pc, record, cancelled>>
    BY DEF Tap, AddToQueue, StartDropped, OtherStep, Progress, PoolStep, Converted,
           ConvertFails, attempts
<1>2. QueuesNoDelete
    <2>1. CASE Tap(d) \/ AddToQueue(d)
        BY <2>1, SavesNoDelete DEF Tap, AddToQueue
    <2>2. CASE Progress(d) \/ Converted(d)
        BY <2>2, ProgressNoDelete DEF Progress, Converted
    <2>3. CASE PoolStep(d) \/ ConvertFails(d) \/ StartDropped(d)
        BY <2>3 DEF PoolStep, ConvertFails, StartDropped, QueuesNoDelete
    <2> QED
        BY <2>1, <2>2, <2>3 DEF OtherStep
<1> QED
    BY <1>1, <1>2 DEF Ordinary, QueuesNoDelete

(* Every step of the lifecycle keeps the strengthening.                    *)
LEMMA LifeNextKeepsRecords ==
    LifeInv /\ RecordsInv /\ [LifeNext]_vars => RecordsInv'
<1> SUFFICES ASSUME LifeInv, RecordsInv, [LifeNext]_vars PROVE RecordsInv'
    OBVIOUS
<1>1. CASE UNCHANGED vars \/ ProcessDownloads
    <2>1. UNCHANGED <<record, writes, pc, cancelled>>
        BY <1>1, QueueOnlyOwes
    <2> QED
        BY <2>1 DEF RecordsInv, Entering, Entered, EnqueueAt, DeleteFrom
<1>2. CASE Write
    BY <1>2, WriteKeepsRecords
<1>3. ASSUME NEW d \in Downloads, StartDue(d) \/ Cancel(d)
      PROVE  RecordsInv'
    BY <1>3, StartKeeps, CancelKeeps DEF StartDue
<1>4. ASSUME NEW d \in Downloads,
             Tap(d) \/ AddToQueue(d) \/ StartDropped(d) \/ OtherStep(d)
      PROVE  RecordsInv'
    BY <1>4, RestOrdinary, OrdinaryKeeps
<1>5. ASSUME NEW d \in Downloads, AttemptStep(d)
      PROVE  RecordsInv'
    BY <1>5, AttemptOrdinary, OrdinaryKeeps
<1> QED
    BY <1>1, <1>2, <1>3, <1>4, <1>5 DEF LifeNext, OtherStep

(* A record that an attempt finds missing was deleted by a cancellation of *)
(* that attempt, never by one of before: for any number of downloads,      *)
(* requests and queued writes, however late the writes execute.            *)
THEOREM MissingIsCancelled == LifeSpec => []MissingMeansCancelled
<1>1. LifeInit => RecordsInv
    BY DEF LifeInit, RecordsInv, Entering, Entered
<1>2. LifeInv /\ RecordsInv /\ [LifeNext]_vars => RecordsInv'
    BY LifeNextKeepsRecords
<1>3. RecordsInv => MissingMeansCancelled
    BY DEF RecordsInv, Entered, MissingMeansCancelled
<1> QED
    BY <1>1, <1>2, <1>3, LifeInvariant, PTL DEF LifeSpec

=============================================================================
