------------------------- MODULE DownloadLifecycle -------------------------
(***************************************************************************)
(* One attempt to download a chapter, from the tap to the unscheduling:    *)
(* downloadChapter and processDownloads of download_provider.dart, the     *)
(* queue record of each chapter (download_repository.dart) behind the      *)
(* serial write queue (db_write_queue.dart), the gate, and the isolate     *)
(* pool as what it promises (TaskPool).                                    *)
(*                                                                         *)
(* The code runs on the main isolate; whatever stands between two awaits   *)
(* is one step.  Reads of the database are immediate.  A write waits until *)
(* those queued before it are done, and those include the writes of the    *)
(* other repositories, some of which await inside their transaction: a     *)
(* write may execute any time after it was queued.                         *)
(***************************************************************************)
EXTENDS DownloadGate

CONSTANTS
    Manga,        \* the chapters that are page files, converted to CBZ at the end;
                  \* an episode is, as its source answers at each attempt, a
                  \* video (one file) or a stream (segments, then a merge)
    OldRecords,   \* what an earlier session may have left of a record
    MaxWrites,    \* bound: user actions and progress wait for a shorter queue
    MaxRequests   \* bound on how often downloads are asked for, each start that
                  \* processDownloads owes counted as one

ASSUME KindAssumption == Manga \subseteq Downloads
ASSUME BoundsAssumption == MaxWrites \in Nat /\ MaxRequests \in Nat

VARIABLES
    record,       \* record[d]: the queue record of d in the database
    writes,       \* dbWriteQueue: what is queued and not executed
    pc,           \* where the attempt of d awaits; "idle" if not scheduled
    acquired,     \* the local flag of that attempt
    task,         \* what the pool holds for d
    converting,   \* completions of d whose conversion is under way
    cancelled,    \* downloads cancelled since their last attempt began
    uncaught,     \* downloads whose conversion threw since then: an error that
                  \* nobody catches, and that the handler of the zone reports
    due,          \* due[d]: starts of d that a tap or processDownloads still owes
    requests      \* how often a download was asked for

lifeVars == <<record, writes, pc, acquired, task, converting, cancelled,
              uncaught, due, requests>>
asks == <<due, requests>>
vars == <<gateVars, lifeVars>>

Pool == INSTANCE TaskPool WITH Tasks <- Downloads, state <- task

(* A record is the set of its flags that are true.                         *)
Flags == {"isStartDownload", "isDownload"}
Absent == {"no record"}
Records == (SUBSET Flags) \cup {Absent}
Pending(r) == r = {"isStartDownload"}
Failed(r) == r \ {"isStartDownload"}
Done(r) == r \cup {"isDownload"}
Undone(r) == r \ {"isDownload"}

ASSUME RecordsAssumption == OldRecords \subseteq Records

(* What an attempt awaits, and the point its awaited write takes it to.    *)
Woken == [enqueuing |-> "enqueued", storing |-> "closing", marking |-> "marked"]
Points == DOMAIN Woken \cup {"idle", "enqueued", "gating", "preparing",
            "submitting", "loading", "fetching", "streaming", "merging",
            "closing", "marked"}
InPool == {"fetching", "streaming"}
scheduled == {d \in Downloads : pc[d] # "idle"}

LifeInit ==
    /\ Init
    /\ record \in [Downloads -> OldRecords]
    /\ writes = << >>
    /\ pc = [d \in Downloads |-> "idle"]
    /\ acquired = [d \in Downloads |-> FALSE]
    /\ task = [d \in Downloads |-> "idle"]
    /\ converting = [d \in Downloads |-> 0]
    /\ cancelled = {}
    /\ uncaught = {}
    /\ due = [d \in Downloads |-> 0]
    /\ requests = 0

-----------------------------------------------------------------------------
(* The records and their write queue.                                      *)

(* enqueue, as its transaction runs: completed and active entries stay.    *)
Enqueued(r) ==
    IF r # Absent /\ r \cap Flags # {} THEN r ELSE {"isStartDownload"}

(* Bug: the writes are not chained, and a later one overtakes.             *)
Queue_Unchained(op, d, row, wakes) ==
    writes' = <<[op |-> op, id |-> d, row |-> row, wakes |-> wakes]>> \o writes

Queue(op, d, row, wakes) ==
    writes' = Append(writes, [op |-> op, id |-> d, row |-> row, wakes |-> wakes])

(* DbWriteQueue.run, for enqueue (that of a tap, which the tap awaits, is   *)
(* told apart), for save, and for delete and deleteAll.                    *)
QueueEnqueue(d, wakes) == Queue("enqueue", d, {}, wakes)
QueueTap(d) == Queue("tap", d, {}, FALSE)
QueueSave(d, row, wakes) == Queue("save", d, row, wakes)
QueueDelete(d) == Queue("delete", d, {}, FALSE)

(* The oldest write executes, and whoever awaits it may go on.             *)
Write ==
    /\ writes # << >>
    /\ LET w == Head(writes)
       IN  /\ record' = [record EXCEPT ![w.id] =
                            CASE w.op \in {"enqueue", "tap"} -> Enqueued(@)
                              [] w.op = "save" -> w.row
                              [] w.op = "delete" -> Absent]
           /\ pc' = [pc EXCEPT ![w.id] = IF w.wakes THEN Woken[@] ELSE @]
           /\ due' = [due EXCEPT ![w.id] = IF w.op = "tap" THEN @ + 1 ELSE @]
    /\ writes' = Tail(writes)
    /\ UNCHANGED <<gateVars, acquired, task, converting, cancelled, uncaught, requests>>

-----------------------------------------------------------------------------
(* Steps an attempt ends with.                                             *)

(* The finally of downloadChapter.                                         *)
Leave(d) ==
    /\ pc' = [pc EXCEPT ![d] = "idle"]
    /\ acquired' = [acquired EXCEPT ![d] = FALSE]
    /\ IF acquired[d] THEN Release(d) ELSE UNCHANGED gateVars

(* Bug: the catch swallows the error and marks nothing.                    *)
MarkFailed_Silent(d) == Leave(d) /\ UNCHANGED writes

(* markDownloadFailed, awaited; with no record or a completed one it       *)
(* returns at once, and the attempt ends.                                  *)
MarkFailed(d) ==
    IF record[d] = Absent \/ "isDownload" \in record[d]
    THEN Leave(d) /\ UNCHANGED writes
    ELSE /\ QueueSave(d, Failed(record[d]), TRUE)
         /\ pc' = [pc EXCEPT ![d] = "marking"]
         /\ UNCHANGED <<acquired, gateVars>>

(* setProgress from its read of the record on: a record that is gone is    *)
(* not written.                                                            *)
SetProgress(d, row) ==
    IF record[d] = Absent THEN UNCHANGED writes ELSE QueueSave(d, row, FALSE)

(* Bug: the throttle of progress holds for the completion as well, so that *)
(* one that follows another write too closely is dropped.                  *)
SetCompleted_Throttled(d) == UNCHANGED writes

SetCompleted(d) == SetProgress(d, Done(record[d]))

-----------------------------------------------------------------------------
(* What the user does.                                                     *)

(* Bug: what scheduleDownload answers is not looked at.                    *)
Start_Unguarded(d) ==
    /\ pc' = [pc EXCEPT ![d] = "enqueuing"]
    /\ QueueEnqueue(d, TRUE)
    /\ cancelled' = cancelled \ {d} /\ uncaught' = uncaught \ {d}
    /\ UNCHANGED <<gateVars, record, acquired, task, converting>>

(* downloadChapter up to its first await.                                  *)
Start(d) ==
    /\ d \notin scheduled
    /\ pc' = [pc EXCEPT ![d] = "enqueuing"]
    /\ QueueEnqueue(d, TRUE)
    /\ cancelled' = cancelled \ {d} /\ uncaught' = uncaught \ {d}
    /\ UNCHANGED <<gateVars, record, acquired, task, converting>>

Room == Len(writes) < MaxWrites
Ask == requests < MaxRequests /\ requests' = requests + 1
attempts == <<gateVars, record, pc, acquired, task, converting, cancelled, uncaught>>

(* A tap on the download icon of a chapter that is not scheduled: it       *)
(* awaits an enqueue of its own, and owes the start.                       *)
Tap(d) ==
    /\ Room /\ Ask
    /\ d \notin scheduled
    /\ QueueTap(d)
    /\ UNCHANGED <<attempts, due>>

(* addDownloadToQueue, and the other callers of a bare enqueue.            *)
AddToQueue(d) ==
    /\ Room /\ Ask
    /\ QueueEnqueue(d, FALSE)
    /\ UNCHANGED <<attempts, due>>

(* processDownloads, which the user starts, finds the pending downloads.   *)
ProcessDownloads ==
    LET found == {d \in Downloads : Pending(record[d])}
    IN  /\ found # {}
        /\ requests + Cardinality(found) <= MaxRequests
        /\ requests' = requests + Cardinality(found)
        /\ due' = [d \in Downloads |-> IF d \in found THEN due[d] + 1 ELSE due[d]]
        /\ UNCHANGED <<attempts, writes>>

(* A start that is owed.                                                   *)
StartDue(d) ==
    /\ due[d] > 0
    /\ due' = [due EXCEPT ![d] = @ - 1]
    /\ Start(d)
    /\ UNCHANGED requests

(* It comes to nothing: the chapter is scheduled by now, by another tap or *)
(* from the queue (the attempt under way then loses its ref, one of the    *)
(* failures it may meet anywhere behind the gate), or the widget is gone.  *)
StartDropped(d) ==
    /\ due[d] > 0
    /\ due' = [due EXCEPT ![d] = @ - 1]
    /\ UNCHANGED <<attempts, writes, requests>>

(* Bug: the worker is killed and its waiting downloader never told.        *)
CancelTask_Silent(d) ==
    task' = [task EXCEPT ![d] = IF @ = "pending" THEN "idle" ELSE @]

(* cancelTask, as the pool promises it.                                    *)
CancelTask(d) ==
    IF task[d] = "pending" THEN Pool!Fail({d}) ELSE UNCHANGED task

(* cancelDownloads, offered for a chapter that has a record.               *)
Cancel(d) ==
    /\ Room
    /\ record[d] # Absent
    /\ CancelTask(d)
    /\ QueueDelete(d)
    /\ cancelled' = cancelled \cup {d}
    /\ UNCHANGED <<gateVars, record, pc, acquired, converting, uncaught, asks>>

-----------------------------------------------------------------------------
(* The attempt.  Next to each await: what it awaits.                       *)

(* The enqueue is written: a completed chapter ends the attempt, any other *)
(* goes to the gate with the setting it has read.                          *)
GoToGate(d) ==
    /\ pc[d] = "enqueued"
    /\ IF record[d] # Absent /\ "isDownload" \in record[d]
       THEN Leave(d)
       ELSE /\ \E l \in Limits : Acquire(d, l)
            /\ pc' = [pc EXCEPT ![d] = "gating"]
            /\ UNCHANGED acquired
    /\ UNCHANGED <<record, writes, task, converting, cancelled, uncaught, asks>>

(* The start delay ends (the timer of the gate).                           *)
Timer(d) == Launch(d) /\ UNCHANGED lifeVars

(* Bug: the flag is set after the look at the record.                      *)
Enter_AcquiredLate(d) ==
    /\ pc[d] = "gating" /\ phase[d] = "running"
    /\ IF record[d] = Absent
       THEN pc' = [pc EXCEPT ![d] = "idle"] /\ UNCHANGED acquired
       ELSE /\ pc' = [pc EXCEPT ![d] = "preparing"]
            /\ acquired' = [acquired EXCEPT ![d] = TRUE]
    /\ UNCHANGED <<gateVars, record, writes, task, converting, cancelled, uncaught, asks>>

(* acquire has returned; cancelled meanwhile, the attempt ends.            *)
Enter(d) ==
    /\ pc[d] = "gating" /\ phase[d] = "running"
    /\ IF record[d] = Absent
       THEN /\ pc' = [pc EXCEPT ![d] = "idle"]
            /\ Release(d)
            /\ UNCHANGED acquired
       ELSE /\ pc' = [pc EXCEPT ![d] = "preparing"]
            /\ acquired' = [acquired EXCEPT ![d] = TRUE]
            /\ UNCHANGED gateVars
    /\ UNCHANGED <<record, writes, task, converting, cancelled, uncaught, asks>>

(* Wi-Fi only, and no Wi-Fi: the record stays as it is.                    *)
Refused(d) ==
    /\ pc[d] = "preparing"
    /\ Leave(d)
    /\ UNCHANGED <<record, writes, task, converting, cancelled, uncaught, asks>>

(* The source has no pages or videos, has failed, or took 45 seconds; or   *)
(* something before that threw.                                            *)
PrepareFails(d) ==
    /\ pc[d] = "preparing"
    /\ MarkFailed(d)
    /\ UNCHANGED <<record, task, converting, cancelled, uncaught, asks>>

(* The pages, the video or the stream are known; cancelled meanwhile, the  *)
(* attempt ends.                                                           *)
Prepared(d) ==
    /\ pc[d] = "preparing"
    /\ IF record[d] = Absent
       THEN Leave(d)
       ELSE /\ \E x \in {"submitting", "loading"} :
                  /\ d \in Manga => x = "submitting"
                  /\ pc' = [pc EXCEPT ![d] = x]
            /\ UNCHANGED <<acquired, gateVars>>
    /\ UNCHANGED <<record, writes, task, converting, cancelled, uncaught, asks>>

(* Files were looked up, or the playlist was loaded: off to the pool.      *)
SubmitTask(d) ==
    /\ pc[d] \in {"submitting", "loading"}
    /\ Pool!Submit(d)
    /\ pc' = [pc EXCEPT ![d] = IF @ = "loading" THEN "streaming" ELSE "fetching"]
    /\ UNCHANGED <<gateVars, record, writes, acquired, converting, cancelled, uncaught, asks>>

(* The playlist cannot be loaded, or a directory cannot be made.           *)
SubmitFails(d) ==
    /\ pc[d] \in {"submitting", "loading"}
    /\ MarkFailed(d)
    /\ UNCHANGED <<record, task, converting, cancelled, uncaught, asks>>

(* Every page is on disk, or a video that a failed attempt left there and  *)
(* that could not be deleted: the pages are converted, and the completion  *)
(* is awaited.                                                             *)
AllOnDisk(d) ==
    /\ pc[d] = "submitting"
    /\ IF record[d] = Absent
       THEN pc' = [pc EXCEPT ![d] = "closing"] /\ UNCHANGED writes
       ELSE /\ QueueSave(d, Done(record[d]), TRUE)
            /\ pc' = [pc EXCEPT ![d] = "storing"]
    /\ UNCHANGED <<gateVars, record, acquired, task, converting, cancelled, uncaught, asks>>

(* A progress message, sent before the outcome, is delivered.              *)
Progress(d) ==
    /\ Room
    /\ pc[d] \in InPool
    /\ record[d] # Absent
    /\ SetProgress(d, Undone(record[d]))
    /\ UNCHANGED <<gateVars, record, pc, acquired, task, converting, cancelled, uncaught, asks>>

(* The pool settles the task.                                              *)
PoolStep(d) ==
    /\ Pool!Complete(d) \/ Pool!Fail({d})
    /\ UNCHANGED <<gateVars, record, writes, pc, acquired, converting, cancelled, uncaught, asks>>

(* onComplete.  The completion of a manga first converts the pages, which  *)
(* nobody awaits; that of a video is written at once, and nobody awaits    *)
(* the write; the segments of a stream are merged.                         *)
Collect(d) ==
    /\ pc[d] \in InPool /\ task[d] = "done"
    /\ Pool!Settle(d)
    /\ converting' = [converting EXCEPT ![d] = IF d \in Manga THEN @ + 1 ELSE @]
    /\ IF pc[d] = "fetching" /\ d \notin Manga THEN SetCompleted(d) ELSE UNCHANGED writes
    /\ pc' = [pc EXCEPT ![d] = IF @ = "streaming" THEN "merging" ELSE "closing"]
    /\ UNCHANGED <<gateVars, record, acquired, cancelled, uncaught, asks>>

(* onError.                                                                *)
CollectError(d) ==
    /\ pc[d] \in InPool /\ task[d] = "failed"
    /\ Pool!Settle(d)
    /\ MarkFailed(d)
    /\ UNCHANGED <<record, converting, cancelled, uncaught, asks>>

Merged(d) ==
    /\ pc[d] = "merging"
    /\ SetCompleted(d)
    /\ pc' = [pc EXCEPT ![d] = "closing"]
    /\ UNCHANGED <<gateVars, record, acquired, task, converting, cancelled, uncaught, asks>>

MergeFails(d) ==
    /\ pc[d] = "merging"
    /\ MarkFailed(d)
    /\ UNCHANGED <<record, task, converting, cancelled, uncaught, asks>>

(* The conversion of a completed manga ends, whatever its attempt does.    *)
Converted(d) ==
    /\ converting[d] > 0
    /\ converting' = [converting EXCEPT ![d] = @ - 1]
    /\ SetCompleted(d)
    /\ UNCHANGED <<gateVars, record, pc, acquired, task, cancelled, uncaught, asks>>

(* What precedes it throws (the export of the cover, or the look at a      *)
(* setting), outside of the try and in a future nobody awaits: there will  *)
(* be no completion.                                                       *)
ConvertFails(d) ==
    /\ converting[d] > 0
    /\ converting' = [converting EXCEPT ![d] = @ - 1]
    /\ uncaught' = uncaught \cup {d}
    /\ UNCHANGED <<gateVars, record, writes, pc, acquired, task, cancelled, asks>>

(* Subtitles, cover and library scan are done.                             *)
Closed(d) ==
    /\ pc[d] \in {"closing", "marked"}
    /\ Leave(d)
    /\ UNCHANGED <<record, writes, task, converting, cancelled, uncaught, asks>>

(* One of them throws.                                                     *)
CloseFails(d) ==
    /\ pc[d] = "closing"
    /\ MarkFailed(d)
    /\ UNCHANGED <<record, task, converting, cancelled, uncaught, asks>>

AttemptStep(d) ==
    \/ GoToGate(d) \/ Timer(d) \/ Enter(d)
    \/ Refused(d) \/ PrepareFails(d) \/ Prepared(d)
    \/ SubmitTask(d) \/ SubmitFails(d) \/ AllOnDisk(d)
    \/ Collect(d) \/ CollectError(d) \/ Merged(d) \/ MergeFails(d)
    \/ Closed(d) \/ CloseFails(d)

LifeNext ==
    \/ Write
    \/ ProcessDownloads
    \/ \E d \in Downloads : \/ Tap(d) \/ AddToQueue(d)
                            \/ StartDue(d) \/ StartDropped(d)
                            \/ Cancel(d)
                            \/ AttemptStep(d)
                            \/ Progress(d) \/ PoolStep(d)
                            \/ Converted(d) \/ ConvertFails(d)

LifeSpec == LifeInit /\ [][LifeNext]_vars

(***************************************************************************)
(* Queued writes execute, futures complete, everything an attempt awaits   *)
(* from the network is bounded by timeouts, and the pool settles what it   *)
(* was given (as long as it has workers, see DownloadIsolatePool).         *)
(***************************************************************************)
LifeFairness ==
    /\ WF_vars(Write)
    /\ \A d \in Downloads : /\ WF_vars(AttemptStep(d))
                            /\ WF_vars(PoolStep(d))
                            /\ WF_vars(Converted(d) \/ ConvertFails(d))

FairLifeSpec == LifeSpec /\ LifeFairness

-----------------------------------------------------------------------------
(* Properties.                                                             *)

WriteRequests == [op : {"enqueue", "tap", "save", "delete"}, id : Downloads,
                  row : SUBSET Flags, wakes : BOOLEAN]

(* The state has its types; an attempt is woken by the one write it awaits,*)
(* and by no other.                                                        *)
LifeTypeOK ==
    /\ record \in [Downloads -> Records]
    /\ writes \in Seq(WriteRequests)
    /\ pc \in [Downloads -> Points]
    /\ acquired \in [Downloads -> BOOLEAN]
    /\ task \in [Downloads -> Pool!PoolStates]
    /\ converting \in [Downloads -> Nat]
    /\ cancelled \subseteq Downloads /\ uncaught \subseteq Downloads
    /\ due \in [Downloads -> Nat]
    /\ requests \in 0..MaxRequests
    /\ \A d \in Downloads :
          Cardinality({i \in DOMAIN writes : writes[i].wakes /\ writes[i].id = d})
            = IF pc[d] \in DOMAIN Woken THEN 1 ELSE 0

(* No attempt leaks its slot or returns one twice: whatever way it ends,   *)
(* including a cancellation found right after the gate let it in, a        *)
(* download that is not scheduled holds nothing of the gate, and it holds  *)
(* its slot as long as it prepares, fetches, merges or closes.  A leaked   *)
(* slot would block its source for the rest of the session.                *)
SlotsFollowAttempts ==
    \A d \in Downloads :
        /\ pc[d] \in {"idle", "enqueuing", "enqueued"} => phase[d] = "out"
        /\ pc[d] = "gating" => phase[d] # "out" /\ ~acquired[d]
        /\ acquired[d] => phase[d] = "running"
        /\ pc[d] \in {"preparing", "submitting", "loading", "fetching", "streaming",
                      "merging", "storing", "closing"} => acquired[d]

(* What isDownloadCancelled relies on: past its enqueue, an attempt that   *)
(* finds no record was cancelled by the user after it began, and never by  *)
(* a cancellation of before, whose delete was still queued.                *)
MissingMeansCancelled ==
    \A d \in Downloads :
        record[d] = Absent /\ pc[d] \notin {"idle", "enqueuing"} => d \in cancelled

(* Every attempt ends, and its chapter can be scheduled again.             *)
AttemptsEnd == \A d \in Downloads : pc[d] # "idle" ~> pc[d] = "idle"

(* A download that the pool completed is recorded as completed and stays   *)
(* so, though nobody awaits that write, until the user cancels it or asks  *)
(* for it again, unless the user is told otherwise: what comes after it in *)
(* the same attempt throws while the write is still queued, which marks    *)
(* the download as failed, or the conversion throws.  (A request while the *)
(* pages are converted begins an attempt whose progress may overwrite the  *)
(* completion; that attempt then owes an outcome of its own.)              *)
CompletionRecorded ==
    \A d \in Downloads :
        task[d] = "done" ~>
            \/ []("isDownload" \in record[d])
            \/ d \in cancelled \/ pc[d] = "enqueuing"
            \/ pc[d] = "marking" \/ d \in uncaught

(* A download that the pool failed, or whose segments are being merged,    *)
(* does not keep a progress bar frozen at its last value: its record stops *)
(* being pending.                                                          *)
FailureRecorded ==
    \A d \in Downloads :
        task[d] = "failed" \/ pc[d] = "merging" ~> ~Pending(record[d])

(* "A late progress callback must not recreate it and make a cancelled     *)
(* item reappear": the write of a progress never puts a record where there *)
(* is none.                                                                *)
NoResurrection ==
    [][\A d \in Downloads :
          record[d] = Absent /\ Pending(record'[d]) =>
              Head(writes).op \in {"enqueue", "tap"}]_vars

(* "A missing record for a chapter we were about to download means         *)
(* cancelled": nothing is handed to the pool for such a chapter.           *)
FetchesOnlyRecorded ==
    [][\A d \in Downloads :
          task[d] = "idle" /\ task'[d] = "pending" => record[d] # Absent]_vars

=============================================================================
