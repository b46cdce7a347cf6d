---------------------------- MODULE DownloadGate ----------------------------
(***************************************************************************)
(* The app-wide gate of lib/modules/manga/download/providers/              *)
(* download_gate.dart.  Every download acquires it before it touches the   *)
(* network and releases it when its attempt ends.  The gate bounds how     *)
(* many downloads run, keeps one source serial, and serves the waiting     *)
(* list in the order the user saved.                                       *)
(*                                                                         *)
(* The code runs on one isolate, so a call of acquire or release, with the *)
(* dispatch it ends in, is one step.  A granted waiter is told so by a     *)
(* timer (the start delay with its jitter), so the timers of several       *)
(* granted waiters fire in any order: Launch is a step of its own.         *)
(***************************************************************************)
EXTENDS Integers, Sequences, FiniteSets, Functions

CONSTANTS
    Downloads,  \* chapter ids, which are also the download ids
    SourceOf,   \* SourceOf[d]: the key that chapterSourceKey gives d
    Limits,     \* values of the "concurrent downloads" setting
    Orders      \* manual queue orders the user may save

ASSUME DownloadsAssumption == IsFiniteSet(Downloads)
ASSUME LimitsAssumption == Limits \subseteq Int
ASSUME OrdersAssumption ==
    /\ << >> \in Orders
    /\ \A o \in Orders : /\ o \in Seq(Downloads)
                         /\ \A i, j \in DOMAIN o : o[i] = o[j] => i = j

Seqs == INSTANCE SequencesExt

VARIABLES
    active,         \* _active
    maxConcurrent,  \* _maxConcurrent
    activeSources,  \* _activeSources
    waiters,        \* _waiters, as the sequence of their download ids
    order,          \* DownloadQueueOrder.order, read at every dispatch
    phase           \* phase[d]: where d stands between its acquire and release

gateVars == <<active, maxConcurrent, activeSources, waiters, order, phase>>

Phases == {"out",        \* has not called acquire, or has released
           "waiting",    \* its waiter is in the list
           "launching",  \* its slot is reserved, the start delay runs
           "running"}    \* its acquire has returned

In(p) == {d \in Downloads : phase[d] = p}
Waiting == In("waiting")
Held == In("launching") \cup In("running")
SourcesOf(S) == {SourceOf[d] : d \in S}

-----------------------------------------------------------------------------
(* The dispatch.                                                           *)

PlaceIn(s, d) == CHOOSE i \in DOMAIN s : s[i] = d

(* Bug: the saved ranks and the list positions share one scale.            *)
QueueKey_SharedScale(ord, q, d) ==
    IF d \in Range(ord) THEN PlaceIn(ord, d) ELSE PlaceIn(q, d)

(* The sort key of _reorderWaiters: a saved id ranks by its place in the   *)
(* saved order, any other after all of those and by its place in the list. *)
QueueKey(ord, q, d) ==
    IF d \in Range(ord) THEN PlaceIn(ord, d) ELSE Len(ord) + PlaceIn(q, d)

(* Bug: the loop stops at the first waiter whose source is busy.           *)
Eligible_HeadOfLine(q, key, busy) ==
    {d \in Range(q) :
        /\ SourceOf[d] \notin busy
        /\ \A e \in Range(q) :
              key[e] < key[d] => SourceOf[e] \notin busy \cup {SourceOf[d]}}

(* Bug: the source of a slot granted in this very loop is not looked at.   *)
Eligible_NoSourceCheckInLoop(q, key, busy) ==
    {d \in Range(q) : SourceOf[d] \notin busy}

(* The waiters the loop of _dispatch reaches with their source idle: the   *)
(* first of each idle source.  A later one of the same source is skipped.  *)
Eligible(q, key, busy) ==
    {d \in Range(q) :
        /\ SourceOf[d] \notin busy
        /\ \A e \in Range(q) :
              key[e] < key[d] => SourceOf[e] # SourceOf[d]}

(* Bug: one grant too many (<= for <).                                     *)
Granted_OffByOne(elig, key, n, max) ==
    {d \in elig : n + Cardinality({e \in elig : key[e] < key[d]}) <= max}

(* The eligible waiters that find a free slot when their turn comes.       *)
Granted(elig, key, n, max) ==
    {d \in elig : n + Cardinality({e \in elig : key[e] < key[d]}) < max}

(* The sequences that list the members of S by increasing key.             *)
Sorted(S, key) ==
    {f \in [1..Cardinality(S) -> S] :
        \A i, j \in 1..Cardinality(S) : i < j => key[f[i]] < key[f[j]]}

(***************************************************************************)
(* _dispatch, on the list q, n reserved slots, the busy sources and the    *)
(* phases ph that the caller leaves behind.  The list is reordered only    *)
(* when a slot is free.                                                    *)
(***************************************************************************)
Dispatch(q, n, busy, max, ph) ==
    LET ord  == IF n < max THEN order ELSE << >>
        key  == [d \in Range(q) |-> QueueKey(ord, q, d)]
        G    == Granted(Eligible(q, key, busy), key, n, max)
    IN  /\ waiters' \in Sorted(Range(q) \ G, key)
        /\ active' = n + Cardinality(G)
        /\ activeSources' = busy \cup SourcesOf(G)
        /\ phase' = [d \in Downloads |-> IF d \in G THEN "launching" ELSE ph[d]]

(* Bug: nobody is woken.                                                   *)
Dispatch_Nobody(q, n, busy, max, ph) ==
    /\ waiters' = q
    /\ active' = n
    /\ activeSources' = busy
    /\ phase' = ph

-----------------------------------------------------------------------------
(* The operations.                                                         *)

Init ==
    /\ active = 0
    /\ maxConcurrent = 1
    /\ activeSources = {}
    /\ waiters = << >>
    /\ order \in Orders
    /\ phase = [d \in Downloads |-> "out"]

(* Bug: a setting below one is not clamped.                                *)
Acquire_NoClamp(d, l) ==
    /\ phase[d] = "out"
    /\ maxConcurrent' = l
    /\ Dispatch(Append(waiters, d), active, activeSources, maxConcurrent',
                [phase EXCEPT ![d] = "waiting"])
    /\ UNCHANGED order

(* acquire: the caller's setting becomes the gate's, then the list is      *)
(* served.  A chapter calls it at most once per attempt (scheduleDownload).*)
Acquire(d, l) ==
    /\ phase[d] = "out"
    /\ maxConcurrent' = IF l < 1 THEN 1 ELSE l
    /\ Dispatch(Append(waiters, d), active, activeSources, maxConcurrent',
                [phase EXCEPT ![d] = "waiting"])
    /\ UNCHANGED order

(* The start delay of a granted waiter ends and its completer completes.   *)
Launch(d) ==
    /\ phase[d] = "launching"
    /\ phase' = [phase EXCEPT ![d] = "running"]
    /\ UNCHANGED <<active, maxConcurrent, activeSources, waiters, order>>

(* Bug: the source is freed but its slot is not given back.                *)
Release_KeepsSlot(d) ==
    /\ phase[d] = "running"
    /\ Dispatch(waiters, active, activeSources \ {SourceOf[d]}, maxConcurrent,
                [phase EXCEPT ![d] = "out"])
    /\ UNCHANGED <<maxConcurrent, order>>

(* Bug: the freed slot is offered to nobody.                               *)
Release_NoDispatch(d) ==
    /\ phase[d] = "running"
    /\ Dispatch_Nobody(waiters, IF active > 0 THEN active - 1 ELSE active,
                       activeSources \ {SourceOf[d]}, maxConcurrent,
                       [phase EXCEPT ![d] = "out"])
    /\ UNCHANGED <<maxConcurrent, order>>

(* release, from the finally of the attempt that acquired.                 *)
Release(d) ==
    /\ phase[d] = "running"
    /\ Dispatch(waiters, IF active > 0 THEN active - 1 ELSE active,
                activeSources \ {SourceOf[d]}, maxConcurrent,
                [phase EXCEPT ![d] = "out"])
    /\ UNCHANGED <<maxConcurrent, order>>

(* DownloadQueueOrder.setOrder: the user drags the queue.  Nothing is      *)
(* dispatched; the next dispatch reads it.                                 *)
SetOrder(o) ==
    /\ order' = o
    /\ UNCHANGED <<active, maxConcurrent, activeSources, waiters, phase>>

Next ==
    \/ \E d \in Downloads, l \in Limits : Acquire(d, l)
    \/ \E d \in Downloads : Launch(d)
    \/ \E d \in Downloads : Release(d)
    \/ \E o \in Orders : SetOrder(o)

Spec == Init /\ [][Next]_gateVars

(* Timers fire, and an attempt that holds a slot ends: its release stands  *)
(* in a finally, and all it awaits is bounded by timeouts.                 *)
Fairness == \A d \in Downloads : WF_gateVars(Launch(d)) /\ WF_gateVars(Release(d))

FairSpec == Spec /\ Fairness

-----------------------------------------------------------------------------
(* Properties.                                                             *)

(* The state has its types, and the limit is at least one whatever the     *)
(* setting says (the clamp in acquire).                                    *)
TypeOK ==
    /\ active \in Nat
    /\ maxConcurrent \in Nat \ {0}
    /\ activeSources \subseteq SourcesOf(Downloads)
    /\ waiters \in Seq(Downloads)
    /\ order \in Orders
    /\ phase \in [Downloads -> Phases]

(* The waiting list holds exactly the downloads that wait, each once.      *)
ListIsWaiting ==
    /\ Range(waiters) = Waiting
    /\ \A i, j \in DOMAIN waiters : waiters[i] = waiters[j] => i = j

(* One source, one download: two downloads that hold slots never share a   *)
(* source, the set of busy sources is exactly theirs, and the counter is   *)
(* their number.  A counter or a source that outlives its holder would     *)
(* block that source, or a slot, for the rest of the session.              *)
SlotsMatchHolders ==
    /\ active = Cardinality(Held)
    /\ activeSources = SourcesOf(Held)
    /\ \A d, e \in Held : SourceOf[d] = SourceOf[e] => d = e

(* No lost wake-up: while a slot is free, whoever waits waits for a busy   *)
(* source.  A waiter left behind by a dispatch would wait until somebody   *)
(* else happens to call the gate.                                          *)
NoStrandedWaiter ==
    active < maxConcurrent =>
        \A i \in DOMAIN waiters : SourceOf[waiters[i]] \in activeSources

(* A download is only ever admitted into a free slot.  (The number of      *)
(* holders may exceed the limit: the setting can be lowered meanwhile.)    *)
AdmitsWithinLimit ==
    [][Held' \ Held # {} => Cardinality(Held') <= maxConcurrent']_gateVars

(* The saved order is honoured: when d is admitted while e keeps waiting,  *)
(* and e stands before d in the saved order (or both are unsaved and e     *)
(* came first), then e waits for a source that is busy.                    *)
RanksBefore(e, d) ==
    \/ e \in Range(order) /\ d \notin Range(order)
    \/ /\ {e, d} \subseteq Range(order)
       /\ PlaceIn(order, e) < PlaceIn(order, d)
    \/ /\ {e, d} \cap Range(order) = {}
       /\ {e, d} \subseteq Range(waiters)
       /\ PlaceIn(waiters, e) < PlaceIn(waiters, d)

NoQueueJumping ==
    [][\A d \in Held' \ Held, e \in Waiting \cap Waiting' :
          RanksBefore(e, d) => SourceOf[e] \in activeSources']_gateVars

(* Without a saved order nobody starves: whoever waits gets its turn.      *)
EveryWaiterServed ==
    <>[](order = << >>) =>
        \A d \in Downloads : phase[d] = "waiting" ~> phase[d] = "running"

(* The gate implements the slots it promises.                              *)
Slots == INSTANCE DownloadSlots
            WITH limit <- maxConcurrent, waiting <- Waiting, held <- Held

ImplementsSlots == Slots!SlotsSpec

-----------------------------------------------------------------------------
(* The dispatch as the code runs it, for the closed form above.            *)

(***************************************************************************)
(* The loop of _dispatch over the list s: `at` is its i, and every pass    *)
(* either leaves the waiter there and goes on, or grants it and takes it   *)
(* out of the list, so Len(s) passes are enough.                           *)
(***************************************************************************)
Pass(st, max) ==
    IF st.at > Len(st.list) \/ st.n >= max THEN st
    ELSE LET d == st.list[st.at] IN
         IF SourceOf[d] \in st.busy THEN [st EXCEPT !.at = @ + 1]
         ELSE [list |-> Seqs!RemoveAt(st.list, st.at), at |-> st.at, n |-> st.n + 1,
               busy |-> st.busy \cup {SourceOf[d]}, granted |-> st.granted \cup {d}]

Loop(s, n, busy, max) ==
    LET After[k \in 0 .. Len(s)] ==
            IF k = 0 THEN [list |-> s, at |-> 1, n |-> n, busy |-> busy, granted |-> {}]
            ELSE Pass(After[k - 1], max)
    IN After[Len(s)]

(* _reorderWaiters, which is called only when a slot is free.              *)
Reordered(q, n, max) ==
    IF n < max
    THEN CHOOSE s \in Sorted(Range(q), [d \in Range(q) |-> QueueKey(order, q, d)]) : TRUE
    ELSE q

LoopServes(q, n, busy, h) ==
    LET end == Loop(Reordered(q, n, maxConcurrent'), n, busy, maxConcurrent')
    IN  /\ waiters' = end.list /\ Held' = h \cup end.granted
        /\ active' = end.n /\ activeSources' = end.busy

(* Every acquire and every release leaves the list, the holders, the       *)
(* counter and the busy sources that the loop of the code computes: the    *)
(* closed form in which Dispatch is written is that loop.                  *)
DispatchIsTheLoop ==
    [][\A d \in Downloads :
          /\ phase[d] = "out" /\ phase'[d] # "out" =>
                LoopServes(Append(waiters, d), active, activeSources, Held)
          /\ phase[d] = "running" /\ phase'[d] = "out" =>
                LoopServes(waiters, active - 1, activeSources \ {SourceOf[d]},
                           Held \ {d})]_gateVars

=============================================================================
