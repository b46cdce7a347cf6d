# A TLA+ verification of the download core and the Rust host

The program is a Flutter application for reading and watching: a library of
chapters from extension sources, a downloader, a reader, synchronisation between
devices, a Rust library that runs WASM sources and sends their requests, and a Go server
that streams torrents. This directory models the parts of it whose correctness depends on
the order in which things happen, or on two pieces of hand-written code agreeing with
each other, checks them with TLC and proves what matters most with TLAPS.

Paths below are relative to `src/` unless they start with `lib/`, which is
`src/lib/`. "Step" means an action of a module.

## 1. Inventory

### Download gate — `lib/modules/manga/download/providers/download_gate.dart`
*State*: `_active`, `_maxConcurrent`, `_activeSources`, the list `_waiters`, and the
saved order it reads (`lib/services/download_manager/download_queue_order.dart`).
*Operations*: `acquire`, `release`, both ending in `_dispatch`, which reorders the
list and reserves slots; a granted waiter is woken by a timer.
*Callers*: `downloadChapter` acquires before the network and releases in a `finally`.
*Hard*: slots are reserved at the dispatch and used after a timer; the limit is
whatever setting the last caller read, so it can shrink below the number of
holders or be zero; one source is kept serial beside the limit, so a waiter at
the head may be blocked while one behind it is not.
*Correct when*: two downloads never run from one source, no slot leaks, no waiter
is left asleep beside a slot it could have, admission respects the limit and the
saved order.

### Download isolate pool — `lib/services/download_manager/download_isolate_pool.dart`
*State*: `_workers`, `_availableWorkers`, `_taskQueue`, `_runningTasks`, the
cancellation flag of each task, and per worker an isolate, its ports and the hook
`_cancelCurrent`.
*Operations*: `initialize`, `submitFileDownload` and `submitM3u8Download`,
`_processQueue`, `cancelTask`, the replies and exits of isolates.
*Callers*: the downloaders submit, `cancelDownloads` cancels.
*Hard*: a cancellation may find a task before, in or after the queue, on a worker,
or with its reply on the way; isolates crash and are replaced, and neither their
first start nor their replacement is certain.
*Correct when*: a submitted task gets exactly one outcome, a cancelled one never
runs on, and no task waits beside a free worker.

### Download lifecycle — `lib/modules/manga/download/providers/download_provider.dart`, `lib/repositories/download_repository.dart`, `lib/repositories/db_write_queue.dart`
*State*: the queue record of each chapter in the database, the serial queue of
writes, the set of scheduled chapters, and the locals of each attempt (where it
awaits, whether it acquired).
*Operations*: a tap, bare enqueue, the start of the queue, cancellation; the
attempt itself with its many early returns and error paths; the conversion of a
finished manga, which nobody awaits.
*Interacts with*: the gate (calls), the pool (submission and callbacks), the
database (reads now, writes later).
*Hard*: a read of the record is immediate and its write is queued; a cancellation
can land between any two awaits.
*Correct when*: every attempt ends and returns its slot once, what the pool
answered reaches the record and stays there, and a missing record means "cancelled".

### Source engine — `rust/src/api/aidoku_wasm.rs`, `rust/src/aidoku_wasm/` (interpreter, store, host_net, host_canvas, host_js, host_std, host_defaults), `lib/eval/aidoku_wasm/`
*State*: a thread for each source with its interpreter and the table of host objects
(`GlobalStore`), a channel of jobs, one reply channel for each call; on Dart's side the
JavaScript runtimes and webviews made for the source (`AidokuJsManager`).
*Operations*: opening a source (instantiate, run its start function), each kind of call,
disposal; the imports a guest makes while it runs, some of which block the thread until
Dart answers.
*Hard*: who frees which descriptor on which way out of a call, descriptors being counted
from 1 again when the table empties; a panic in the middle of anything; a job behind one
that panicked; disposal of Dart's half without waiting for the engine's; imports about
contexts that pass any descriptor on, while Dart makes a runtime for whatever it is given.
*Correct when*: no argument leaks and nothing is freed twice, a runtime that Dart made for a
context goes with the context, every call is answered once.

### HTML imports and selectors — `rust/src/aidoku_wasm/host_html.rs`, `selector.rs`
*State*: parsed documents, each an arena of nodes shared by all its descriptors.
*Operations*: moving about, selecting, reading, editing; a selector engine of its own
(parser and matcher).
*Hard*: descriptors of nodes that an edit by way of another descriptor has detached;
selectors by their many forms, nested ones, their combinators, the order and uniqueness
of what is found.
*Correct when*: documents stay trees, a descriptor never names another node than before,
and a selector finds what it means.

### Models and their encoding — `rust/src/aidoku_wasm/postcard.rs`, `models.rs`
*Operations*: a reader and a writer for each of a dozen nested types, both written by hand.
*Hard*: two lists of fields that must agree; the end of the buffer anywhere; numbers at
the edge of their width. *Correct when*: what a source sent arrives, handing it back changes
nothing, a cut is noticed.

### Rust HTTP client — `rust/src/api/rhttp/`, `lib/services/http/rhttp/`
*State*: a client with its cancellation, a task for each request, callbacks that run on
the isolate.
*Operations*: building a client from settings, a request with a streamed body, name
lookups answered by Dart, cancelling one request, closing a client.
*Hard*: a cancellation may win at any point of the task, also between a callback and
its answer; messages of a task that is already gone; a body that breaks off.
*Correct when*: a request is answered, and a body that ends is whole.

### M3U8 segments — `lib/services/download_manager/m3u8/m3u8_downloader.dart`
Concurrent writers of `.part` files renamed when complete, a retry that reuses
what is on disk, a merge. *Hard*: a kill between any two of these. *Correct when*
only complete segments are ever reused or merged. Not modelled yet.

### Worker pool of the extension host — `lib/services/isolate_service.dart`
Four workers, requests with a 40 second timeout, hand-over of a released worker to
the longest waiting request. *Hard*: two first starts, a failed start, a timeout
racing the answer. Not modelled yet.

### Library synchronisation — `lib/services/sync_server.dart`, `lib/services/sync/`
Collection of what changed since the last sync, upload, paging, application by
newest wins, an outbox of deletions. *Hard*: edits during a sync, several devices,
clocks. *Correct when* an edit or a deletion is never forgotten. Not modelled yet.

### Reader chapter window — `lib/modules/manga/reader/managers/chapter_preload_manager.dart`
A sequential structure (append, prepend, evict) with page indices that must stay
positions. Not modelled yet.

### Library updater — `lib/services/library_updater.dart`
The single-flight flag of an update run. Not modelled yet.

### Torrent server — `go/server.go`
A worker pool with a bounded queue, removal against re-adding, read-ahead. *Hard*: a
torrent added again while its removal waits. Not modelled yet.

### Left out
Extensions in Dart and JavaScript (interpreters from other packages), local archives
and cryptography (wrappers around libraries), the crash handler, trackers (wrappers of
web services), widgets, translations, generated code and platform runners.

`PROJECT.json` lists each component with its status, and under "hazards" every
place of this code we found that a test would hardly reach.

## 2. Modules

    DownloadSlots ......... what the gate promises
        ^ implemented by
    DownloadGate .......... the gate as coded
        |                   MCDownloadGate (TLC); DownloadGate_proofs, DownloadSlots_proofs (TLAPS)
        ^ extended by
    DownloadLifecycle ..... attempts, records, write queue
        |                   MCDownloadLifecycle (TLC); DownloadLifecycle_proofs (TLAPS)
        | instantiates
    TaskPool .............. what the isolate pool promises
        ^ implemented by
    DownloadIsolatePool ... the isolate pool as coded
                            DownloadIsolatePool_proofs (TLAPS)

    DescriptorStore ....... the table of host objects
        ^ extended by                    ^ extended by
    WasmHost (imports)               HtmlTree <- CssSelector
        ^ extended by                    ^ extended by    ^ compared with
    SourceEngine                     HtmlHost         CssMeaning
        | implements TaskPool            MCHtmlHost (TLC)
        MCSourceEngine (TLC)             HtmlHost_proofs (TLAPS)
        SourceEngine_proofs (TLAPS)

    Postcard <- SourceModels             MCSourceModels (TLC), SourceModels_proofs (TLAPS)
    HttpRequests                         MCHttpRequests (TLC), HttpRequests_proofs (TLAPS)

### DownloadGate
Each variable is a field of the class, except `phase`, which says for each download
where it stands between its `acquire` and its `release` (this lives in the awaiting
code). The code is single-threaded, so `acquire` and `release` with the dispatch they
end in are one step each (`Acquire`, `Release`); the end of a start delay is
`Launch`; the user's drag of the queue is `SetOrder`. `Dispatch` gives the loop of
`_dispatch` in closed form: a waiter is *eligible* if its source is idle and nobody of
that source stands before it, and is *granted* if fewer eligible waiters stand before
it than there are free slots. That this is what the loop computes is the property
`DispatchIsTheLoop`: at every acquire and release, the list, the holders, the counter and the
sources afterwards are those of the loop written as the code runs it (`Reordered`, then one
`Pass` after the other). The length of the
start delay is left out; delays end in any order.

### DownloadSlots
Three variables: the limit, who waits, who holds. A request or a return is followed
in the same step by a maximal admissible set of grants: of different idle sources,
within the limit. DownloadGate refines it with `limit <- maxConcurrent`,
`waiting <- Waiting`, `held <- Held`.

### DownloadIsolatePool
One step for each handler of the main isolate (`Submit`, `Spawned`, `SpawnFails`,
`Resume`, `Reject`, `OnReply`, `OnExit`, `Respawned`, `RespawnFails`, `Deliver`,
`Cancel`), and two of the worker isolates (`Work`, `Crash`). A port
delivers in order, and messages of one isolate arrive in the order sent, so
an exit notice never overtakes a reply; a kill drops what is in flight on the closed
ports. A download inside a worker is one step with two outcomes.
Simplifications: `executeTask` awaits a future that is already complete before it
arms `_cancelCurrent`; the model arms it at once. `dispose` and `configure`, which
run at the edges of the application's life and in tests, are left out.

### TaskPool
What the pool promises: a submission is pending until it is done or failed, that
outcome never changes, and it is reported once. `PoolState(t)` of DownloadIsolatePool is
the refinement mapping; a submission cancelled during the cold start counts as failed
from the cancellation on, for nothing can change its outcome any more.

### DownloadLifecycle
Extends DownloadGate (the gate's variables are shared, its actions are called from
the attempt's) and drives TaskPool. A chapter has a record, which is the set of its
true flags, or none. `pc[d]` says what the attempt of `d` awaits:

| `pc` | the attempt awaits |
|---|---|
| `enqueuing`, `enqueued` | the write of its enqueue; what follows it |
| `gating` | `acquire` |
| `preparing` | pages or videos from the source (`Refused`: no Wi-Fi) |
| `submitting` | file lookups, and what is on disk |
| `loading` | the playlist of a stream and its key |
| `fetching`, `streaming` | the pool, for files or for the segments of a stream |
| `merging` | the merge of a stream's segments |
| `storing` | the write of a completion found on disk |
| `closing` | subtitles, cover, library scan |
| `marking`, `marked` | the write of a failure; what follows it |

A write is queued by one step and executed by a later one, `Write`: the queue is shared
with the other repositories, whose asynchronous transactions stand between ours, so any
amount of other things may happen before it executes. A tap awaits an enqueue of its own and
only then starts the attempt, or drops it if the widget is gone or the chapter was scheduled
meanwhile; `due[d]` counts such starts, and those a walk over the queue owes. Whether an episode
is a video or a stream its source says at each attempt. `converting` counts conversions of
finished mangas, which outlive their attempt; one that throws before its `try` (the export of the
cover is awaited outside of it, in a future nobody awaits) puts its download into `uncaught`, for
the error goes to the handler of the zone. `LifeInit` starts from any table of
records an earlier session may have left, which is what a restart looks like: nothing
but the records survives.
Over-approximations: a progress message may arrive whenever a task is being fetched
(the code throttles by time), the pool may settle a task at any time, a tap in the
user interface is possible whenever its guard allows it. The disposal of an attempt's provider,
as a second start causes it, is to the attempt one of the failures it may meet
anywhere behind the gate, and a start that is dropped.

### DescriptorStore, WasmHost
The table is a record of a function and the next number; `Remove` counts from 1 again
when nothing is left, as the code does. WasmHost has one operator for each import, from
the store and the arguments to the store and the number the guest gets. Guest
memory is reduced to whether a slice can be read; a negative offset reads as nothing, and
a number read from nothing panics.

### SourceEngine
One thread, modelled by `thread`, takes jobs from `queue`. A call of Dart's is `Request`,
`SendJob`, then the job's way through `Enter`, `Leave` and `ReadResult`, or `RunOnHost`, then
`Settle`. `Leave` destroys the arguments; a result that is a pointer is then freed by the guest
itself (`free_result`, if the module exports it), which is the guest running again with its
imports and its traps (`freeing`), and read (`reading`). While `thread` is in the guest the
imports are steps; those that wait for Dart set `waiting`, and `DartAnswer` goes on from there.
The guest is any program that names descriptors it holds, those of its arguments, or a wrong one,
-1, and destroys only what it holds. The imports about contexts look at no kind: whatever
descriptor the guest passes goes to Dart, and Dart makes a runtime or a webview under it if there
is none (not for the imports that only look one up). `stray` holds the runtimes that were made for
no context; a guest that frees its arguments is outside the contract of the SDK and outside the
model. A panic (`Unwind`) ends the thread: the receiver is dropped, which fails the queued calls
and the running one. Settings are left open, for other sources write them too. `managing` is false
once Dart has disposed of the contexts; this does not wait for the engine, so a job still queued
may make a runtime again afterwards, which is a stray one too. `RuntimesAreOfContexts` says of all
the others that they go with their context, or with the disposal. When the thread ends, its
runtimes wait for the disposal.

### HtmlTree, HtmlHost, CssSelector, CssMeaning
A document is a sequence of nodes with parent and children; a node keeps its number. Edits are
functions from tree to tree, imports are steps that give descriptors or edit. `append_clone` calls
itself for the children of what it copied; `Graft` goes through the nodes of the fragment instead
and puts each under the copy of its parent, which gives the same tree. Numbers are the model's:
the guest never sees the arena's, so a parsed document may be taken to number a node after its
parent, and a fragment its siblings in their order (`ParserAssumption`). The imports take the
selector engine as a parameter, the nodes a query leads to from a root (`Reached`); the run gives
it CssSelector's (`QueryReaches`). CssSelector is the parser, on tokens, and the matcher as coded;
CssMeaning says without search what a query means, by position in the tree. The parser is compared
with it by writing queries down (`Render`) and parsing them. Three facts about the libraries are
modelled as external: a parsed fragment is wrapped in one `html` element; attributes from the
parser have no namespace while `set_attr` writes into XHTML's, so `attr` does not read what
`set_attr` wrote; ids and classes are read once. CssMeaning is CSS in jsoup's style, as
`selector.rs:1` has it, not the code: where the matcher takes the next *node* for `a + b`,
CssMeaning takes the next *element* (finding 5). Two peculiarities of the matcher are in the model
and in no query of the run: `:not` and `:is` look only at arguments of a single compound, and the
combinator before the first compound counts for nothing.

### Postcard, SourceModels
A type is a record: the values that may be sent, what is written for one, what it means to
the reader, and what the reader makes of a buffer from an offset on. Postcard has the types of
postcard.rs and the ways models.rs makes types of types; `S & T` is T behind S. A model of
models.rs is written down twice, as `from_postcard` reads it and as `to_postcard` writes
it, each translated from its own function. A payload is sent, perhaps cut or changed, decoded, and
perhaps handed back and decoded again. A loop of the code is a recursive function: `ReadVar`
passes through the groups of a number, `ReadItems` through a list. The reader's end-of-buffer
test adds as the machine does (`Need` wraps), which is why buffers are taken to be at most half
as long as a number can count, as every Rust allocation is (`Short`).

### HttpRequests
`asked[r]` is what the caller awaits, `task[r]` where the Rust task stands, `inbox[r]` its
messages on the way, in the order posted. `Cancelled(r)` is the other branch of the select,
possible wherever the task stands. A message whose task is gone is still delivered, and
answers nobody. Between `Close` and `Disposed` a new request starts with a cancelled token.

## 3. Runs

| run | what | bounds | result |
|---|---|---|---|
| `gate` | DownloadGate | 4 downloads, 3 sources, settings {0,2,3}, orders {none, (d4,d2), (d3)} | holds, 1,305 states |
| `pool` | DownloadIsolatePool | 3 tasks, 2 workers | holds, 39,782 states |
| `pool_startup` | the same | 2 tasks, 1 worker | violated (finding 1) |
| `lifecycle` | DownloadLifecycle | chapter and episode of two sources, settings {1,2}; 2 requests, 2 queued user writes | holds, 110,895 states |
| `resurrection` | the same | setting {1}, 1 request | violated (finding 2) |
| `cancel_window` | the same | setting {1}, 1 request | violated (finding 3) |
| `engine` | SourceEngine | a caller of 2 methods, one that disposes; 3 modules, 3 imports about contexts, 2 imports a call, 3 descriptors, 1 kept, 1 stray runtime | holds, 241,747 states |
| `html` | HtmlHost, CssMeaning | 2 pages, 1 fragment, 3 descriptors, 1 edit, 21 queries | holds, 3,427 states |
| `html_next` | the same | the same | violated (finding 5) |
| `codec` | SourceModels | 30 samples a type, every cut, every byte changed in five ways | holds, 58,538 states |
| `http` | HttpRequests | 2 requests, 10 settings, bodies of up to 2 chunks | holds, 412,540 states |
| `http_cancel` | the same | the same | violated (finding 4) |

**gate.** Two of the four downloads share a source, so a source has its own queue;
setting 0 needs the clamp, 2 can be reached with three holders, 3 lets every
source run; the saved orders reverse arrivals and leave some unranked.
Checked: the slots match the phases (`SlotsMatchHolders`; that the list matches
them, `ListIsWaiting`, is proved), no waiter is left behind (`NoStrandedWaiter`), admission is
within the limit and in the order saved (`AdmitsWithinLimit`, `NoQueueJumping`),
everybody is served once no saved order is in force (`EveryWaiterServed`; with one, an
unsaved download can be overtaken for ever, which is what the user asked for), and the
refinement `ImplementsSlots`, and that the closed form of the dispatch is the loop of the
code (`DispatchIsTheLoop`).

**pool.** Three tasks on two workers: a task queues while both are busy, and a free
index can be taken by another task than the one that waited first for it. Checked: each
task in exactly one place (`EveryTaskInOnePlace`), the registers of who is busy agree
(`RegistersAgree`), a cancelled task runs nowhere (`CancelStops`), nobody waits beside a
free worker (`NoIdleStall`), the refinement, and that all submissions settle *as long
as no worker is lost for good* (`SettlesWhileNoWorkerLost`). A worker is lost
by a replacement that does not start, or by dying while idle: its exit notice is then
ignored, and its index stays available. The condition is not vacuous: cold starts that
fail, crashes of busy workers, and kills are all within it.

**lifecycle.** A chapter, which is converted at the end, and an episode, which may turn out a
video or a stream, of two sources: with setting 1 one waits at the gate for the other's
attempt to end, with setting 2 they run side by side; that one source is serial beside the limit
is the gate's run. Two requests in all are enough for: a request while the other
runs; a second tap while the enqueue of the first is awaited; a request of a chapter again after
its cancellation, while the delete is still queued; one after its failure; one while its
conversion is under way; a start from the queue for each. `MaxWrites = 2` bounds only what the
user and progress add; the attempt's own writes always find room, so a queue can hold more.
A longer queue only delays writes further, and a write may already be delayed
arbitrarily. Checked: slots and attempts (`SlotsFollowAttempts`), what a missing record means
(`MissingMeansCancelled`), that attempts end (`AttemptsEnd`), and that what the pool answers
reaches the record (`CompletionRecorded`, `FailureRecorded`). A completion has to *stay* on the
record. `CompletionRecorded` names what may come in between: a cancellation, a new request, a
failure of what follows in the same attempt while the write of the completion is queued (the
library scan, say: the user is told that the download failed), or a conversion that throws.
Deadlock is not checked here (`CHECK_DEADLOCK FALSE`): once the
requests are used up and all attempts have ended, nothing is left to do.

**engine.** One caller enters the guest, with a method whose result is a pointer to a payload and
one that names an optional argument and a request of the store; the other disposes of the source
meanwhile, and its job queues behind or before the first's. The modules: one that exports all, one
without `free_result`, one without anything. Of the imports about contexts three stand for their
kinds: one that makes a runtime, one that makes a webview, and one that only looks a webview up.
Two imports are enough to make a context and use it, or to make a request and send it; a context
kept by the guest can be used, and destroyed, in the next call; three descriptors hold two
arguments and one of the guest's, and numbering starts again in between. One runtime made for no
context (`MaxStray`) is enough for it to stand in the way of a later context of the same number.
Checked: ownership (`StoreOwned`), Dart's contexts (`RuntimesAreOfContexts`), that calls are tasks
in the sense of TaskPool (`CallsAreTasks`), and that each is answered (`EveryCallAnswered`). The
source may end for good, so deadlock is not checked.

**html, html_next.** One page has siblings parted by text and an empty element, the other nesting,
repeated tags next to each other and a comment; the queries use every combinator, operator of
attributes and pseudo-class that is modelled. `SelectMeansQuery` is checked in every tree that
arises, from every node held, including nodes of a detached subtree: nothing is found that is not
meant, and all that is meant is found, except by the queries with a `+` in trees where text or a
comment parts two elements. That exception is the run `html_next`: there `* + p` does not find a
paragraph behind a blank. Further, `EditsPlaceFragment` is checked for every edit of every node
held; `NodesStayPut` for every step. One edit is enough for each kind of edit to meet each kind of
descriptor; two in a row only repeat it on a tree that `HtmlTypeOK` shows to be as good as the
first.

**codec.** Bytes are small (three bits and a flag, eight bits a number, five an i32) so that
numbers of several bytes, and numbers at the edges of the widths, occur in short payloads, the
longest of which are still buffers the model allows. Samples vary every field. Checked: a payload
in the layout the reader expects arrives as sent (`DecodesWhatWasSent`), handing it back and
reading it again changes nothing, which is where reader and writer have to agree field by field
(`EchoIsStable`, for mangas, chapters and listings, which calls hand back, and filters), one that
was cut does not decode (`CutIsNoticed`).

**http, http_cancel.** One request has a cancel token, the other has none, so that they
start differently; the settings cover each reason to refuse a client and each way to look
names up, with and without a timeout. Two chunks tell a body that breaks off in the middle from
one that is empty or whole.

**Fairness.** In the gate: a started timer fires, and whoever holds a slot releases it,
which is an assumption there and is established by `AttemptsEnd` in the
composition. In the pool: ports deliver, handshakes succeed or time
out, and a worker answers (its requests have timeouts and three attempts); nothing is
obliged to crash, to be submitted or to be cancelled. In the lifecycle: queued writes execute,
futures complete because everything awaited from the network has a timeout, and the
pool settles what it was given, which DownloadIsolatePool guarantees only while workers
are not lost. In the engine: the thread is scheduled, a guest returns after finitely many
imports, Dart's handlers answer (they catch every error; that a server ends a body it
has started is an assumption, as `service.dart:54` waits without a limit). In the HTTP
client: tasks and isolates are scheduled, and the network answers *when the client
has a timeout*, which reqwest applies to the body as well. All fairness is weak.

## 4. What is proved

The theorems about downloads hold for any finite set of downloads, any assignment of sources, any
choice of mangas among them, any records left by an earlier session, any integer settings, any
saved orders without duplicates, and any bounds
(`DownloadsAssumption`, `LimitsAssumption`, `OrdersAssumption`, `KindAssumption`,
`RecordsAssumption`, `BoundsAssumption`; TLC evaluates them in the runs).

**DownloadGate_proofs.** `TypeCorrect`, `ListCorrect` and `SlotsCorrect` come from the
inductive invariant `GateInv`, which is the conjunction of the three properties
(`GateInvariant`). None is inductive alone: a dispatch grants members of the list, so
the slots are right only if the list holds waiting downloads only; the list keeps its
property only if a granted download was in it once. The argument: a dispatch whose
caller hands over a consistent list and consistent slots (`DispatchPre`) establishes
`GateInv` (`DispatchKeepsInvariant`), because granted downloads are waiting ones of
pairwise different idle sources (`GrantsDiffer`), sort keys differ (`KeysDiffer`), and an
arrangement by different keys is a permutation (`SortedIsArrangement`). `acquire` and
`release` owe exactly `DispatchPre` (`AcquireOwes`, `ReleaseOwes`). `KeysDiffer` also
shows that the sort never meets a tie, so that the library's sort need not be stable.

**DownloadSlots_proofs.** `GateImplementsSlots`: the gate refines DownloadSlots. The core
is `DispatchAdmits`: the last one granted found a free slot after all the others
(`GrantsWithinLimit`), an eligible waiter is passed over only when the slots are used up
(`GrantsUseSlots`, by the first one passed over), and a waiter of an idle source
has somebody of its source who is eligible (`IdleSourceIsEligible`). `WaitersServed`
(no stranded waiter) and `AdmissionWithinLimit` follow from it. `OrderHonoured` is the order
the abstract slots leave open: the loop runs along the list sorted by key, so a waiter
it passed over had a busy source or no slot when its turn came, and slots and idle sources
only become fewer during a dispatch (`DispatchKeepsOrder`).

`DispatchLoops` shows that the closed form, on which all of the above rests, is the loop of
`_dispatch`. After every pass (`Served`), the granted were eligible and stood before all that are
still to come, those passed over were not eligible, and together with the list they are
everybody; each pass grants one or goes one place on, so as many passes as there are waiters end
the loop (`PassServes`). The step that matters is `TurnOf`: the waiter at whose place the loop
stands finds its source idle exactly if it is eligible, since the first of its source cannot have
been passed over. What remains at the end is in the order of the keys, and there is only one such
arrangement (`OneArrangement`).

**DownloadLifecycle_proofs.** `LifecycleUsesGate`: whatever the lifecycle does to the gate
is a step of the gate's specification, so the gate's theorems hold in the composition
(`LifecycleSlots`). That leaves open whether an attempt that ends returns what it holds;
this is `AttemptsKeepSlots`. `SlotsFollowAttempts` is not inductive: where an attempt goes on
when a write wakes it depends on the queue. `LifeInv` adds that a queued write that
wakes an attempt finds it awaiting a write, and is its only one (`WakesMatch`), and
ties the place of each attempt to its flag and its phase (`Placed`). `LifecycleOrder` carries
the refinement of the slots and the saved order over to the composition. Towards the pool,
`LifecycleUsesPool` shows that the attempts keep its protocol, and `AwaitsAreUnderWay`
the invariant it needs: an attempt that awaits a write has it queued, and the pool has a task
exactly for the attempts that fetch. `LifeTyped` adds to the types that no attempt is
woken by two writes.

In the last part of the module, `MissingIsCancelled`: a missing record means that this very attempt
was cancelled. The strengthening `RecordsInv` speaks of the write queue: while an attempt
that was not cancelled awaits its enqueue, that enqueue is queued with no delete behind
it (`Entering`); once it has executed, the record is there and no delete is queued
(`Entered`). It is the order of the queue that the proof of the write step uses.

**DownloadIsolatePool_proofs.** For any tasks and any number of workers (`PoolSizeAssumption`,
`NoTaskAssumption`): `TypeCorrect`, `RegistersCorrect`, `CancelCorrect`, `NoStall`,
`OnePlaceCorrect`, and `RefinesTaskPool`, the refinement of TaskPool. They come from `PoolInv`
(`AlwaysPoolInv`), which states the one place of a submission without counting (`OnePlace`), and
adds that a cancelled one is nowhere (`Marks`), that nothing is queued or run before the pool is up
(`Starting`), and that a worker that has replied has a task (`Busy`). Its heart is
`QueueHandsOut`, what a run of `_processQueue` may do to queue, workers and registers; the steps
that end in one owe `AfterQueue` consistent registers before it. `TakenOut` says that `cancelTask`
leaves the rest of the queue as it was, each task once. For the refinement, a step shows to
the submitter of one task (`OneSeen`), except a start that fails, which fails all that
wait for it in one step of TaskPool.

**SourceEngine_proofs.** For any calls, methods, modules, bounds and guest (`EngineAssumption`):
`EngineTypeCorrect`, `StoreIsOwned`, `RuntimesHaveContexts`, and `EngineImplementsPool`, the
refinement of TaskPool. They come from `EngineInvariant`, whose parts need each other. `OwnInv`:
the arguments are at most three consecutive descriptors, none a context, so that destroying them
in order (`DropArgs`) frees them all and nothing else, even when the last one makes the numbering
start again. `WaitInv`: a context about to be destroyed is still the guest's while Dart is asked,
and one about to be announced to Dart is in the store. `DartInv`: after the disposal nothing is
managed. That a runtime has a context is kept step by step because a context keeps its kind while
it lives (`MakeKeeps`), and only a destroy, which Dart answers first, ends it; which descriptor a
guest passes plays no part, for what is made for a wrong one is stray. `CallInv`: the queue holds
pending calls, each once, so that the end of the thread fails exactly those, which is one step of
TaskPool.

**HttpRequests_proofs.** `BodyWhole`: for any number of requests, any settings and bodies of
any length, a body that ends without an error is whole unless somebody cancelled. The
property counts what was received; what makes it inductive is what is still on the way. While
a body is read, received and in the inbox add up to sent (`Counts`); once the task is over,
the inbox is chunks and a close, or chunks, an error and a close (`Closes`, `Breaks`), and
the first of these only if all was sent or a cancellation won. For the body to start in that
shape, the inbox before it has to be known as well, place by place (`Shape`), also for a response
that arrives after its task was cancelled (`Agrees`). The same places give `AnswersOnTheirWay`: a
task that stopped to wait for Dart has its callback in the inbox, alone (`CallbacksArrive`), and a
call that waits while its task stands still and the inbox is empty waits for a response that a
cancellation dropped (`OnlyCancelledStrand`). This is the safety half of `AnsweredUnlessCancelled`,
and says that the finding about cancelled calls is the only way to lose an answer.

**HtmlHost_proofs.** `HtmlTyped`, `EditsMoveNothing` and `FragmentsPlaced`: for any pages and
fragments as in `ParserAssumption`, any queries, any selector engine and any number of imports.
Edits are made of three, detaching a node, emptying one and putting a new one, but for attributes,
which touch no links. Each keeps the tree sound (`DetachSound`, `ChildrenSound`, `PutSound`),
which needs the two halves of `Linked` together: that no node is listed twice is why removing one
entry removes the node. To stay in place twice is to stay in place (`StaysTwice`), where a node
that an edit has detached stays detached; so a fragment, which is one `Put` after the other, moves
nothing (`CopiesSound`, by induction on how many were copied, with the copy of a node's parent
always there before it). The invariant `HtmlInv` says of each descriptor that its nodes are nodes
of its document. What an import gives is a parent, part of a list of children, or part of what is
below a node; that the last are nodes of the same tree (`TreesWithin`) goes by induction from the
last node down, because children are numbered after their parent.

That an edit places the whole fragment (`FragmentsPlaced`) compares subtrees, of any depth, and is
shown from the nodes themselves. In a document of N nodes the copy of the fragment's node x is
node N - 1 + x, and while x nodes are copied its children are the copies of those that are
numbered up to x (`WholeUpTo`): siblings are numbered in their order, so the next node copied is
always the next child of its parent (`NextKid`) and goes to the end of its list. At the end every
copy has the copies of all children in order, the node edited has them before or after its
own, and no other list has changed. Two trees whose nodes correspond in this way have the same shape
(`ShapesAgree`), again from the last node down. The mutant in which `Graft` drops what is below the
first level breaks the first of these.

**SourceModels_proofs.** `SentIsDecoded`, `CutIsAnError` and `EchoIsTheSame`: for any values of
any model, any buffer, and any widths as in `WidthAssumption`, which the code's (128, 10, 2^64,
2^32, 4) satisfy, and tags that are text (`TagAssumption`). The proofs go along the types. `Reads`
says that a type reads given bytes, wherever they stand in a buffer, as a given value, and as an
error where the buffer ends before they do. From it, `Sound`: a type reads what it writes as it
means; and `Echo`: what it reads, of whatever bytes, its writer writes and it reads again. That
both speak of a *place in a buffer* is what makes them compose: what stands behind a value is read
by the next type (`Sequel`, `Onward`). Each way of making types keeps both: fields, options, lists
(by induction on how many items were read), unions. For a number, `ReadVarReads` follows the loop
of the reader against the loop of the writer: what was read and what is left to read, at the place
of its group, always add up to the number, so the sum that wraps never does, and the number of
groups is enough (`ReadsOn`, by induction on what is left). What is read with a default is written
as present (`FilledEcho`), and a filter ends up with an id and a type that is known, which is why
it may be handed back though what was read had neither (`FilterEcho`). With every model sound, the
invariant of the payload is only what the bytes are: what was written, a proper beginning of it,
or anything (`UnderWay`).

Only model-checked: liveness under fairness, which is out of the prover's reach, and what selectors
mean (`SelectMeansQuery`), whose definitions are recursive operators, which the prover cannot use.

## 5. Findings

1. **A worker whose replacement does not start is gone, and the queue with the last
   one.** `_processQueue` awaits `_PoolWorker.create` in a `then` whose error nobody
   handles (download_isolate_pool.dart:238). With one worker: cancel the running task, the
   replacement fails, and the next task stays queued, its downloader waiting and its
   source blocked in the gate. The test "worker startup errors surface instead of
   hanging forever" (test/services/download_manager/download_isolate_pool_test.dart:110)
   covers the cold start only. Run `pool_startup`. By default the pool has six
   workers, so it takes six such failures to stop it altogether.
2. **A late progress message can put a cancelled record back.** `setProgress` looks at
   the record when the message arrives, its write executes later; if the delete of
   the cancellation was queued but not executed at the look, the write comes after it.
   The comment at download_provider.dart:240-241 says this must not happen. Run
   `resurrection`.
3. **A cancellation just before the submission is lost.** Between the last
   look at the record (download_provider.dart:372) and the submission (:516) the attempt
   awaits; a cancellation there finds no task and deletes the record, and the task is
   submitted all the same. download_gate.dart:51-54 says a cancelled download must
   not go on. Run `cancel_window`.

4. **A request cancelled before its response is never answered.** The branch of the select
   that cancels returns `Err` without calling `on_error` (http.rs:143); the Dart
   side does not await that call but only its callbacks, so its caller waits for ever.
   `exception.dart:17` documents the exception it should get. Run `http_cancel`.
   `AnsweredUnlessCancelled` shows that this is the only way, given a timeout.
5. **`a + b` takes the next node, not the next element.** `next_sibling` of selector.rs:660 is the
   node that follows, so a text or a comment between two elements, a line break in most
   pages, parts them and `b` is not found. In CSS and in jsoup it is the next element;
   `selector.rs:1` calls the engine "jsoup-style CSS", and `:702` speaks of "jsoup-like
   determinism". Run `html_next`.

Not findings, but worth knowing: the pool of clients is shared (m_client.dart:55), so an
extension that closes its client (lib/eval/dart/bridge/http.dart:75) closes it for everyone;
a cancellation during a body ends the stream without an error, so that what was read so far looks
whole (`BodyIsWhole` excludes it); the text of a document whose `html` element was removed
panics and takes the source's thread with it (`TextPanics`); a guest that asks to load a webview
under the descriptor of a JavaScript context, or evaluates a script under a descriptor that is
none, gets a runtime that no destroy removes (host_std.rs sends one only for a context in the store,
of its own kind), and a later context of the same number and kind finds it (`stray`); an error
in the export of a cover leaves a finished manga recorded as pending (`uncaught`).

## 6. Not modelled, and why

* Novels: they bypass the pool; their one hazard is listed.
* Files on disk: the next module (segments) is about them; here a download is one step.
* Writes that fail. The disposal of providers by the framework, but for what it does to an attempt.
* The throttle of progress by time, the length of delays, the content of pages.
* `DownloadQueueOrder.sorted`, which orders a walk over the queue: any order is explored.
* In the source engine: imports that only read, print or draw (most of canvas, `host_env.rs`,
  dates and numbers of `host_std.rs`), the content of settings, guests that free what is not theirs.
* In the html imports: escaping, editing of classes, absolute addresses; pseudo-classes with a
  regular expression, folding of case; values of attributes longer than a word.
* In the HTTP client: requests read as text or bytes, `throw_on_status_code` (the compatible
  client turns it off), progress, the choice of TLS back end, interceptors; resolvers that throw.
* `crash.rs`, `rar.rs`, `epub.rs`, `crypto.rs`: one call each, no state between calls.
* `frb_generated.rs` and the mirrors of models in `api/aidoku_wasm.rs`: generated, or copies
  field by field.

## 7. Plan

Next, in this order:

1. `M3u8Segments`: writers, `.part` and rename, kill at any point, reuse at
   a retry, merge; invariant: what is merged was complete. With it the torn manga page.
2. `LibrarySync`: two devices and a server; abstract specification: each edit and each
   deletion reaches the server.
3. `IsolateService`: start, timeout, hand-over, stop; abstract specification shared
   with TaskPool where it fits.
4. `TorrentServer`: removal against re-adding, the read-ahead.
5. `ChapterWindow`: page indices are positions, for bounded windows; the library
   updater's single flight if it earns a run.
6. In HttpRequests, the requests read as text or bytes; in SourceEngine, guests that free
   their arguments, if the SDK ever lets them.

Proofs to come: what selectors mean, once the matcher is written without recursive operators
as the encoding now is; the invariants of the modules above as they come.
