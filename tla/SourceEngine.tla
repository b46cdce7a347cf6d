---------------------------- MODULE SourceEngine ----------------------------
(***************************************************************************)
(* One WASM source (AidokuSource): calls from Dart become jobs on a        *)
(* channel, one thread takes them in order and runs the guest, the guest   *)
(* calls back into the host, and some of those imports wait for Dart.      *)
(* The thread owns the interpreter and its store; it ends when the source  *)
(* cannot be opened, when a job panics, or when the handle is gone.        *)
(*                                                                         *)
(* The guest is any program that destroys only what it holds.  It names    *)
(* the descriptors it holds and those of the arguments, of whatever kind,  *)
(* and a wrong one, -1.                                                    *)
(***************************************************************************)
EXTENDS WasmHost, FiniteSets, Sequences

CONSTANTS Calls,        \* calls of Dart that may be under way at once
          Methods,      \* the methods each of them may ask for
          Asking,       \* the imports about contexts that guests make
          Modules,      \* modules, each the set of the functions it exports
          MaxImports,   \* imports a guest makes for one call
          MaxDesc,      \* bound on the descriptors
          MaxKept,      \* descriptors a guest keeps between two calls
          Keepable,     \* kinds of what it keeps
          MaxStray      \* bound on the runtimes made for no context

VARIABLES
    exports,   \* what the opened module exports
    thread,    \* "section" and "start": opening; then "idle", "running", after the
               \* return "freeing" and "reading" the result; "stopped"
    result,    \* what the running call returned
    opened,    \* what create has answered: "pending", "open", "failed"
    handle,    \* Dart still has the AidokuSource
    job,       \* [Calls -> AllMethods \cup {"none"}]: what a call asks for
    outcome,   \* [Calls -> idle, pending, done, failed]
    queue,     \* jobs on the channel
    store,     \* the host's store
    held,      \* descriptors the guest got and has not destroyed
    args,      \* descriptors of the arguments of the running call
    waiting,   \* the import that waits for Dart
    left,      \* imports the guest may still make
    runtimes,  \* Dart's side of the contexts: <<kind, descriptor>>
    stray,     \* those of runtimes that were made for no context: the descriptor
               \* named none of the kind, or the manager had been disposed
    managing   \* Dart's AidokuJsManager has not been disposed

engineVars == <<exports, thread, result, opened, handle, queue>>
guestVars  == <<store, held, args, left>>
dartVars   == <<runtimes, stray, managing>>
callVars   == <<job, outcome>>
vars == <<engineVars, guestVars, dartVars, callVars, waiting>>

-----------------------------------------------------------------------------
AllMethods == {"features", "get_manga_list", "get_search_manga_list", "get_manga_update",
               "get_page_list", "get_filters", "get_listings", "get_base_url",
               "handle_deep_link", "handle_basic_login", "handle_web_login",
               "handle_migration", "get_image_request", "dispose"}

ASSUME EngineAssumption ==
    /\ Calls # {}
    /\ Methods \in [Calls -> SUBSET AllMethods] /\ Asking \subseteq JsRequests
    /\ MaxImports \in Nat /\ MaxDesc \in Nat /\ MaxKept \in Nat
    /\ MaxStray \in Nat

HostOnly == {"features", "dispose"}     \* jobs that never enter the guest
Logins == {"handle_basic_login", "handle_web_login"}
Export(m) == IF m = "handle_migration" THEN "handle_key_migration" ELSE m

(* How many arguments of a method travel through the store.  The context   *)
(* of an image request is optional.                                        *)
ArgCounts(m) ==
    CASE m \in {"get_manga_list", "get_manga_update", "handle_deep_link"} -> {1}
      [] m \in {"get_search_manga_list", "get_page_list", "handle_web_login",
                "handle_migration"} -> {2}
      [] m = "handle_basic_login" -> {3}
      [] m = "get_image_request" -> {1, 2}
      [] OTHER -> {0}

(* What a guest can return: it trapped, a negative code, a pointer out of  *)
(* the memory, one to a message, to bytes that do not decode, or to a good *)
(* payload.  (A login looks at the number alone.)                          *)
Returns == {"trap", "code", "outside", "message", "garbage", "payload"}

(* handle_result gives a buffer it has read back to the guest.             *)
Frees(m, r) == /\ "free_result" \in exports
               /\ m \notin Logins
               /\ r \in {"message", "garbage", "payload"}

(* The answer to the caller: Ok or Err. *)
Answer(m, r) ==
    IF \/ r = "payload"
       \/ m \in Logins /\ r # "trap"
       \/ m \in {"handle_deep_link", "get_image_request"} /\ r = "code"
    THEN "done" ELSE "failed"

-----------------------------------------------------------------------------
NoWait == [fn |-> "none", desc |-> 0, rest |-> <<>>]
Wait(fn, d, rest) == [fn |-> fn, desc |-> d, rest |-> rest]

InGuest == thread \in {"section", "start", "running", "freeing"}
HasMemory == thread # "section"   \* the memory is known only after instantiation
Nameable == held \cup args \cup {-1}

(* The bounds of a guest: it frees what it holds, down to MaxKept, before  *)
(* it returns, and keeps nothing once the descriptors have reached MaxDesc *)
(* (destroying is not counted as an import).                               *)
KeepsLittle(kept) == /\ Cardinality(kept) <= MaxKept
                     /\ \A d \in kept : KindAt(store, d) \in Keepable
                     /\ store.next > MaxDesc => kept = {}

(* The guest makes an import that the host answers at once. *)
MayImport == InGuest /\ waiting = NoWait /\ left > 0
Rest == /\ left' = left - 1
        /\ UNCHANGED <<engineVars, dartVars, callVars, args, waiting>>

(* ... one that changes what is stored, *)
Apply(r) == /\ MayImport /\ Rest
            /\ store' = r.store
            /\ UNCHANGED held

(* ... one that may hand a new descriptor to the guest, *)
Hand(r) == /\ MayImport /\ Rest
           /\ r.ret <= MaxDesc
           /\ store' = r.store
           /\ held' = IF r.ret > 0 THEN held \cup {r.ret} ELSE held

(* ... or one that waits for Dart. *)
Await(fn, d, rest) ==
    /\ MayImport
    /\ waiting' = Wait(fn, d, rest)
    /\ left' = left - 1
    /\ UNCHANGED <<engineVars, dartVars, callVars, store, held, args>>

(* Bug: every call fails with the thread, also those answered before. *)
Unwind_FailsEveryCall ==
    /\ thread' = "stopped" /\ result' = "none"
    /\ opened' = IF opened = "pending" THEN "failed" ELSE opened
    /\ outcome' = [c \in Calls |-> "failed"]
    /\ queue' = <<>>
    /\ store' = EmptyStore /\ held' = {} /\ args' = {} /\ left' = 0
    /\ waiting' = NoWait
    /\ UNCHANGED <<exports, handle, job, dartVars>>

(* Bug: the receiver outlives the thread, so that no caller sees it end. *)
Unwind_KeepsReceiver ==
    /\ thread' = "stopped" /\ result' = "none"
    /\ opened' = IF opened = "pending" THEN "failed" ELSE opened
    /\ store' = EmptyStore /\ held' = {} /\ args' = {} /\ left' = 0
    /\ waiting' = NoWait
    /\ UNCHANGED <<exports, handle, job, queue, outcome, dartVars>>

(* The thread unwinds: the interpreter and the receiver are dropped, and   *)
(* with the receiver every job, whose callers see their channel close.     *)
Unwind ==
    /\ thread' = "stopped" /\ result' = "none"
    /\ opened' = IF opened = "pending" THEN "failed" ELSE opened
    /\ outcome' = [c \in Calls |->
                     IF \E i \in DOMAIN queue : queue[i] = c THEN "failed" ELSE outcome[c]]
    /\ queue' = <<>>
    /\ store' = EmptyStore /\ held' = {} /\ args' = {} /\ left' = 0
    /\ waiting' = NoWait
    /\ UNCHANGED <<exports, handle, job, dartVars>>

-----------------------------------------------------------------------------
(* The guest's imports *)

(* Imports that take the memory for granted panic while the start section  *)
(* runs; those that look first return an error.                            *)
PanicWithoutMemory == MayImport /\ ~ HasMemory /\ Unwind

(* defaults.set and send_all read numbers: a negative pointer panics. *)
PanicOnNumber(p) == MayImport /\ HasMemory /\ WordReadPanics(p) /\ Unwind

(* Enough for the imports below: text that is not UTF-8 fails like a read  *)
(* outside the memory, a negative offset reads like an empty good slice.   *)
Tried == {"good", "outside"}

ImportNet ==
    \/ Hand(NetInit(store))
    \/ \E d \in Nameable :
        \/ Apply(SetTimeout(store, d))
        \/ Hand(GetImage(store, d))
        \/ Hand(GetUrl(store, d))
        \/ Hand(NetHtml(store, d))
        \/ /\ HasMemory
           /\ \E p \in Tried :
                \/ Apply(SetUrl(store, d, p))
                \/ Apply(SetBody(store, d, p))
                \/ Apply(SetHeader(store, d, p))
                \/ \E found \in BOOLEAN : Hand(GetHeader(store, d, p, found))

(* send and send_all: the requests are made one after the other, the next  *)
(* one only when the one before was answered without an error.             *)
Send == \E d \in Nameable :
            /\ SendCheck(store, d) = 0
            /\ Await("send", d, <<>>)

SendAll == \E d, e \in Nameable :
            /\ HasMemory
            /\ SendCheck(store, d) = 0
            /\ Await("send", d, <<e>>)

ImportCanvas ==
    \/ \E ok \in BOOLEAN :
        \/ Hand(NewCanvas(store, ok))
        \/ HasMemory /\ \E p \in Tried : Hand(CanvasNewImage(store, p, ok))
        \/ \E d \in Nameable : Hand(CanvasGetImage(store, d, ok)) \/ Hand(ImageData(store, d, ok))
    \/ \E d \in Nameable :
        \/ Apply(ImageSize(store, d))
        \/ \E ctx \in Nameable : Apply(DrawOrCopy(store, ctx, d))

ImportDefaults ==
    \E p \in Tried, found \in BOOLEAN :
        HasMemory /\ Hand(DefaultsGet(store, p, found))

(* A context is stored first; the guest learns the descriptor when Dart    *)
(* has answered, but no other guest code runs until then.                  *)
CreateContext(kind) ==
    LET r == ContextCreate(store, kind) IN
    /\ MayImport /\ r.ret <= MaxDesc
    /\ store' = r.store
    /\ held' = held \cup {r.ret}
    /\ waiting' = Wait("create", r.ret, <<>>)
    /\ left' = left - 1
    /\ UNCHANGED <<engineVars, dartVars, callVars, args>>

(* Any descriptor is passed on to Dart, whatever is stored under it.  (A   *)
(* string that cannot be read makes the import return -3 before Dart is    *)
(* asked: no step of this model.)                                          *)
AskContext(fn) ==
    \E d \in Nameable :
        /\ ReadsMemory(fn) => HasMemory
        /\ KindAt(store, d) # ContextOf(fn) => Cardinality(stray) < MaxStray
        /\ store.next <= MaxDesc
        /\ Await(fn, d, <<>>)

(* std.destroy: Dart drops its side of a context before the host does. *)
Destroy(d) ==
    /\ InGuest /\ waiting = NoWait
    /\ IF KindAt(store, d) \in Contexts
       THEN /\ waiting' = Wait("destroy", d, <<>>)
            /\ UNCHANGED <<store, held>>
       ELSE /\ store' = Remove(store, d)
            /\ held' = held \ {d}
            /\ UNCHANGED waiting
    /\ UNCHANGED <<engineVars, dartVars, callVars, args, left>>

Import ==
    /\ MayImport
    /\ \/ ImportNet \/ Send \/ SendAll \/ ImportCanvas \/ ImportDefaults
       \/ \E kind \in Contexts : CreateContext(kind)
       \/ \E fn \in Asking : AskContext(fn)

-----------------------------------------------------------------------------
(* Dart answers the import that waits. *)
DartAnswers(r, handedOver) ==
    /\ store' = r.store
    /\ held' = handedOver
    /\ UNCHANGED <<engineVars, callVars, args, left, managing>>

NetAnswer(body) ==
    LET r == Answered(store, waiting.desc, body)
        next == IF waiting.rest = <<>> THEN -1 ELSE Head(waiting.rest) IN
    /\ waiting.fn = "send"
    /\ waiting' = IF r.ret = 0 /\ waiting.rest # <<>> /\ SendCheck(r.store, next) = 0
                  THEN Wait("send", next, Tail(waiting.rest)) ELSE NoWait
    /\ DartAnswers(r, held)
    /\ UNCHANGED <<runtimes, stray>>

(* A runtime is made for whatever descriptor arrives, unless one is there, *)
(* also by a manager that has been disposed.                               *)
Make(key) ==
    /\ runtimes' = runtimes \cup {key}
    /\ stray' = IF managing /\ KindAt(store, key[2]) = key[1]
                THEN stray \ {key} ELSE stray \cup {key}

(* Making a QuickJS runtime can fail. *)
CreateAnswer(made) ==
    LET key == <<KindAt(store, waiting.desc), waiting.desc>> IN
    /\ waiting.fn = "create"
    /\ key[1] = "WebviewContext" => made
    /\ IF made THEN Make(key) ELSE UNCHANGED <<runtimes, stray>>
    /\ waiting' = NoWait
    /\ DartAnswers(Host(store, 0), held)

(* Evaluating or loading makes the missing runtime too, except where the   *)
(* webview is only looked up.                                              *)
AskAnswer(success) ==
    LET fn == waiting.fn
        key == <<ContextOf(fn), waiting.desc>>
        lookup == {"webview_eval", "webview_eval_async", "webview_wait_for_load",
                   "webview_get_cookies", "webview_set_rule_list", "webview_delete_cookie"}
        r == JsAnswered(store, fn, success)
    IN
    /\ fn \in JsRequests
    /\ success /\ fn \in {"webview_eval", "webview_eval_async"} => key \in runtimes
    /\ \/ (fn \in lookup \/ ~ success) /\ UNCHANGED <<runtimes, stray>>
       \/ fn \notin lookup /\ Make(key)
    /\ waiting' = NoWait
    /\ DartAnswers(r, IF r.ret > 0 THEN held \cup {r.ret} ELSE held)

(* Bug: destroying a context leaves its runtime behind. *)
DestroyAnswer_LeavesRuntime ==
    LET d == waiting.desc IN
    /\ waiting.fn = "destroy"
    /\ waiting' = NoWait
    /\ DartAnswers(Host(Remove(store, d), 0), held \ {d})
    /\ UNCHANGED <<runtimes, stray>>

DestroyAnswer ==
    LET d == waiting.desc IN
    /\ waiting.fn = "destroy"
    /\ runtimes' = runtimes \ {<<KindAt(store, d), d>>}
    /\ stray' = stray \ {<<KindAt(store, d), d>>}
    /\ waiting' = NoWait
    /\ DartAnswers(Host(Remove(store, d), 0), held \ {d})

DartAnswer ==
    \/ \E body \in Bodies : NetAnswer(body)
    \/ \E ok \in BOOLEAN : CreateAnswer(ok) \/ AskAnswer(ok)
    \/ DestroyAnswer

-----------------------------------------------------------------------------
(* Opening the source *)

(* instantiate_and_start ends: the start section returned, or it trapped   *)
(* or the module is not one (the error is sent back and the thread ends),  *)
(* and then the export `start` runs with the memory known.                 *)
EnterStart ==
    /\ thread = "section" /\ waiting = NoWait
    /\ thread' = "start"
    /\ left' = MaxImports
    /\ UNCHANGED <<exports, result, opened, handle, queue, dartVars, callVars, store, held, args, waiting>>

Opened ==
    /\ thread = "start" /\ waiting = NoWait
    /\ KeepsLittle(held)
    /\ thread' = "idle" /\ opened' = "open"
    /\ left' = 0
    /\ UNCHANGED <<exports, result, handle, queue, dartVars, callVars, store, held, args, waiting>>

OpenFails ==
    /\ thread \in {"section", "start"} /\ waiting = NoWait
    /\ Unwind

-----------------------------------------------------------------------------
(* Calls *)

(* Dart calls a method.  Disposing the source disposes the manager of the  *)
(* contexts in the same turn, without waiting for the engine.              *)
Request(c, m) ==
    /\ opened = "open" /\ handle
    /\ outcome[c] = "idle"
    /\ outcome' = [outcome EXCEPT ![c] = "pending"]
    /\ job' = [job EXCEPT ![c] = m]
    /\ IF m = "dispose"
       THEN runtimes' = {} /\ stray' = {} /\ managing' = FALSE
       ELSE UNCHANGED dartVars
    /\ UNCHANGED <<engineVars, guestVars, waiting>>

Sending(c) == outcome[c] = "pending" /\ \A i \in DOMAIN queue : queue[i] # c

(* run: the job is sent, or the receiver is gone. *)
SendJob(c) ==
    /\ Sending(c)
    /\ IF thread = "stopped"
       THEN outcome' = [outcome EXCEPT ![c] = "failed"] /\ UNCHANGED queue
       ELSE queue' = Append(queue, c) /\ UNCHANGED outcome
    /\ UNCHANGED <<exports, thread, result, opened, handle, job, guestVars, dartVars, waiting>>

(* The answer is read by Dart.  features and dispose turn an error into an *)
(* answer of their own.                                                    *)
Settle(c) ==
    /\ outcome[c] \in {"done", "failed"}
    /\ outcome' = [outcome EXCEPT ![c] = "idle"]
    /\ job' = [job EXCEPT ![c] = "none"]
    /\ UNCHANGED <<engineVars, guestVars, dartVars, waiting>>

(* The running job stays at the head of queue until it has been answered.  *)
Reply(c, answer) ==
    /\ outcome' = [outcome EXCEPT ![c] = answer]
    /\ job' = [job EXCEPT ![c] = "none"]
    /\ queue' = Tail(queue)
    /\ thread' = "idle" /\ result' = "none"
    /\ left' = 0
    /\ UNCHANGED <<exports, opened, handle, dartVars, waiting>>

(* features reads a field, dispose clears the store: both stay out of the  *)
(* guest; an image request is not made of a module that has none.          *)
RunOnHost ==
    /\ thread = "idle" /\ queue # <<>>
    /\ LET m == job[Head(queue)] IN
       /\ \/ m \in HostOnly
          \/ m = "get_image_request" /\ Export(m) \notin exports
       /\ Reply(Head(queue), "done")
       /\ IF m = "dispose" THEN store' = EmptyStore /\ held' = {}
                           ELSE UNCHANGED <<store, held>>
       /\ UNCHANGED args

(* The arguments are stored one after the other; a method that the module  *)
(* does not export still goes through this.                                *)
StoreArgs(st, n) ==
    CASE n = 0 -> st
      [] n = 1 -> StoreValue(st, Bytes("plain"))
      [] n = 2 -> StoreValue(StoreValue(st, Bytes("plain")), Bytes("plain"))
      [] n = 3 -> StoreValue(StoreValue(StoreValue(st, Bytes("plain")),
                                        Bytes("plain")), Bytes("plain"))

Enter(n) ==
    /\ thread = "idle" /\ queue # <<>>
    /\ LET m == job[Head(queue)] IN
       /\ m \notin HostOnly
       /\ m = "get_image_request" => Export(m) \in exports
       /\ n \in ArgCounts(m)
       /\ left' = IF Export(m) \in exports THEN MaxImports ELSE 0
    /\ store' = StoreArgs(store, n)
    /\ args' = store.next .. store.next + n - 1
    /\ thread' = "running"
    /\ UNCHANGED <<exports, result, opened, handle, queue, held, dartVars, callVars, waiting>>

(* destroy of each argument, in the order they were stored. *)
DropArg(st, i) == IF i \in args THEN Remove(st, i) ELSE st
DropArgs(st) ==
    IF args = {} THEN st
    ELSE LET first == CHOOSE a \in args : \A b \in args : a <= b
         IN DropArg(DropArg(DropArg(st, first), first + 1), first + 2)

(* The guest returns r; then the arguments are destroyed, whatever it      *)
(* returned.  When the result is a buffer, free_result enters the guest    *)
(* once more.                                                              *)
Leave(r) ==
    /\ thread = "running" /\ waiting = NoWait
    /\ KeepsLittle(held)
    /\ LET m == job[Head(queue)] IN
       /\ Export(m) \notin exports => r = "trap"
       /\ IF Frees(m, r) THEN thread' = "freeing" /\ UNCHANGED left
                         ELSE thread' = "reading" /\ left' = 0
    /\ result' = r
    /\ store' = DropArgs(store) /\ args' = {}
    /\ UNCHANGED <<exports, opened, handle, queue, held, dartVars, callVars, waiting>>

(* free_result has returned or trapped, which is the same to the host, and *)
(* the bytes are decoded.  The request an image request names is taken out *)
(* of the store.                                                           *)
ReadResult ==
    /\ thread \in {"freeing", "reading"} /\ waiting = NoWait
    /\ LET m == job[Head(queue)] IN
       /\ Reply(Head(queue), Answer(m, result))
       /\ IF m = "get_image_request" /\ result = "payload"
          THEN \E d \in held \cup {-1} :
                 IF IsRequest(store, d)
                 THEN store' = Remove(store, d) /\ held' = held \ {d}
                 ELSE UNCHANGED <<store, held>>
          ELSE UNCHANGED <<store, held>>
    /\ UNCHANGED args
    /\ KeepsLittle(held')

(* Decoding may panic: a length near 2^64 passes the check of need, and    *)
(* the slice is out of range.  Neither a login nor an image request reads  *)
(* a length.                                                               *)
Decoded(m) == m \notin HostOnly \cup Logins \cup {"get_image_request"}

PanicOnDecode ==
    /\ thread \in {"freeing", "reading"} /\ waiting = NoWait
    /\ Decoded(job[Head(queue)]) /\ result = "garbage"
    /\ Unwind

(* Dart lets go of the source only when no call is under way; the thread   *)
(* sees the channel closed.                                                *)
DropHandle ==
    /\ opened = "open" /\ handle
    /\ \A c \in Calls : outcome[c] = "idle"
    /\ handle' = FALSE
    /\ UNCHANGED <<exports, thread, result, opened, queue, guestVars, dartVars, callVars, waiting>>

ThreadEnds ==
    /\ thread = "idle" /\ queue = <<>> /\ ~ handle
    /\ Unwind

-----------------------------------------------------------------------------
Init ==
    /\ exports \in Modules
    /\ thread = "section" /\ result = "none" /\ opened = "pending" /\ handle = TRUE
    /\ job = [c \in Calls |-> "none"]
    /\ outcome = [c \in Calls |-> "idle"]
    /\ queue = <<>>
    /\ store = EmptyStore /\ held = {} /\ args = {}
    /\ waiting = NoWait
    /\ left = MaxImports
    /\ runtimes = {} /\ stray = {} /\ managing = TRUE

(* The steps that bring the thread on: all but the imports, which are      *)
(* bounded by `left`, and the panics.                                      *)
Progress ==
    \/ EnterStart \/ Opened \/ ThreadEnds
    \/ RunOnHost \/ \E n \in 0 .. 3 : Enter(n)
    \/ \E r \in Returns : Leave(r)
    \/ ReadResult
    \/ \E d \in held : Destroy(d)

Next ==
    \/ Progress \/ Import \/ OpenFails
    \/ PanicWithoutMemory \/ \E p \in Slices : PanicOnNumber(p)
    \/ PanicOnDecode
    \/ DartAnswer
    \/ \E c \in Calls :
        \/ SendJob(c) \/ Settle(c)
        \/ \E m \in Methods[c] : Request(c, m)
    \/ DropHandle

(* The thread is scheduled and the guest returns after finitely many       *)
(* imports; Dart's handlers answer (they catch every error; that a server  *)
(* ends the body it started is an assumption, service.dart:54 waits for it *)
(* without a limit); calls are polled.                                     *)
Spec ==
    /\ Init /\ [][Next]_vars
    /\ WF_vars(Progress) /\ WF_vars(DartAnswer)
    /\ \A c \in Calls : WF_vars(SendJob(c)) /\ WF_vars(Settle(c))

-----------------------------------------------------------------------------
(* Properties *)

EngineTypeOK ==
    /\ exports \in Modules
    /\ thread \in {"section", "start", "idle", "running", "freeing", "reading", "stopped"}
    /\ result \in Returns \cup {"none"}
    /\ opened \in {"pending", "open", "failed"}
    /\ handle \in BOOLEAN /\ managing \in BOOLEAN
    /\ job \in [Calls -> AllMethods \cup {"none"}]
    /\ outcome \in [Calls -> {"idle", "pending", "done", "failed"}]
    /\ queue \in Seq(Calls)
    /\ WellNumbered(store)
    /\ \A d \in Live(store) : store.storage[d] \in Values
    /\ waiting.desc \in Int /\ left \in 0 .. MaxImports
    /\ stray \subseteq runtimes
    /\ \A key \in runtimes : key[1] \in Contexts

(* The store holds what the guest holds and the arguments of the running   *)
(* call, which are live as long as it runs, and nothing else: the engine   *)
(* leaks no argument on any way out of a call (a trap, an error code, a    *)
(* result that does not decode), and frees nothing of the guest's even     *)
(* though descriptors are counted from 1 again when the store empties      *)
(* (interpreter.rs destroy, store.rs remove).                              *)
StoreOwned ==
    /\ Live(store) = held \cup args
    /\ held \cap args = {}
    /\ thread # "running" => args = {}

(* A runtime or webview that Dart made for a context lasts as long as the  *)
(* context: it goes when the guest destroys the context, and none of an    *)
(* earlier context is left when its descriptor is given out again; with    *)
(* the disposal of the manager all of them go, though the engine disposes  *)
(* later.  Excepted is a thread that ended, whose runtimes wait for the    *)
(* disposal (host_std.rs destroy, js_manager.dart).                        *)
RuntimesAreOfContexts ==
    \A key \in runtimes \ stray :
        /\ managing
        /\ thread # "stopped" => KindAt(store, key[2]) = key[1]

(* Calls behave like tasks of a pool: pending until answered, answered     *)
(* once, with an error for all at once when the thread ends (api run).     *)
Pool == INSTANCE TaskPool WITH Tasks <- Calls, state <- outcome
CallsAreTasks == Pool!PoolSpec

(* Every call is answered, also the calls behind a job that panicked and   *)
(* those sent to a thread that has ended (api run).                        *)
EveryCallAnswered ==
    \A c \in Calls : outcome[c] = "pending" ~> outcome[c] # "pending"

=============================================================================
