------------------------ MODULE SourceEngine_proofs ------------------------
(***************************************************************************)
(* Proofs about the engine of a WASM source, for any number of calls, any  *)
(* modules, and guests that make any number of imports.                    *)
(*                                                                         *)
(* The inductive invariant of the store is OwnInv: ownership itself, the   *)
(* numbering of descriptors (a new one is none of those in use), the shape *)
(* of the arguments (at most three, stored one after the other, which is   *)
(* what the destroys after the call count on), and that a context about to *)
(* be destroyed, while Dart is told, still is the guest's.                 *)
(***************************************************************************)
EXTENDS SourceEngine, TLAPS

-----------------------------------------------------------------------------
(* The store.                                                              *)

NetRequests == [kind : {"NetRequest"}, fields : SUBSET {"url", "options"},
                response : {"none"} \cup Bodies]

IsStore(st) == /\ st = [storage |-> st.storage, next |-> st.next]
               /\ WellNumbered(st)
               /\ \A d \in Live(st) : st.storage[d] \in Values

(* A value keeps its kind, except that bytes may become an image.          *)
Becomes(k, l) == l = k \/ (k = "Bytes" /\ l = "Image")
KindsKept(st, u) == \A d \in Live(st) : Becomes(KindAt(st, d), KindAt(u, d))

(* What an import can do to the descriptors in use: none, or one more.     *)
Same(st, u) == IsStore(u) /\ Live(u) = Live(st) /\ u.next = st.next /\ KindsKept(st, u)
More(st, u) == IsStore(u) /\ Live(u) = Live(st) \cup {st.next} /\ KindsKept(st, u)
Quiet(st, r) == Same(st, r.store) /\ r.ret \in Int /\ r.ret <= 0
Effect(st, r) == \/ Quiet(st, r)
                 \/ More(st, r.store) /\ r.ret = st.next

LEMMA EmptyIsStore == IsStore(EmptyStore) /\ Live(EmptyStore) = {}
BY DEF IsStore, EmptyStore, WellNumbered, Live

(* The values that are not network requests are known one by one.          *)
LEMMA ValueCases ==
    ASSUME NEW v \in Values
    PROVE  \/ v.kind = "NetRequest" /\ v \in NetRequests
           \/ v.kind = "Bytes" /\ v.data \in {"plain", "picture"}
           \/ v.kind \in {"HtmlDocRoot", "CanvasContext", "Image", "JsContext", "WebviewContext"}
BY DEF Values, NetRequests, Bytes, Object, Contexts

LEMMA SomeValues ==
    /\ Bytes("plain") \in Values /\ Bytes("picture") \in Values
    /\ Object("HtmlDocRoot") \in Values /\ Object("CanvasContext") \in Values
    /\ Object("Image") \in Values /\ NewNetRequest \in Values
    /\ \A k \in Contexts : Object(k) \in Values
    /\ \A v \in NetRequests : v \in Values
<1>1. NewNetRequest \in NetRequests
    BY DEF NewNetRequest, NetRequests
<1> QED
    BY <1>1 DEF Values, NetRequests

(* Overwriting a descriptor in use changes no descriptor.                  *)
LEMMA SetKeeps ==
    ASSUME NEW st, IsStore(st), NEW d \in Live(st), NEW v \in Values,
           Becomes(KindAt(st, d), v.kind)
    PROVE  Same(st, SetAt(st, d, v))
<1> DEFINE u == SetAt(st, d, v)
<1>1. /\ u = [storage |-> u.storage, next |-> st.next]
      /\ u.storage = [x \in Live(st) |-> IF x = d THEN v ELSE st.storage[x]]
    BY DEF IsStore, SetAt, Live
<1> HIDE DEF u
<1>2. Live(u) = Live(st) /\ IsStore(u)
    BY <1>1 DEF IsStore, Live, WellNumbered
<1>3. KindsKept(st, u)
    BY <1>1, <1>2 DEF KindsKept, KindAt, Live, Becomes
<1> QED
    BY <1>1, <1>2, <1>3 DEF Same, u

(* A new value gets a descriptor that was not in use.                      *)
LEMMA StoreAdds ==
    ASSUME NEW st, IsStore(st), NEW v \in Values
    PROVE  /\ More(st, StoreValue(st, v))
           /\ StoreValue(st, v).next = st.next + 1
           /\ KindAt(StoreValue(st, v), st.next) = v.kind
           /\ st.next \notin Live(st) /\ st.next > 0 /\ st.next \in Int
<1> DEFINE u == SetAt(st, st.next, v)
           w == StoreValue(st, v)
<1>1. /\ u = [storage |-> u.storage, next |-> u.next]
      /\ u.storage = [x \in Live(st) \cup {st.next} |-> IF x = st.next THEN v ELSE st.storage[x]]
    BY DEF IsStore, SetAt, Live
<1>2. w = [u EXCEPT !.next = st.next + 1]
    BY DEF StoreValue
<1> HIDE DEF u, w
<1>3. /\ w = [storage |-> w.storage, next |-> st.next + 1]
      /\ w.storage = [x \in Live(st) \cup {st.next} |-> IF x = st.next THEN v ELSE st.storage[x]]
    BY <1>1, <1>2
<1>4. /\ \A d \in Live(st) : d \in 1 .. st.next - 1
      /\ st.next \in Nat /\ st.next # 0
    BY DEF IsStore, WellNumbered
<1>5. Live(w) = Live(st) \cup {st.next} /\ st.next \notin Live(st)
    BY <1>3, <1>4 DEF Live
<1>6. WellNumbered(w)
    BY <1>3, <1>4, <1>5 DEF WellNumbered
<1>7. \A d \in Live(w) : w.storage[d] \in Values
    BY <1>3, <1>5 DEF IsStore
<1>8. KindsKept(st, w) /\ KindAt(w, st.next) = v.kind
    BY <1>3, <1>5 DEF KindsKept, KindAt, Becomes
<1>9. w.next = st.next + 1 /\ IsStore(w)
    BY <1>3, <1>6, <1>7 DEF IsStore
<1> QED
    BY <1>4, <1>5, <1>8, <1>9 DEF More, w

(* Removing takes one descriptor out of use; the numbering stays sound     *)
(* though it starts again when the last one goes.                          *)
LEMMA RemoveTakes ==
    ASSUME NEW st, IsStore(st), NEW d
    PROVE  /\ IsStore(Remove(st, d))
           /\ Live(Remove(st, d)) = Live(st) \ {d}
           /\ \A e \in Live(st) \ {d} : KindAt(Remove(st, d), e) = KindAt(st, e)
BY DEF IsStore, Remove, Live, WellNumbered, KindAt

LEMMA AllocEffect ==
    ASSUME NEW st, IsStore(st), NEW v \in Values
    PROVE  Effect(st, Alloc(st, v))
BY StoreAdds DEF Alloc, Host, Effect

LEMMA SameIsReflexive == ASSUME NEW st, IsStore(st) PROVE Same(st, st)
BY DEF Same, KindsKept, Becomes

LEMMA SetEffect ==
    ASSUME NEW st, IsStore(st), NEW d \in Live(st), NEW v \in Values,
           Becomes(KindAt(st, d), v.kind), NEW ret \in Int, ret <= 0
    PROVE  Quiet(st, Host(SetAt(st, d, v), ret))
BY SetKeeps DEF Host, Quiet

LEMMA FailsEffect ==
    ASSUME NEW st, IsStore(st), NEW ret \in Int, ret <= 0
    PROVE  Quiet(st, Fails(st, ret)) /\ Quiet(st, Host(st, ret))
BY SameIsReflexive DEF Fails, Host, Quiet

-----------------------------------------------------------------------------
(* The imports.                                                            *)

(* A network request stays one when a field or its response is set.        *)
LEMMA RequestsStay ==
    ASSUME NEW st, IsStore(st), NEW d, IsRequest(st, d)
    PROVE  /\ d \in Live(st)
           /\ \A f \in {"url", "options"} :
                LET v == [st.storage[d] EXCEPT !.fields = @ \cup {f}]
                IN v \in Values /\ v.kind = "NetRequest"
           /\ \A b \in Bodies :
                LET v == [st.storage[d] EXCEPT !.response = b]
                IN v \in Values /\ v.kind = "NetRequest"
<1>1. d \in Live(st) /\ st.storage[d].kind = "NetRequest"
    BY DEF IsRequest, KindAt
<1>2. st.storage[d] \in NetRequests
    BY <1>1, ValueCases DEF IsStore
<1>3. \A f \in {"url", "options"} :
        [st.storage[d] EXCEPT !.fields = @ \cup {f}] \in NetRequests
    BY <1>2 DEF NetRequests
<1>4. \A b \in Bodies : [st.storage[d] EXCEPT !.response = b] \in NetRequests
    BY <1>2 DEF NetRequests
<1>5. \A v \in NetRequests : v \in Values /\ v.kind = "NetRequest"
    BY SomeValues DEF NetRequests
<1> QED
    BY <1>1, <1>3, <1>4, <1>5

LEMMA SetFieldEffect ==
    ASSUME NEW st, IsStore(st), NEW d, NEW f \in {"url", "options"}
    PROVE  Quiet(st, SetField(st, d, f))
<1>1. CASE IsRequest(st, d)
    <2> DEFINE v == [st.storage[d] EXCEPT !.fields = @ \cup {f}]
    <2>1. KindAt(st, d) = "NetRequest" /\ SetField(st, d, f) = Host(SetAt(st, d, v), 0)
        BY <1>1 DEF IsRequest, SetField
    <2>2. d \in Live(st) /\ v \in Values /\ v.kind = "NetRequest"
        BY <1>1, RequestsStay
    <2> HIDE DEF v
    <2>3. Becomes(KindAt(st, d), v.kind)
        BY <2>1, <2>2 DEF Becomes
    <2> QED
        BY <2>1, <2>2, <2>3, SetEffect
<1>2. CASE ~ IsRequest(st, d)
    BY <1>2, FailsEffect DEF SetField
<1> QED
    BY <1>1, <1>2

LEMMA NetEffects ==
    ASSUME NEW st, IsStore(st), NEW d, NEW p, NEW found
    PROVE  /\ Effect(st, NetInit(st))
           /\ Quiet(st, SetTimeout(st, d))
           /\ Quiet(st, SetUrl(st, d, p))
           /\ Quiet(st, SetBody(st, d, p))
           /\ Quiet(st, SetHeader(st, d, p))
           /\ Effect(st, GetImage(st, d))
           /\ Effect(st, GetUrl(st, d))
           /\ Effect(st, NetHtml(st, d))
           /\ Effect(st, GetHeader(st, d, p, found))
<1>1. \A f \in {"url", "options"} : Quiet(st, SetField(st, d, f))
    BY SetFieldEffect
<1>2. \A n \in {1, 2, 4, 5} : Quiet(st, Fails(st, -n))
    BY FailsEffect
<1>3. \A v \in Values : Effect(st, Alloc(st, v))
    BY AllocEffect
<1>4. Quiet(st, SetTimeout(st, d)) /\ Quiet(st, SetUrl(st, d, p))
    BY <1>1, <1>2 DEF SetTimeout, SetUrl
<1>5. Quiet(st, SetBody(st, d, p)) /\ Quiet(st, SetHeader(st, d, p))
    BY <1>1, <1>2 DEF SetBody, SetHeader
<1>6. Effect(st, GetImage(st, d)) /\ Effect(st, GetUrl(st, d)) /\ Effect(st, NetHtml(st, d))
    BY <1>2, <1>3, SomeValues DEF GetImage, GetUrl, NetHtml, Effect
<1>7. Effect(st, GetHeader(st, d, p, found)) /\ Effect(st, NetInit(st))
    BY <1>2, <1>3, SomeValues DEF GetHeader, NetInit, Effect
<1> QED
    BY <1>4, <1>5, <1>6, <1>7

(* The answer of the network is kept in the request it answers.            *)
LEMMA AnsweredEffect ==
    ASSUME NEW st, IsStore(st), NEW d, NEW b \in Bodies
    PROVE  Same(st, Answered(st, d, b).store)
<1>1. CASE IsRequest(st, d)
    <2> DEFINE v == [st.storage[d] EXCEPT !.response = b]
    <2>1. KindAt(st, d) = "NetRequest" /\ Answered(st, d, b).store = SetAt(st, d, v)
        BY <1>1 DEF IsRequest, Answered, Host
    <2>2. d \in Live(st) /\ v \in Values /\ v.kind = "NetRequest"
        BY <1>1, RequestsStay
    <2> HIDE DEF v
    <2>3. Becomes(KindAt(st, d), v.kind)
        BY <2>1, <2>2 DEF Becomes
    <2> QED
        BY <2>1, <2>2, <2>3, SetKeeps
<1>2. CASE ~ IsRequest(st, d)
    BY <1>2, SameIsReflexive DEF Answered, Fails, Host
<1> QED
    BY <1>1, <1>2

(* Decoding an image where it lies, and then doing something else.         *)
LEMMA SameThenEffect ==
    ASSUME NEW st, IsStore(st), NEW u, Same(st, u), NEW r, Effect(u, r)
    PROVE  Effect(st, r) /\ (Quiet(u, r) => Quiet(st, r))
<1>1. KindsKept(u, r.store) => KindsKept(st, r.store)
    BY DEF Same, KindsKept, Becomes
<1>2. CASE Quiet(u, r)
    BY <1>1, <1>2 DEF Same, Quiet, Effect
<1>3. CASE More(u, r.store) /\ r.ret = u.next
    BY <1>1, <1>3 DEF Same, More, Effect, Quiet
<1> QED
    BY <1>2, <1>3 DEF Effect

LEMMA ResolveKeeps ==
    ASSUME NEW st, IsStore(st), NEW d
    PROVE  Same(st, ResolveImage(st, d))
<1>1. CASE IsImage(st, d)
    <2>1. d \in Live(st)
        BY <1>1 DEF IsImage, KindAt
    <2>2. Object("Image").kind = "Image" /\ Becomes(KindAt(st, d), "Image")
        BY <1>1 DEF IsImage, Object, Becomes
    <2> QED
        BY <1>1, <2>1, <2>2, SomeValues, SetKeeps DEF ResolveImage
<1>2. CASE ~ IsImage(st, d)
    BY <1>2, SameIsReflexive DEF ResolveImage
<1> QED
    BY <1>1, <1>2

LEMMA CanvasEffects ==
    ASSUME NEW st, IsStore(st), NEW d, NEW ctx, NEW p, NEW ok
    PROVE  /\ Effect(st, NewCanvas(st, ok))
           /\ Effect(st, CanvasNewImage(st, p, ok))
           /\ Effect(st, CanvasGetImage(st, d, ok))
           /\ Effect(st, ImageData(st, d, ok))
           /\ Quiet(st, ImageSize(st, d))
           /\ Quiet(st, DrawOrCopy(st, ctx, d))
<1> DEFINE u == ResolveImage(st, d)
<1>1. Same(st, u) /\ IsStore(u)
    BY ResolveKeeps DEF Same
<1> HIDE DEF u
<1>2. \A n \in {0, 1, 3, 6} : Quiet(st, Fails(st, -n)) /\ Quiet(u, Host(u, -n))
    BY <1>1, FailsEffect
<1>3. /\ \A v \in Values : Effect(st, Alloc(st, v))
      /\ \A v \in Values : Effect(u, Alloc(u, v))
    BY <1>1, AllocEffect
<1>4. Effect(st, Alloc(u, Bytes("picture"))) /\ \A n \in {0, 1, 3, 6} : Quiet(st, Host(u, -n))
    BY <1>1, <1>2, <1>3, SomeValues, SameThenEffect DEF Effect
<1>5. Effect(st, NewCanvas(st, ok)) /\ Effect(st, CanvasNewImage(st, p, ok))
    BY <1>2, <1>3, SomeValues DEF NewCanvas, CanvasNewImage, Effect
<1>6. Effect(st, CanvasGetImage(st, d, ok))
    BY <1>2, <1>3, SomeValues DEF CanvasGetImage, Effect
<1>7. Effect(st, ImageData(st, d, ok))
    BY <1>4 DEF ImageData, Fails, Effect, u
<1>8. Quiet(st, ImageSize(st, d)) /\ Quiet(st, DrawOrCopy(st, ctx, d))
    BY <1>2, <1>4 DEF ImageSize, DrawOrCopy, u
<1> QED
    BY <1>5, <1>6, <1>7, <1>8

LEMMA DefaultsEffect ==
    ASSUME NEW st, IsStore(st), NEW p, NEW found
    PROVE  Effect(st, DefaultsGet(st, p, found))
<1>1. \A n \in {1, 2} : Quiet(st, Fails(st, -n))
    BY FailsEffect
<1> QED
    BY <1>1, AllocEffect, SomeValues DEF DefaultsGet, Effect

LEMMA JsEffect ==
    ASSUME NEW st, IsStore(st), NEW fn, NEW success
    PROVE  Effect(st, JsAnswered(st, fn, success))
<1>1. /\ \A n \in {0, 1} : Quiet(st, Fails(st, -n)) /\ Quiet(st, Host(st, -n))
      /\ Effect(st, Alloc(st, Bytes("plain")))
    BY FailsEffect, AllocEffect, SomeValues
<1>2. CASE fn \in Scripts
    BY <1>1, <1>2 DEF JsAnswered, Effect
<1>3. CASE fn \notin Scripts /\ fn \in PageRequests
    BY <1>1, <1>3 DEF JsAnswered, Effect
<1>4. CASE fn \notin Scripts /\ fn \notin PageRequests
    BY <1>1, <1>4 DEF JsAnswered, Effect
<1> QED
    BY <1>2, <1>3, <1>4

-----------------------------------------------------------------------------
(* The inductive invariant.                                                *)

Waits == [fn : {"send", "create", "destroy"} \cup JsRequests, desc : Int, rest : Seq(Int)]

Threads == {"section", "start", "idle", "running", "freeing", "reading", "stopped"}

TypeInv ==
    /\ exports \in Modules
    /\ thread \in Threads /\ result \in Returns \cup {"none"}
    /\ opened \in {"pending", "open", "failed"}
    /\ handle \in BOOLEAN /\ managing \in BOOLEAN
    /\ job \in [Calls -> AllMethods \cup {"none"}]
    /\ outcome \in [Calls -> {"idle", "pending", "done", "failed"}]
    /\ queue \in Seq(Calls)
    /\ left \in 0 .. MaxImports
    /\ waiting \in Waits \cup {NoWait}
    /\ runtimes \subseteq Contexts \X Int /\ stray \subseteq runtimes

(* At most three arguments, one after the other, and none is a context.    *)
Args(S) == S = {} \/ \E f \in Int : S = {f} \/ S = {f, f + 1} \/ S = {f, f + 1, f + 2}
ArgsInv == Args(args) /\ \A a \in args : KindAt(store, a) \notin Contexts

OwnInv == IsStore(store) /\ StoreOwned /\ ArgsInv

(* An import waits for Dart while the guest runs.                          *)
WaitInv ==
    waiting # NoWait =>
        /\ InGuest
        /\ waiting.fn = "create" => KindAt(store, waiting.desc) \in Contexts
        /\ waiting.fn = "destroy" => waiting.desc \in held

(* Once a call to dispose has been made, the manager is gone.              *)
DartInv == /\ RuntimesAreOfContexts
           /\ \A c \in Calls : job[c] = "dispose" => ~ managing

(* The queue holds calls that are pending, each once, and the one that     *)
(* runs is at its head.                                                    *)
CallInv ==
    /\ thread \in {"running", "freeing", "reading"} => queue # <<>>
    /\ \A i \in 1 .. Len(queue) : outcome[queue[i]] = "pending"
    /\ \A i, j \in 1 .. Len(queue) : queue[i] = queue[j] => i = j

Inv == TypeInv /\ OwnInv /\ WaitInv /\ DartInv /\ CallInv

-----------------------------------------------------------------------------
(* The steps, by what they do to the store.                                *)

Gets(r) == IF r.ret > 0 THEN held \cup {r.ret} ELSE held

(* An import that the host answers at once.                                *)
Imported(r) == /\ MayImport /\ Rest
               /\ Effect(store, r)
               /\ store' = r.store /\ held' = Gets(r)

LEMMA ApplyImports ==
    ASSUME NEW r, Quiet(store, r), Apply(r)
    PROVE  Imported(r)
BY DEF Apply, Imported, Quiet, Effect, Gets

LEMMA HandImports ==
    ASSUME NEW r, Effect(store, r), Hand(r)
    PROVE  Imported(r)
BY DEF Hand, Imported, Gets

LEMMA AnsweredAtOnce ==
    ASSUME IsStore(store), ImportNet \/ ImportCanvas \/ ImportDefaults
    PROVE  \E r : Imported(r)
<1>1. CASE ImportNet
    <2>1. CASE Hand(NetInit(store))
        BY <2>1, NetEffects, HandImports
    <2>2. ASSUME NEW d \in Nameable,
                 Apply(SetTimeout(store, d)) \/ Hand(GetImage(store, d))
                    \/ Hand(GetUrl(store, d)) \/ Hand(NetHtml(store, d))
          PROVE  \E r : Imported(r)
        BY <2>2, NetEffects, HandImports, ApplyImports
    <2>3. ASSUME NEW d \in Nameable, NEW p \in Tried,
                 Apply(SetUrl(store, d, p)) \/ Apply(SetBody(store, d, p))
                    \/ Apply(SetHeader(store, d, p))
          PROVE  \E r : Imported(r)
        BY <2>3, NetEffects, ApplyImports
    <2>4. ASSUME NEW d \in Nameable, NEW p \in Tried, NEW found \in BOOLEAN,
                 Hand(GetHeader(store, d, p, found))
          PROVE  \E r : Imported(r)
        BY <2>4, NetEffects, HandImports
    <2> QED
        BY <1>1, <2>1, <2>2, <2>3, <2>4 DEF ImportNet
<1>2. CASE ImportCanvas
    <2>1. ASSUME NEW ok \in BOOLEAN, NEW p \in Tried, NEW d \in Nameable,
                 Hand(NewCanvas(store, ok)) \/ Hand(CanvasNewImage(store, p, ok))
                    \/ Hand(CanvasGetImage(store, d, ok)) \/ Hand(ImageData(store, d, ok))
          PROVE  \E r : Imported(r)
        BY <2>1, CanvasEffects, HandImports
    <2>2. ASSUME NEW d \in Nameable, NEW ctx \in Nameable,
                 Apply(ImageSize(store, d)) \/ Apply(DrawOrCopy(store, ctx, d))
          PROVE  \E r : Imported(r)
        BY <2>2, CanvasEffects, ApplyImports
    <2>3. Nameable # {} /\ Tried # {}
        BY DEF Nameable, Tried
    <2> QED
        BY <1>2, <2>1, <2>2, <2>3 DEF ImportCanvas
<1>3. CASE ImportDefaults
    BY <1>3, DefaultsEffect, HandImports DEF ImportDefaults
<1> QED
    BY <1>1, <1>2, <1>3

(* The imports that only start to wait.                                    *)
LEMMA AwaitWaits ==
    ASSUME NEW fn \in {"send"} \cup JsRequests, NEW d \in Int, NEW rest \in Seq(Int),
           Await(fn, d, rest)
    PROVE  /\ MayImport
           /\ waiting' \in Waits /\ waiting'.fn = fn /\ waiting'.desc = d
           /\ left' = left - 1
           /\ UNCHANGED <<engineVars, dartVars, callVars, store, held, args>>
<1>1. waiting' = [fn |-> fn, desc |-> d, rest |-> rest]
    BY DEF Await, Wait
<1>2. waiting' \in Waits
    BY <1>1 DEF Waits
<1> QED
    BY <1>1, <1>2 DEF Await

Waited ==
    /\ MayImport
    /\ waiting' \in Waits
    /\ waiting'.fn \notin {"create", "destroy"}
    /\ left' = left - 1
    /\ UNCHANGED <<engineVars, dartVars, callVars, store, held, args>>

LEMMA StartsToWait ==
    ASSUME OwnInv, Send \/ SendAll \/ (\E fn \in Asking : AskContext(fn))
    PROVE  Waited
<1>0. Nameable \subseteq Int /\ held \subseteq Int
    BY DEF OwnInv, StoreOwned, IsStore, WellNumbered, Nameable
<1>4. JsRequests \cap {"send", "create", "destroy"} = {}
    BY DEF JsRequests, Scripts, PageRequests, Silent
<1>5. <<>> \in Seq(Int) /\ \A e \in Int : <<e>> \in Seq(Int)
    OBVIOUS
<1>1. ASSUME NEW d \in Nameable, NEW rest \in Seq(Int), Await("send", d, rest) PROVE Waited
    <2>1. d \in Int /\ "send" \in {"send"} \cup JsRequests
        BY <1>0
    <2> QED
        BY <1>1, <1>4, <2>1, AwaitWaits DEF Waited
<1>2. ASSUME NEW fn \in Asking, AskContext(fn) PROVE Waited
    <2>1. PICK d \in Nameable : Await(fn, d, <<>>)
        BY <1>2 DEF AskContext
    <2>2. d \in Int /\ fn \in JsRequests
        BY <1>0, EngineAssumption
    <2> QED
        BY <1>4, <1>5, <2>1, <2>2, AwaitWaits DEF Waited
<1> QED
    BY <1>0, <1>1, <1>2, <1>5 DEF Send, SendAll

(* A thread that unwinds keeps nothing.                                    *)
LEMMA Unwinds ==
    ASSUME OpenFails \/ PanicWithoutMemory \/ (\E p \in Slices : PanicOnNumber(p))
               \/ PanicOnDecode \/ ThreadEnds
    PROVE  Unwind
BY DEF OpenFails, PanicWithoutMemory, PanicOnNumber, PanicOnDecode, ThreadEnds

-----------------------------------------------------------------------------
(* Arguments.                                                              *)

(* S is taken out of the store, the rest stays as it is.                   *)
Taken(st, u, S) == /\ IsStore(u) /\ Live(u) = Live(st) \ S
                   /\ \A e \in Live(u) : KindAt(u, e) = KindAt(st, e)

LEMMA RemoveIsTaken ==
    ASSUME NEW st, IsStore(st), NEW d PROVE Taken(st, Remove(st, d), {d})
BY RemoveTakes DEF Taken

LEMMA TakenTwice ==
    ASSUME NEW st, NEW u, NEW S, Taken(st, u, S), NEW w, NEW T, Taken(u, w, T)
    PROVE  Taken(st, w, S \cup T)
BY DEF Taken

LEMMA DropArgTakes ==
    ASSUME NEW st, IsStore(st), NEW i
    PROVE  Taken(st, DropArg(st, i), {i} \cap args)
<1>1. CASE i \in args
    BY <1>1, RemoveIsTaken DEF DropArg
<1>2. CASE i \notin args
    BY <1>2 DEF DropArg, Taken
<1> QED
    BY <1>1, <1>2

(* The three destroys remove all arguments.                                *)
LEMMA DropArgsTakes ==
    ASSUME NEW st, IsStore(st), Args(args)
    PROVE  Taken(st, DropArgs(st), args)
<1>1. CASE args = {}
    BY <1>1 DEF DropArgs, Taken
<1>2. CASE args # {}
    <2> DEFINE first == CHOOSE a \in args : \A b \in args : a <= b
    <2>1. PICK f \in Int : args = {f} \/ args = {f, f + 1} \/ args = {f, f + 1, f + 2}
        BY <1>2 DEF Args
    <2>2. f \in args /\ (\A b \in args : f <= b) /\ args \subseteq Int
        BY <2>1
    <2>3. first \in args /\ \A b \in args : first <= b
        BY <2>2
    <2>5. DropArgs(st) = DropArg(DropArg(DropArg(st, first), first + 1), first + 2)
        BY <1>2 DEF DropArgs
    <2> HIDE DEF first
    <2>4. first = f
        <3>1. first \in Int /\ first <= f /\ f <= first
            BY <2>2, <2>3
        <3> QED BY <3>1
    <2> DEFINE u == DropArg(st, f)
               w == DropArg(u, f + 1)
               x == DropArg(w, f + 2)
    <2>6. Taken(st, u, {f} \cap args) /\ IsStore(u)
        BY DropArgTakes DEF Taken
    <2>7. Taken(u, w, {f + 1} \cap args) /\ IsStore(w)
        <3> HIDE DEF u
        <3> QED BY <2>6, DropArgTakes DEF Taken
    <2>8. Taken(w, x, {f + 2} \cap args)
        <3> HIDE DEF w
        <3> QED BY <2>7, DropArgTakes
    <2> HIDE DEF u, w, x
    <2>9. Taken(st, x, ({f} \cap args) \cup ({f + 1} \cap args) \cup ({f + 2} \cap args))
        BY <2>6, <2>7, <2>8, TakenTwice
    <2>10. ({f} \cap args) \cup ({f + 1} \cap args) \cup ({f + 2} \cap args) = args
        BY <2>1
    <2>11. DropArgs(st) = x
        BY <2>4, <2>5 DEF u, w, x
    <2> QED
        BY <2>9, <2>10, <2>11
<1> QED
    BY <1>1, <1>2

(* Storing n arguments.                                                    *)
Added(st, u, S) == /\ IsStore(u) /\ Live(u) = Live(st) \cup S
                   /\ \A d \in Live(st) : KindAt(u, d) = KindAt(st, d)
                   /\ \A d \in S : KindAt(u, d) = "Bytes"

LEMMA StoringArgs ==
    ASSUME NEW st, IsStore(st), NEW n \in 0 .. 3
    PROVE  /\ Added(st, StoreArgs(st, n), st.next .. st.next + n - 1)
           /\ Live(st) \cap (st.next .. st.next + n - 1) = {}
<1> DEFINE B == Bytes("plain")
           u == StoreValue(st, B)
           w == StoreValue(u, B)
           x == StoreValue(w, B)
<1>1. B \in Values /\ B.kind = "Bytes"
    BY SomeValues DEF Bytes
<1>2. /\ st.next \in Nat /\ \A d \in Live(st) : d < st.next /\ d \in Int
    BY DEF IsStore, WellNumbered
<1>3. ASSUME NEW s, IsStore(s)
      PROVE  /\ IsStore(StoreValue(s, B))
             /\ Live(StoreValue(s, B)) = Live(s) \cup {s.next}
             /\ StoreValue(s, B).next = s.next + 1
             /\ \A d \in Live(s) : KindAt(StoreValue(s, B), d) = KindAt(s, d)
             /\ KindAt(StoreValue(s, B), s.next) = "Bytes"
    <2>1. \A d \in Live(s) : d # s.next
        BY <1>3, StoreAdds, <1>1
    <2>2. /\ IsStore(StoreValue(s, B))
          /\ Live(StoreValue(s, B)) = Live(s) \cup {s.next}
          /\ StoreValue(s, B).next = s.next + 1
          /\ KindAt(StoreValue(s, B), s.next) = "Bytes"
        <3> HIDE DEF B
        <3> QED BY <1>1, <1>3, StoreAdds DEF More
    <2>3. \A d \in Live(s) : StoreValue(s, B).storage[d] = s.storage[d]
        BY <1>3, <2>1 DEF StoreValue, SetAt, IsStore, Live
    <2> QED
        BY <2>2, <2>3 DEF KindAt
<1> HIDE DEF B
<1>4. StoreArgs(st, n) = IF n = 0 THEN st ELSE IF n = 1 THEN u ELSE IF n = 2 THEN w ELSE x
    <2>1. n = 0 \/ n = 1 \/ n = 2 \/ n = 3
        OBVIOUS
    <2> QED
        BY <2>1 DEF StoreArgs, B
<1>5. Added(st, u, {st.next}) /\ u.next = st.next + 1
    BY <1>3 DEF Added
<1>6. IsStore(u) /\ Live(u) = Live(st) \cup {st.next}
    BY <1>5 DEF Added
<1> HIDE DEF u
<1>7. Added(st, w, {st.next, st.next + 1}) /\ w.next = st.next + 2
    BY <1>2, <1>3, <1>5, <1>6 DEF Added
<1>8. IsStore(w) /\ Live(w) = Live(st) \cup {st.next, st.next + 1}
    BY <1>7 DEF Added
<1> HIDE DEF w
<1>9. Added(st, x, {st.next, st.next + 1, st.next + 2})
    BY <1>2, <1>3, <1>7, <1>8 DEF Added
<1> HIDE DEF x
<1>10. Added(st, st, {})
    BY DEF Added
<1>11. Live(st) \cap (st.next .. st.next + n - 1) = {}
    BY <1>2
<1>12. \/ n = 0 /\ StoreArgs(st, n) = st /\ st.next .. st.next + n - 1 = {}
       \/ n = 1 /\ StoreArgs(st, n) = u /\ st.next .. st.next + n - 1 = {st.next}
       \/ n = 2 /\ StoreArgs(st, n) = w /\ st.next .. st.next + n - 1 = {st.next, st.next + 1}
       \/ /\ n = 3 /\ StoreArgs(st, n) = x
          /\ st.next .. st.next + n - 1 = {st.next, st.next + 1, st.next + 2}
    <2>1. n = 0 \/ n = 1 \/ n = 2 \/ n = 3
        OBVIOUS
    <2>2. \A m \in Nat : /\ m .. m + 0 - 1 = {} /\ m .. m + 1 - 1 = {m}
                         /\ m .. m + 2 - 1 = {m, m + 1}
                         /\ m .. m + 3 - 1 = {m, m + 1, m + 2}
        OBVIOUS
    <2> QED
        BY <1>2, <1>4, <2>1, <2>2
<1> QED
    BY <1>5, <1>7, <1>9, <1>10, <1>11, <1>12

-----------------------------------------------------------------------------
(* The store, the waiting import and Dart's runtimes, step by step.        *)

HostInv == OwnInv /\ WaitInv /\ DartInv

LEMMA EffectKeeps ==
    ASSUME OwnInv, NEW r, Effect(store, r),
           store' = r.store, held' = Gets(r), args' = args, thread' = thread
    PROVE  /\ OwnInv' /\ held \subseteq held'
           /\ \A d : KindAt(store, d) \in Contexts => KindAt(store', d) = KindAt(store, d)
<1>1. IsStore(store) /\ Live(store) = held \cup args /\ held \cap args = {}
    BY DEF OwnInv, StoreOwned
<1>2. store.next \notin Live(store) /\ store.next > 0 /\ store.next \in Int
    BY <1>1, StoreAdds, SomeValues
<1>3. IsStore(store') /\ KindsKept(store, store')
    BY DEF Effect, Quiet, Same, More
<1>4. \/ Live(store') = Live(store) /\ held' = held
      \/ Live(store') = Live(store) \cup {store.next} /\ held' = held \cup {store.next}
    <2>1. CASE Quiet(store, r)
        BY <2>1 DEF Quiet, Same, Gets
    <2>2. CASE More(store, r.store) /\ r.ret = store.next
        BY <1>2, <2>2 DEF More, Gets
    <2> QED
        BY <2>1, <2>2 DEF Effect
<1>5. StoreOwned'
    BY <1>1, <1>2, <1>4 DEF StoreOwned, OwnInv
<1>6. \A d \in Live(store) : \/ KindAt(store', d) = KindAt(store, d)
                             \/ KindAt(store, d) = "Bytes" /\ KindAt(store', d) = "Image"
    BY <1>3 DEF KindsKept, Becomes
<1>7. ArgsInv'
    <2>1. \A a \in args : a \in Live(store) /\ KindAt(store, a) \notin Contexts
        BY <1>1 DEF OwnInv, ArgsInv
    <2>2. \A a \in args : KindAt(store', a) \notin Contexts
        BY <1>6, <2>1 DEF Contexts
    <2> QED
        BY <2>2 DEF OwnInv, ArgsInv
<1>8. \A d : KindAt(store, d) \in Contexts => d \in Live(store) /\ KindAt(store, d) # "Bytes"
    BY DEF KindAt, Contexts
<1> QED
    BY <1>3, <1>4, <1>5, <1>6, <1>7, <1>8 DEF OwnInv

(* Runtimes stay right as long as their contexts keep their kinds.         *)
LEMMA DartKept ==
    ASSUME TypeInv, DartInv, thread # "stopped", UNCHANGED <<runtimes, stray, managing>>,
           \A c \in Calls : job'[c] = "dispose" => job[c] = "dispose",
           \A key \in runtimes : KindAt(store, key[2]) \in Contexts =>
                KindAt(store', key[2]) = KindAt(store, key[2])
    PROVE  DartInv'
BY DEF TypeInv, DartInv, RuntimesAreOfContexts

LEMMA NoWaitIsNone == NoWait.fn = "none" /\ NoWait.rest = <<>>
BY DEF NoWait

LEMMA ImportedStep ==
    ASSUME TypeInv, HostInv, NEW r, Imported(r)
    PROVE  HostInv'
<1>1. /\ thread \in {"section", "start", "running", "freeing"} /\ waiting = NoWait
      /\ UNCHANGED <<thread, runtimes, stray, managing, job, args, waiting>>
    BY DEF Imported, MayImport, InGuest, Rest, engineVars, dartVars, callVars
<1>2. /\ OwnInv'
      /\ \A d : KindAt(store, d) \in Contexts => KindAt(store', d) = KindAt(store, d)
    BY <1>1, EffectKeeps DEF HostInv, Imported
<1>3. WaitInv'
    BY <1>1 DEF WaitInv
<1>4. DartInv'
    BY <1>1, <1>2, DartKept DEF HostInv
<1> QED
    BY <1>2, <1>3, <1>4 DEF HostInv

LEMMA WaitedStep ==
    ASSUME HostInv, Waited
    PROVE  HostInv'
<1>1. /\ thread \in {"section", "start", "running", "freeing"}
      /\ UNCHANGED <<thread, runtimes, stray, managing, job, args, store, held>>
    BY DEF Waited, MayImport, InGuest, engineVars, dartVars, callVars
<1>2. OwnInv' /\ DartInv'
    BY <1>1 DEF HostInv, OwnInv, StoreOwned, ArgsInv, DartInv, RuntimesAreOfContexts
<1>3. WaitInv'
    BY <1>1 DEF Waited, WaitInv, InGuest
<1> QED
    BY <1>2, <1>3 DEF HostInv

LEMMA CreateContextStep ==
    ASSUME TypeInv, HostInv, NEW kind \in Contexts, CreateContext(kind)
    PROVE  HostInv'
<1> DEFINE r == ContextCreate(store, kind)
<1>0. IsStore(store) /\ Object(kind) \in Values /\ Object(kind).kind = kind
    BY SomeValues DEF HostInv, OwnInv, Object
<1>1. Effect(store, r) /\ r.ret = store.next /\ r.store = StoreValue(store, Object(kind))
    BY <1>0, AllocEffect DEF ContextCreate, Alloc, Host
<1>2. r.ret > 0 /\ KindAt(r.store, r.ret) = kind
    BY <1>0, <1>1, StoreAdds
<1>3. /\ thread \in {"section", "start", "running", "freeing"}
      /\ UNCHANGED <<thread, runtimes, stray, managing, job, args>>
      /\ store' = r.store /\ held' = held \cup {r.ret}
      /\ waiting' = [fn |-> "create", desc |-> r.ret, rest |-> <<>>]
    BY DEF CreateContext, MayImport, InGuest, engineVars, dartVars, callVars, Wait
<1> HIDE DEF r
<1>4. held' = Gets(r)
    BY <1>2, <1>3 DEF Gets
<1>5. /\ OwnInv'
      /\ \A d : KindAt(store, d) \in Contexts => KindAt(store', d) = KindAt(store, d)
    BY <1>1, <1>3, <1>4, EffectKeeps DEF HostInv
<1>6. "create" \notin JsRequests
    BY DEF JsRequests, Scripts, PageRequests, Silent
<1>7. WaitInv'
    BY <1>2, <1>3, <1>6 DEF WaitInv, InGuest
<1>8. DartInv'
    BY <1>3, <1>5, DartKept DEF HostInv
<1> QED
    BY <1>5, <1>7, <1>8 DEF HostInv

LEMMA DestroyStep ==
    ASSUME TypeInv, HostInv, NEW d \in held, Destroy(d)
    PROVE  HostInv'
<1>1. /\ thread \in {"section", "start", "running", "freeing"} /\ waiting = NoWait
      /\ UNCHANGED <<thread, runtimes, stray, managing, job, args>>
    BY DEF Destroy, InGuest, engineVars, dartVars, callVars
<1>2. CASE KindAt(store, d) \in Contexts
    <2>1. waiting' = [fn |-> "destroy", desc |-> d, rest |-> <<>>] /\ UNCHANGED <<store, held>>
        BY <1>2 DEF Destroy, Wait
    <2>2. "destroy" \notin JsRequests
        BY DEF JsRequests, Scripts, PageRequests, Silent
    <2>3. WaitInv'
        BY <1>1, <2>1, <2>2 DEF WaitInv, InGuest
    <2> QED
        BY <1>1, <2>1, <2>3
        DEF HostInv, OwnInv, StoreOwned, ArgsInv, DartInv, RuntimesAreOfContexts
<1>3. CASE KindAt(store, d) \notin Contexts
    <2>1. store' = Remove(store, d) /\ held' = held \ {d} /\ waiting' = waiting
        BY <1>3 DEF Destroy
    <2>2. Taken(store, store', {d}) /\ d \notin args
        BY <2>1, RemoveIsTaken DEF HostInv, OwnInv, StoreOwned
    <2>3. OwnInv'
        BY <1>1, <2>1, <2>2 DEF HostInv, OwnInv, StoreOwned, ArgsInv, Taken
    <2>4. \A e : KindAt(store, e) \in Contexts => e \in Live(store) /\ e # d
        BY <1>3 DEF KindAt, Contexts
    <2>5. DartInv'
        BY <1>1, <2>2, <2>4, DartKept DEF HostInv, Taken
    <2> QED
        BY <1>1, <2>1, <2>3, <2>5 DEF HostInv, WaitInv
<1> QED
    BY <1>2, <1>3

LEMMA UnwindStep ==
    ASSUME HostInv, Unwind
    PROVE  HostInv'
<1>1. /\ store' = EmptyStore /\ held' = {} /\ args' = {} /\ waiting' = NoWait
      /\ thread' = "stopped" /\ UNCHANGED <<runtimes, stray, managing, job>>
    BY DEF Unwind, dartVars
<1>2. OwnInv'
    BY <1>1, EmptyIsStore DEF OwnInv, StoreOwned, ArgsInv, Args
<1> QED
    BY <1>1, <1>2 DEF HostInv, WaitInv, DartInv, RuntimesAreOfContexts

(* The answers of Dart. *)
LEMMA NotAsked == JsRequests \cap {"none", "send", "create", "destroy"} = {}
BY DEF JsRequests, Scripts, PageRequests, Silent

LEMMA AnswerFrame ==
    ASSUME HostInv, waiting.fn # "none", NEW r, NEW h, DartAnswers(r, h)
    PROVE  /\ thread \in {"section", "start", "running", "freeing"} /\ waiting # NoWait
           /\ UNCHANGED <<thread, managing, job, args>> /\ store' = r.store /\ held' = h
BY NoWaitIsNone DEF DartAnswers, engineVars, callVars, HostInv, WaitInv, InGuest

LEMMA NetAnswerStep ==
    ASSUME TypeInv, HostInv, NEW body \in Bodies, NetAnswer(body)
    PROVE  HostInv'
<1> DEFINE r == Answered(store, waiting.desc, body)
           next == IF waiting.rest = <<>> THEN -1 ELSE Head(waiting.rest)
<1>1. /\ thread \in {"section", "start", "running", "freeing"}
      /\ UNCHANGED <<thread, managing, job, args, runtimes, stray, held>> /\ store' = r.store
    BY AnswerFrame DEF NetAnswer
<1>2. \/ waiting' = [fn |-> "send", desc |-> next, rest |-> Tail(waiting.rest)]
      \/ waiting' = NoWait
    BY DEF NetAnswer, Wait
<1>3. Same(store, r.store)
    BY AnsweredEffect DEF HostInv, OwnInv
<1> HIDE DEF r, next
<1> DEFINE q == Host(r.store, 0)
<1>4. Effect(store, q) /\ q.store = r.store /\ Gets(q) = held
    BY <1>3 DEF Host, Effect, Quiet, Gets
<1> HIDE DEF q
<1>5. /\ OwnInv'
      /\ \A d : KindAt(store, d) \in Contexts => KindAt(store', d) = KindAt(store, d)
    BY <1>1, <1>4, EffectKeeps DEF HostInv
<1>6. WaitInv'
    BY <1>1, <1>2, NotAsked DEF WaitInv, InGuest
<1>7. DartInv'
    BY <1>1, <1>5, DartKept DEF HostInv
<1> QED
    BY <1>5, <1>6, <1>7 DEF HostInv

(* A runtime that is made is one of a context, or stray. *)
LEMMA MakeKeeps ==
    ASSUME TypeInv, DartInv, thread # "stopped", UNCHANGED <<managing, job>>,
           \A d : KindAt(store, d) \in Contexts => KindAt(store', d) = KindAt(store, d),
           NEW key, key[1] \in Contexts,
           Make(key) \/ UNCHANGED <<runtimes, stray>>
    PROVE  DartInv'
<1>1. ASSUME NEW k \in runtimes' \ stray'
      PROVE  managing /\ KindAt(store, k[2]) = k[1] /\ k[1] \in Contexts
    <2>1. CASE k \in runtimes \ stray
        BY <2>1 DEF DartInv, RuntimesAreOfContexts, TypeInv
    <2>2. CASE k \notin runtimes \ stray
        BY <1>1, <2>2 DEF Make
    <2> QED
        BY <2>1, <2>2
<1> QED
    BY <1>1 DEF DartInv, RuntimesAreOfContexts

LEMMA CreateAnswerStep ==
    ASSUME TypeInv, HostInv, NEW made \in BOOLEAN, CreateAnswer(made)
    PROVE  HostInv'
<1> DEFINE key == <<KindAt(store, waiting.desc), waiting.desc>>
<1>1. /\ thread # "stopped" /\ waiting # NoWait /\ waiting' = NoWait
      /\ UNCHANGED <<thread, managing, job, args, held, store>>
    BY AnswerFrame DEF CreateAnswer, Host
<1>2. Make(key) \/ UNCHANGED <<runtimes, stray>>
    BY DEF CreateAnswer
<1>3. OwnInv' /\ WaitInv'
    BY <1>1 DEF HostInv, OwnInv, StoreOwned, ArgsInv, WaitInv
<1>4. key[1] \in Contexts
    BY <1>1 DEF CreateAnswer, HostInv, WaitInv
<1> HIDE DEF key
<1>5. DartInv'
    BY <1>1, <1>2, <1>4, MakeKeeps DEF HostInv
<1> QED
    BY <1>3, <1>5 DEF HostInv

LEMMA AskAnswerStep ==
    ASSUME TypeInv, HostInv, NEW success \in BOOLEAN, AskAnswer(success)
    PROVE  HostInv'
<1> DEFINE r == JsAnswered(store, waiting.fn, success)
           key == <<ContextOf(waiting.fn), waiting.desc>>
<1>1. waiting.fn \in JsRequests /\ waiting' = NoWait /\ DartAnswers(r, Gets(r))
    BY DEF AskAnswer, Gets
<1>2. Make(key) \/ UNCHANGED <<runtimes, stray>>
    BY DEF AskAnswer
<1>3. /\ thread # "stopped" /\ waiting # NoWait
      /\ UNCHANGED <<thread, managing, job, args>> /\ store' = r.store /\ held' = Gets(r)
    BY <1>1, AnswerFrame, NotAsked
<1>4. Effect(store, r)
    BY JsEffect DEF HostInv, OwnInv
<1> HIDE DEF r
<1>5. /\ OwnInv'
      /\ \A d : KindAt(store, d) \in Contexts => KindAt(store', d) = KindAt(store, d)
    BY <1>3, <1>4, EffectKeeps DEF HostInv
<1>6. WaitInv'
    BY <1>1 DEF WaitInv
<1>7. key[1] \in Contexts
    BY DEF ContextOf, Contexts
<1> HIDE DEF key
<1>8. DartInv'
    BY <1>2, <1>3, <1>5, <1>7, MakeKeeps DEF HostInv
<1> QED
    BY <1>5, <1>6, <1>8 DEF HostInv

LEMMA DestroyAnswerStep ==
    ASSUME TypeInv, HostInv, DestroyAnswer
    PROVE  HostInv'
<1> DEFINE d == waiting.desc
           gone == <<KindAt(store, d), d>>
<1>1. /\ thread # "stopped" /\ waiting # NoWait /\ waiting' = NoWait
      /\ UNCHANGED <<thread, managing, job, args>>
      /\ store' = Remove(store, d) /\ held' = held \ {d}
    BY AnswerFrame DEF DestroyAnswer, Host
<1>2. runtimes' = runtimes \ {gone} /\ stray' = stray \ {gone} /\ waiting.fn = "destroy"
    BY DEF DestroyAnswer
<1>3. d \in held
    BY <1>1, <1>2 DEF HostInv, WaitInv
<1> HIDE DEF d
<1>4. Taken(store, store', {d}) /\ d \notin args
    BY <1>1, <1>3, RemoveIsTaken DEF HostInv, OwnInv, StoreOwned
<1>5. OwnInv'
    BY <1>1, <1>4 DEF HostInv, OwnInv, StoreOwned, ArgsInv, Taken
<1>6. WaitInv'
    BY <1>1 DEF WaitInv
<1>7. ASSUME NEW key \in runtimes' \ stray' PROVE managing /\ KindAt(store', key[2]) = key[1]
    <2>1. key \in runtimes \ stray /\ key # <<KindAt(store, d), d>>
        BY <1>2
    <2>2. key = <<key[1], key[2]>> /\ key[1] \in Contexts
        BY <2>1 DEF TypeInv
    <2>3. managing /\ KindAt(store, key[2]) = key[1]
        BY <1>1, <2>1 DEF HostInv, DartInv, RuntimesAreOfContexts
    <2>4. key[2] # d
        BY <2>1, <2>2, <2>3
    <2>5. key[2] \in Live(store)
        BY <2>2, <2>3 DEF KindAt, Contexts
    <2> QED
        BY <1>4, <2>3, <2>4, <2>5 DEF Taken
<1>8. DartInv'
    BY <1>1, <1>7 DEF HostInv, DartInv, RuntimesAreOfContexts
<1> QED
    BY <1>5, <1>6, <1>8 DEF HostInv

(* Calls enter and leave the guest. *)
LEMMA RunOnHostStep ==
    ASSUME TypeInv, HostInv, RunOnHost
    PROVE  HostInv'
<1>1. /\ thread = "idle" /\ thread' = "idle" /\ queue # <<>>
      /\ job' = [job EXCEPT ![Head(queue)] = "none"]
      /\ UNCHANGED <<runtimes, stray, managing, args, waiting>>
    BY DEF RunOnHost, Reply, dartVars
<1>2. waiting = NoWait /\ args = {}
    BY <1>1 DEF HostInv, WaitInv, InGuest, OwnInv, StoreOwned
<1>3. WaitInv'
    BY <1>1, <1>2 DEF WaitInv
<1>5. \A c \in Calls : job'[c] = "dispose" => job[c] = "dispose"
    BY <1>1 DEF TypeInv
<1>4. CASE job[Head(queue)] = "dispose"
    <2>1. store' = EmptyStore /\ held' = {}
        BY <1>4 DEF RunOnHost
    <2>2. OwnInv'
        BY <1>1, <1>2, <2>1, EmptyIsStore DEF OwnInv, StoreOwned, ArgsInv, Args
    <2>3. Head(queue) \in Calls
        BY <1>1 DEF TypeInv
    <2>4. ~ managing
        BY <1>4, <2>3 DEF HostInv, DartInv
    <2>5. DartInv'
        BY <1>1, <1>5, <2>4 DEF HostInv, DartInv, RuntimesAreOfContexts
    <2> QED
        BY <1>3, <2>2, <2>5 DEF HostInv
<1>6. CASE job[Head(queue)] # "dispose"
    <2>1. UNCHANGED <<store, held>>
        BY <1>6 DEF RunOnHost
    <2>2. DartInv'
        BY <1>1, <1>5, <2>1, DartKept DEF HostInv
    <2> QED
        BY <1>1, <1>3, <2>1, <2>2 DEF HostInv, OwnInv, StoreOwned, ArgsInv
<1> QED
    BY <1>4, <1>6

LEMMA EnterStep ==
    ASSUME TypeInv, HostInv, NEW n \in 0 .. 3, Enter(n)
    PROVE  HostInv'
<1>1. /\ thread = "idle" /\ thread' = "running"
      /\ store' = StoreArgs(store, n) /\ args' = store.next .. store.next + n - 1
      /\ UNCHANGED <<runtimes, stray, managing, job, held, waiting>>
    BY DEF Enter, dartVars, callVars
<1>2. IsStore(store) /\ Live(store) = held /\ waiting = NoWait
    BY <1>1 DEF HostInv, WaitInv, InGuest, OwnInv, StoreOwned
<1>3. Added(store, store', args') /\ held \cap args' = {}
    BY <1>1, <1>2, StoringArgs
<1>4. Args(args')
    <2>1. \A m \in Int : /\ m .. m + 0 - 1 = {} /\ m .. m + 1 - 1 = {m}
                         /\ m .. m + 2 - 1 = {m, m + 1}
                         /\ m .. m + 3 - 1 = {m, m + 1, m + 2}
        OBVIOUS
    <2>2. n = 0 \/ n = 1 \/ n = 2 \/ n = 3
        OBVIOUS
    <2>3. store.next \in Int
        BY <1>2 DEF IsStore, WellNumbered
    <2> QED
        BY <1>1, <2>1, <2>2, <2>3 DEF Args
<1>5. OwnInv'
    BY <1>1, <1>2, <1>3, <1>4 DEF OwnInv, StoreOwned, ArgsInv, Added, Contexts
<1>6. WaitInv'
    BY <1>1, <1>2 DEF WaitInv
<1>7. DartInv'
    <2>1. \A d : KindAt(store, d) \in Contexts => d \in Live(store)
        BY DEF KindAt, Contexts
    <2> QED
        BY <1>1, <1>3, <2>1, DartKept DEF HostInv, Added
<1> QED
    BY <1>5, <1>6, <1>7 DEF HostInv

(* What a call takes out of the store is no context. *)
LEMMA TakenKeepsContexts ==
    ASSUME NEW S, Taken(store, store', S), \A d \in S : KindAt(store, d) \notin Contexts
    PROVE  \A d : KindAt(store, d) \in Contexts => KindAt(store', d) = KindAt(store, d)
<1>1. \A d : KindAt(store, d) \in Contexts => d \in Live(store) \ S
    BY DEF KindAt, Contexts
<1> QED
    BY <1>1 DEF Taken

LEMMA LeaveStep ==
    ASSUME TypeInv, HostInv, NEW res \in Returns, Leave(res)
    PROVE  HostInv'
<1>1. /\ thread = "running" /\ thread' # "stopped" /\ thread' # "running"
      /\ waiting = NoWait /\ args' = {} /\ store' = DropArgs(store)
      /\ UNCHANGED <<runtimes, stray, managing, job, held, waiting>>
    BY DEF Leave, dartVars, callVars
<1>2. IsStore(store) /\ Args(args) /\ Live(store) = held \cup args /\ held \cap args = {}
    BY DEF HostInv, OwnInv, ArgsInv, StoreOwned
<1>3. Taken(store, store', args)
    BY <1>1, <1>2, DropArgsTakes
<1>4. OwnInv'
    BY <1>1, <1>2, <1>3 DEF OwnInv, StoreOwned, ArgsInv, Args, Taken
<1>5. WaitInv'
    BY <1>1 DEF WaitInv
<1>6. DartInv'
    BY <1>1, <1>3, TakenKeepsContexts, DartKept DEF HostInv, OwnInv, ArgsInv
<1> QED
    BY <1>4, <1>5, <1>6 DEF HostInv

LEMMA ReadResultStep ==
    ASSUME TypeInv, HostInv, ReadResult
    PROVE  HostInv'
<1>1. /\ thread \in {"freeing", "reading"} /\ thread' = "idle" /\ waiting = NoWait
      /\ job' = [job EXCEPT ![Head(queue)] = "none"]
      /\ UNCHANGED <<runtimes, stray, managing, args, waiting>>
    BY DEF ReadResult, Reply, dartVars
<1>2. IsStore(store) /\ args = {} /\ Live(store) = held
    BY <1>1 DEF HostInv, OwnInv, StoreOwned
<1>3. WaitInv'
    BY <1>1 DEF WaitInv
<1>4. \A c \in Calls : job'[c] = "dispose" => job[c] = "dispose"
    BY <1>1 DEF TypeInv
<1>5. CASE UNCHANGED <<store, held>>
    <2>1. DartInv'
        BY <1>1, <1>4, <1>5, DartKept DEF HostInv
    <2> QED
        BY <1>1, <1>2, <1>3, <1>5, <2>1 DEF HostInv, OwnInv, StoreOwned, ArgsInv
<1>6. ASSUME NEW d, IsRequest(store, d), store' = Remove(store, d), held' = held \ {d}
      PROVE  HostInv'
    <2>1. Taken(store, store', {d}) /\ KindAt(store, d) \notin Contexts
        BY <1>2, <1>6, RemoveIsTaken DEF IsRequest, Contexts
    <2>2. OwnInv'
        BY <1>1, <1>2, <1>6, <2>1 DEF OwnInv, StoreOwned, ArgsInv, Args, Taken
    <2>3. DartInv'
        BY <1>1, <1>4, <2>1, TakenKeepsContexts, DartKept DEF HostInv
    <2> QED
        BY <1>3, <2>2, <2>3 DEF HostInv
<1> QED
    BY <1>5, <1>6 DEF ReadResult

(* Steps that leave the store and the guest alone. *)
LEMMA OtherSteps ==
    ASSUME TypeInv, HostInv,
           EnterStart \/ Opened \/ DropHandle
             \/ (\E c \in Calls : SendJob(c) \/ Settle(c) \/ (\E m \in Methods[c] : Request(c, m)))
    PROVE  HostInv'
<1>1. /\ UNCHANGED <<store, held, args, waiting>>
      /\ \/ thread' = thread
         \/ /\ waiting = NoWait /\ thread \notin {"running", "stopped"}
            /\ thread' # "running"
    BY DEF EnterStart, Opened, DropHandle, SendJob, Settle, Request, engineVars, guestVars
<1>2. OwnInv' /\ WaitInv'
    BY <1>1 DEF HostInv, OwnInv, StoreOwned, ArgsInv, WaitInv, InGuest
<1>3. CASE UNCHANGED <<runtimes, stray, managing, job>>
    BY <1>1, <1>2, <1>3 DEF HostInv, DartInv, RuntimesAreOfContexts
<1>4. ASSUME NEW c \in Calls, Settle(c) PROVE DartInv'
    BY <1>1, <1>4 DEF Settle, HostInv, DartInv, RuntimesAreOfContexts, TypeInv, dartVars, engineVars
<1>5. ASSUME NEW c \in Calls, NEW m \in Methods[c], Request(c, m) PROVE DartInv'
    BY <1>1, <1>5 DEF Request, HostInv, DartInv, RuntimesAreOfContexts, TypeInv, dartVars, engineVars
<1> QED
    BY <1>2, <1>3, <1>4, <1>5
    DEF HostInv, EnterStart, Opened, DropHandle, SendJob, dartVars, callVars

-----------------------------------------------------------------------------
(* Types, and the calls as tasks of a pool.                                *)

PoolStep == Pool!PoolNext \/ UNCHANGED outcome

LEMMA CallsAlone ==
    ASSUME CallInv, UNCHANGED <<thread, queue, outcome>>
    PROVE  CallInv' /\ PoolStep
BY DEF CallInv, PoolStep

LEMMA ImportTypes ==
    ASSUME TypeInv, UNCHANGED <<engineVars, dartVars, callVars>>,
           left' = left \/ (left > 0 /\ left' = left - 1),
           waiting' \in Waits \cup {NoWait}
    PROVE  TypeInv' /\ UNCHANGED <<thread, queue, outcome>>
BY EngineAssumption DEF TypeInv, engineVars, dartVars, callVars

LEMMA ImportStep ==
    ASSUME Inv, Import
    PROVE  TypeInv' /\ HostInv' /\ UNCHANGED <<thread, queue, outcome>>
<1>0. TypeInv /\ HostInv /\ OwnInv /\ IsStore(store)
    BY DEF Inv, HostInv, OwnInv
<1>1. CASE ImportNet \/ ImportCanvas \/ ImportDefaults
    <2>1. PICK r : Imported(r)
        BY <1>0, <1>1, AnsweredAtOnce
    <2>2. /\ UNCHANGED <<engineVars, dartVars, callVars>> /\ waiting' = waiting
          /\ left > 0 /\ left' = left - 1
        BY <2>1 DEF Imported, Rest, MayImport
    <2>3. waiting' \in Waits \cup {NoWait}
        BY <1>0, <2>2 DEF TypeInv
    <2> QED
        BY <1>0, <2>1, <2>2, <2>3, ImportedStep, ImportTypes
<1>2. CASE Send \/ SendAll \/ (\E fn \in Asking : AskContext(fn))
    <2>1. Waited
        BY <1>0, <1>2, StartsToWait
    <2>2. /\ UNCHANGED <<engineVars, dartVars, callVars>>
          /\ waiting' \in Waits \cup {NoWait} /\ left > 0 /\ left' = left - 1
        BY <2>1 DEF Waited, MayImport
    <2> QED
        BY <1>0, <2>1, <2>2, WaitedStep, ImportTypes
<1>3. ASSUME NEW kind \in Contexts, CreateContext(kind)
      PROVE  TypeInv' /\ HostInv' /\ UNCHANGED <<thread, queue, outcome>>
    <2>1. /\ UNCHANGED <<engineVars, dartVars, callVars>> /\ left > 0 /\ left' = left - 1
          /\ waiting' = [fn |-> "create", desc |-> store.next, rest |-> <<>>]
        BY <1>3 DEF CreateContext, ContextCreate, Alloc, Host, Wait, MayImport
    <2>2. waiting' \in Waits
        BY <1>0, <2>1 DEF Waits, IsStore, WellNumbered
    <2> QED
        BY <1>0, <1>3, <2>1, <2>2, CreateContextStep, ImportTypes
<1> QED
    BY <1>1, <1>2, <1>3 DEF Import

LEMMA DestroyTypes ==
    ASSUME Inv, NEW d \in held, Destroy(d)
    PROVE  TypeInv' /\ UNCHANGED <<thread, queue, outcome>>
<1>1. UNCHANGED <<engineVars, dartVars, callVars>> /\ left' = left
    BY DEF Destroy
<1>2. waiting' = [fn |-> "destroy", desc |-> d, rest |-> <<>>] \/ waiting' = waiting
    BY DEF Destroy, Wait
<1>3. d \in Int
    BY DEF Inv, OwnInv, StoreOwned, IsStore, WellNumbered
<1>4. waiting \in Waits \cup {NoWait} /\ <<>> \in Seq(Int)
    BY DEF Inv, TypeInv
<1>5. [fn |-> "destroy", desc |-> d, rest |-> <<>>] \in Waits
    BY <1>3, <1>4 DEF Waits
<1>6. waiting' \in Waits \cup {NoWait}
    BY <1>2, <1>4, <1>5
<1> QED
    BY <1>1, <1>6, ImportTypes DEF Inv

LEMMA AnswerTypes ==
    ASSUME TypeInv, NEW r, NEW h, DartAnswers(r, h),
           waiting' \in Waits \cup {NoWait}, runtimes' \subseteq Contexts \X Int,
           stray' \subseteq runtimes'
    PROVE  TypeInv' /\ UNCHANGED <<thread, queue, outcome>>
BY DEF TypeInv, DartAnswers, engineVars, callVars

LEMMA DartAnswerStep ==
    ASSUME Inv, DartAnswer
    PROVE  TypeInv' /\ HostInv' /\ UNCHANGED <<thread, queue, outcome>>
<1>0. TypeInv /\ HostInv /\ runtimes \subseteq Contexts \X Int /\ stray \subseteq runtimes
    BY DEF Inv, HostInv, TypeInv
<1>1. waiting.fn # "none" => waiting \in Waits
    BY <1>0, NoWaitIsNone DEF TypeInv
<1>2. ASSUME NEW body \in Bodies, NetAnswer(body)
      PROVE  TypeInv' /\ HostInv' /\ UNCHANGED <<thread, queue, outcome>>
    <2> DEFINE next == IF waiting.rest = <<>> THEN -1 ELSE Head(waiting.rest)
    <2>1. /\ DartAnswers(Answered(store, waiting.desc, body), held)
          /\ runtimes' = runtimes /\ stray' = stray
          /\ \/ waiting' = NoWait
             \/ /\ waiting.rest # <<>>
                /\ waiting' = [fn |-> "send", desc |-> next, rest |-> Tail(waiting.rest)]
        BY <1>2 DEF NetAnswer, Wait
    <2>2. waiting.rest \in Seq(Int)
        BY <1>1, <1>2 DEF NetAnswer, Waits
    <2>3. next \in Int /\ (waiting.rest # <<>> => Tail(waiting.rest) \in Seq(Int))
        BY <2>2
    <2> HIDE DEF next
    <2>4. waiting.rest # <<>> =>
            [fn |-> "send", desc |-> next, rest |-> Tail(waiting.rest)] \in Waits
        BY <2>3 DEF Waits
    <2>5. waiting' \in Waits \cup {NoWait}
        BY <2>1, <2>4
    <2> QED
        BY <1>0, <1>2, <2>1, <2>5, AnswerTypes, NetAnswerStep
<1>3. ASSUME NEW ok \in BOOLEAN, CreateAnswer(ok)
      PROVE  TypeInv' /\ HostInv' /\ UNCHANGED <<thread, queue, outcome>>
    <2>1. KindAt(store, waiting.desc) \in Contexts /\ waiting.desc \in Int
        BY <1>0, <1>1, <1>3, NoWaitIsNone DEF CreateAnswer, HostInv, WaitInv, Waits
    <2>2. /\ DartAnswers(Host(store, 0), held) /\ waiting' = NoWait
          /\ \/ UNCHANGED <<runtimes, stray>>
             \/ Make(<<KindAt(store, waiting.desc), waiting.desc>>)
        BY <1>3 DEF CreateAnswer
    <2>4. \/ UNCHANGED <<runtimes, stray>>
          \/ /\ runtimes' = runtimes \cup {<<KindAt(store, waiting.desc), waiting.desc>>}
             /\ stray' \subseteq stray \cup {<<KindAt(store, waiting.desc), waiting.desc>>}
        BY <2>2 DEF Make
    <2>3. runtimes' \subseteq Contexts \X Int /\ stray' \subseteq runtimes'
        BY <1>0, <2>1, <2>4
    <2> QED
        BY <1>0, <1>3, <2>2, <2>3, AnswerTypes, CreateAnswerStep
<1>4. ASSUME NEW ok \in BOOLEAN, AskAnswer(ok)
      PROVE  TypeInv' /\ HostInv' /\ UNCHANGED <<thread, queue, outcome>>
    <2>1. ContextOf(waiting.fn) \in Contexts /\ waiting.desc \in Int
        BY <1>1, <1>4, NotAsked DEF AskAnswer, ContextOf, Contexts, Waits
    <2>2. DartAnswers(JsAnswered(store, waiting.fn, ok), Gets(JsAnswered(store, waiting.fn, ok)))
        BY <1>4 DEF AskAnswer, Gets
    <2>3. /\ waiting' = NoWait
          /\ \/ UNCHANGED <<runtimes, stray>>
             \/ Make(<<ContextOf(waiting.fn), waiting.desc>>)
        BY <1>4 DEF AskAnswer
    <2>5. \/ UNCHANGED <<runtimes, stray>>
          \/ /\ runtimes' = runtimes \cup {<<ContextOf(waiting.fn), waiting.desc>>}
             /\ stray' \subseteq stray \cup {<<ContextOf(waiting.fn), waiting.desc>>}
        BY <2>3 DEF Make
    <2>4. runtimes' \subseteq Contexts \X Int /\ stray' \subseteq runtimes'
        BY <1>0, <2>1, <2>5
    <2> QED
        BY <1>0, <1>4, <2>2, <2>3, <2>4, AnswerTypes, AskAnswerStep
<1>5. ASSUME DestroyAnswer
      PROVE  TypeInv' /\ HostInv' /\ UNCHANGED <<thread, queue, outcome>>
    <2>1. /\ DartAnswers(Host(Remove(store, waiting.desc), 0), held \ {waiting.desc})
          /\ waiting' = NoWait
          /\ runtimes' \subseteq Contexts \X Int /\ stray' \subseteq runtimes'
        BY <1>0, <1>5 DEF DestroyAnswer
    <2> QED
        BY <1>0, <1>5, <2>1, AnswerTypes, DestroyAnswerStep
<1> QED
    BY <1>2, <1>3, <1>4, <1>5 DEF DartAnswer

LEMMA UnwindCalls ==
    ASSUME TypeInv, CallInv, Unwind
    PROVE  TypeInv' /\ CallInv' /\ PoolStep
<1> DEFINE S == {c \in Calls : \E i \in DOMAIN queue : queue[i] = c}
<1>1. /\ thread' = "stopped" /\ result' = "none"
      /\ queue' = <<>> /\ left' = 0 /\ waiting' = NoWait
      /\ opened' = IF opened = "pending" THEN "failed" ELSE opened
      /\ UNCHANGED <<exports, handle, job, runtimes, stray, managing>>
      /\ outcome' = [c \in Calls |-> IF c \in S THEN "failed" ELSE outcome[c]]
    BY DEF Unwind, dartVars
<1>2. DOMAIN queue = 1 .. Len(queue) /\ \A t \in S : outcome[t] = "pending"
    BY DEF TypeInv, CallInv
<1> HIDE DEF S
<1>3. TypeInv'
    BY <1>1, EngineAssumption DEF TypeInv, Threads
<1>4. CallInv'
    BY <1>1 DEF CallInv
<1>5. CASE S = {}
    BY <1>1, <1>3, <1>4, <1>5 DEF TypeInv, PoolStep
<1>6. CASE S # {}
    <2>1. Pool!Fail(S) /\ S \in SUBSET Calls
        BY <1>1, <1>2, <1>6 DEF Pool!Fail, S
    <2> QED
        BY <1>3, <1>4, <2>1 DEF PoolStep, Pool!PoolNext
<1> QED
    BY <1>3, <1>4, <1>5, <1>6

LEMMA ReplyCalls ==
    ASSUME TypeInv, CallInv, queue # <<>>, waiting = NoWait,
           NEW answer \in {"done", "failed"}, Reply(Head(queue), answer)
    PROVE  TypeInv' /\ CallInv' /\ PoolStep
<1> DEFINE c == Head(queue)
<1>1. /\ outcome' = [outcome EXCEPT ![c] = answer] /\ queue' = Tail(queue)
      /\ job' = [job EXCEPT ![c] = "none"]
      /\ thread' = "idle" /\ result' = "none" /\ left' = 0
      /\ UNCHANGED <<exports, opened, handle, runtimes, stray, managing, waiting>>
    BY DEF Reply, dartVars
<1>2. /\ c \in Calls /\ c = queue[1] /\ Len(queue) >= 1 /\ Tail(queue) \in Seq(Calls)
      /\ Len(Tail(queue)) = Len(queue) - 1
      /\ \A i \in 1 .. Len(queue) - 1 : Tail(queue)[i] = queue[i + 1]
    BY DEF TypeInv
<1>3. outcome[c] = "pending"
    BY <1>2 DEF CallInv, TypeInv
<1> HIDE DEF c
<1>4. TypeInv'
    BY <1>1, <1>2, EngineAssumption DEF TypeInv, Threads
<1>5. CallInv'
    <2>1. \A i \in 1 .. Len(queue) - 1 : i + 1 \in 1 .. Len(queue) /\ i + 1 # 1 /\ queue[i + 1] # c
        BY <1>2 DEF CallInv, TypeInv
    <2>2. \A i \in 1 .. Len(queue') : outcome'[queue'[i]] = "pending"
        BY <1>1, <1>2, <2>1 DEF CallInv, TypeInv
    <2>3. \A i, j \in 1 .. Len(queue') : queue'[i] = queue'[j] => i = j
        <3>1. ASSUME NEW i \in 1 .. Len(queue) - 1, NEW j \in 1 .. Len(queue) - 1,
                     Tail(queue)[i] = Tail(queue)[j]
              PROVE  i = j
            <4>1. queue[i + 1] = queue[j + 1] /\ i + 1 = j + 1
                BY <1>2, <2>1, <3>1 DEF CallInv
            <4> QED BY <4>1
        <3> QED
            BY <1>1, <1>2, <3>1
    <2> QED
        BY <1>1, <2>2, <2>3 DEF CallInv
<1>6. PoolStep
    <2>1. CASE answer = "done"
        <3>1. Pool!Complete(c)
            BY <1>1, <1>3, <2>1 DEF Pool!Complete
        <3> QED
            BY <1>2, <3>1 DEF PoolStep, Pool!PoolNext
    <2>2. CASE answer = "failed"
        <3>1. Pool!Fail({c}) /\ {c} \in SUBSET Calls
            BY <1>1, <1>2, <1>3, <2>2 DEF Pool!Fail, TypeInv
        <3> QED
            BY <3>1 DEF PoolStep, Pool!PoolNext
    <2> QED
        BY <2>1, <2>2
<1> QED
    BY <1>4, <1>5, <1>6

LEMMA EnterCalls ==
    ASSUME TypeInv, CallInv,
           EnterStart \/ Opened \/ DropHandle \/ (\E n \in 0 .. 3 : Enter(n))
             \/ (\E r \in Returns : Leave(r))
    PROVE  TypeInv' /\ CallInv' /\ PoolStep
<1>1. /\ UNCHANGED <<exports, queue, job, outcome, waiting, runtimes, stray, managing>>
      /\ opened' \in {opened, "open"} /\ handle' \in {handle, FALSE}
      /\ thread' \in {thread, "start", "idle", "running", "freeing", "reading"}
      /\ result' \in {result} \cup Returns
    BY DEF EnterStart, Opened, DropHandle, Enter, Leave, guestVars, dartVars, callVars
<1>3. left' \in {left, MaxImports, 0}
    BY DEF EnterStart, Opened, DropHandle, Enter, Leave, guestVars
<1>4. TypeInv'
    <2>1. left' \in 0 .. MaxImports
        BY <1>3, EngineAssumption DEF TypeInv, Threads
    <2>2. /\ thread' \in Threads /\ result' \in Returns \cup {"none"}
          /\ opened' \in {"pending", "open", "failed"} /\ handle' \in BOOLEAN
        BY <1>1 DEF TypeInv, Threads
    <2> QED
        BY <1>1, <2>1, <2>2 DEF TypeInv
<1>2. thread' \in {"running", "freeing", "reading"} => queue # <<>>
    BY DEF EnterStart, Opened, DropHandle, Enter, Leave, CallInv
<1> QED
    BY <1>1, <1>2, <1>4 DEF CallInv, PoolStep

LEMMA CallerCalls ==
    ASSUME TypeInv, CallInv, NEW c \in Calls,
           SendJob(c) \/ Settle(c) \/ (\E m \in Methods[c] : Request(c, m))
    PROVE  TypeInv' /\ CallInv' /\ PoolStep
<1>1. CASE SendJob(c) /\ thread = "stopped"
    <2>1. /\ outcome[c] = "pending" /\ outcome' = [outcome EXCEPT ![c] = "failed"]
          /\ \A i \in DOMAIN queue : queue[i] # c
          /\ UNCHANGED <<exports, thread, result, opened, handle, job, left, runtimes, stray, managing, waiting, queue>>
        BY <1>1 DEF SendJob, Sending, guestVars, dartVars
    <2>2. TypeInv' /\ CallInv'
        BY <2>1 DEF TypeInv, CallInv
    <2>3. Pool!Fail({c}) /\ {c} \in SUBSET Calls
        BY <2>1 DEF Pool!Fail, TypeInv
    <2> QED
        BY <2>2, <2>3 DEF PoolStep, Pool!PoolNext
<1>2. CASE SendJob(c) /\ thread # "stopped"
    <2>1. /\ outcome[c] = "pending" /\ outcome' = outcome
          /\ \A i \in 1 .. Len(queue) : queue[i] # c
          /\ queue' = Append(queue, c)
          /\ UNCHANGED <<exports, thread, result, opened, handle, job, left, runtimes, stray, managing, waiting>>
        BY <1>2 DEF SendJob, Sending, guestVars, dartVars, TypeInv
    <2>2. /\ queue' \in Seq(Calls) /\ Len(queue') = Len(queue) + 1 /\ Len(queue) \in Nat
          /\ \A i \in 1 .. Len(queue) : queue'[i] = queue[i]
          /\ queue'[Len(queue) + 1] = c
        BY <2>1 DEF TypeInv
    <2>3. TypeInv'
        BY <2>1, <2>2 DEF TypeInv
    <2>4. \A i \in 1 .. Len(queue') : i \in 1 .. Len(queue) \/ i = Len(queue) + 1
        BY <2>2
    <2>5. CallInv'
        BY <2>1, <2>2, <2>4 DEF CallInv
    <2> QED
        BY <2>1, <2>3, <2>5 DEF PoolStep
<1>3. CASE Settle(c)
    <2>1. /\ outcome[c] \in {"done", "failed"} /\ outcome' = [outcome EXCEPT ![c] = "idle"]
          /\ job' = [job EXCEPT ![c] = "none"]
          /\ UNCHANGED <<exports, thread, result, opened, handle, queue, left, runtimes, stray, managing, waiting>>
        BY <1>3 DEF Settle, engineVars, guestVars, dartVars
    <2>2. TypeInv' /\ CallInv'
        BY <2>1 DEF TypeInv, CallInv
    <2>3. Pool!Settle(c)
        BY <2>1 DEF Pool!Settle, Pool!Outcomes
    <2> QED
        BY <2>2, <2>3 DEF PoolStep, Pool!PoolNext
<1>4. ASSUME NEW m \in Methods[c], Request(c, m) PROVE TypeInv' /\ CallInv' /\ PoolStep
    <2>1. /\ outcome[c] = "idle" /\ outcome' = [outcome EXCEPT ![c] = "pending"]
          /\ job' = [job EXCEPT ![c] = m]
          /\ UNCHANGED <<exports, thread, result, opened, handle, queue, left, waiting>>
          /\ (runtimes' = {} /\ stray' = {}) \/ (runtimes' = runtimes /\ stray' = stray)
          /\ managing' \in BOOLEAN
        BY <1>4 DEF Request, engineVars, guestVars, dartVars, TypeInv
    <2>4. m \in AllMethods
        BY EngineAssumption
    <2>5. job' \in [Calls -> AllMethods \cup {"none"}]
        BY <2>1, <2>4 DEF TypeInv
    <2>2. TypeInv' /\ CallInv'
        BY <2>1, <2>5 DEF TypeInv, CallInv
    <2>3. Pool!Submit(c)
        BY <2>1 DEF Pool!Submit
    <2> QED
        BY <2>2, <2>3 DEF PoolStep, Pool!PoolNext
<1> QED
    BY <1>1, <1>2, <1>3, <1>4

-----------------------------------------------------------------------------
(* The theorems.                                                           *)

LEMMA InitInv == Init => Inv /\ Pool!PoolInit
<1> SUFFICES ASSUME Init PROVE Inv /\ Pool!PoolInit
    OBVIOUS
<1>1. TypeInv
    BY EngineAssumption DEF Init, TypeInv, Threads
<1>2. OwnInv /\ WaitInv /\ DartInv
    BY EmptyIsStore
    DEF Init, OwnInv, StoreOwned, ArgsInv, Args, WaitInv, DartInv, RuntimesAreOfContexts
<1>3. CallInv /\ Pool!PoolInit
    BY DEF Init, CallInv, Pool!PoolInit
<1> QED
    BY <1>1, <1>2, <1>3 DEF Inv

LEMMA NextInv == Inv /\ [Next]_vars => Inv' /\ PoolStep
<1> SUFFICES ASSUME Inv, [Next]_vars PROVE Inv' /\ PoolStep
    OBVIOUS
<1>0. TypeInv /\ HostInv /\ CallInv
    BY DEF Inv, HostInv
<1>1. TypeInv' /\ HostInv' /\ CallInv' => Inv'
    BY DEF Inv, HostInv
<1>2. CASE Import
    BY <1>0, <1>1, <1>2, ImportStep, CallsAlone
<1>3. CASE DartAnswer
    BY <1>0, <1>1, <1>3, DartAnswerStep, CallsAlone
<1>4. CASE OpenFails \/ PanicWithoutMemory \/ (\E p \in Slices : PanicOnNumber(p))
               \/ PanicOnDecode \/ ThreadEnds
    BY <1>0, <1>1, <1>4, Unwinds, UnwindStep, UnwindCalls
<1>5. ASSUME NEW d \in held, Destroy(d) PROVE Inv' /\ PoolStep
    BY <1>0, <1>1, <1>5, DestroyStep, DestroyTypes, CallsAlone
<1>6. CASE EnterStart \/ Opened \/ DropHandle
    BY <1>0, <1>1, <1>6, OtherSteps, EnterCalls
<1>7. ASSUME NEW n \in 0 .. 3, Enter(n) PROVE Inv' /\ PoolStep
    BY <1>0, <1>1, <1>7, EnterStep, EnterCalls
<1>8. CASE RunOnHost
    <2>1. queue # <<>> /\ waiting = NoWait /\ Reply(Head(queue), "done")
        BY <1>0, <1>8 DEF RunOnHost, HostInv, WaitInv, InGuest
    <2> QED
        BY <1>0, <1>1, <1>8, <2>1, RunOnHostStep, ReplyCalls
<1>9. ASSUME NEW res \in Returns, Leave(res) PROVE Inv' /\ PoolStep
    BY <1>0, <1>1, <1>9, LeaveStep, EnterCalls
<1>12. CASE ReadResult
    <2> DEFINE a == Answer(job[Head(queue)], result)
    <2>1. queue # <<>> /\ waiting = NoWait /\ Reply(Head(queue), a)
        BY <1>0, <1>12 DEF ReadResult, CallInv
    <2>2. a \in {"done", "failed"}
        BY DEF Answer
    <2> HIDE DEF a
    <2> QED
        BY <1>0, <1>1, <1>12, <2>1, <2>2, ReadResultStep, ReplyCalls
<1>10. ASSUME NEW c \in Calls, SendJob(c) \/ Settle(c) \/ (\E m \in Methods[c] : Request(c, m))
       PROVE  Inv' /\ PoolStep
    BY <1>0, <1>1, <1>10, OtherSteps, CallerCalls
<1>11. CASE UNCHANGED vars
    BY <1>0, <1>11
    DEF vars, engineVars, guestVars, dartVars, callVars, Inv, TypeInv, OwnInv, StoreOwned, ArgsInv,
        WaitInv, InGuest, DartInv, RuntimesAreOfContexts, CallInv, PoolStep
<1> QED
    BY <1>2, <1>3, <1>4, <1>5, <1>6, <1>7, <1>8, <1>9, <1>10, <1>11, <1>12 DEF Next, Progress

(* Every reachable state of the engine satisfies the inductive invariant.  *)
THEOREM EngineInvariant == Spec => []Inv
<1> QED
    BY InitInv, NextInv, PTL DEF Spec

(* The engine's state has the types of the code's structures, and every    *)
(* descriptor in use is one that was given out (store.rs).                 *)
THEOREM EngineTypeCorrect == Spec => []EngineTypeOK
<1>1. Inv => EngineTypeOK
    BY DEF Inv, TypeInv, Threads, OwnInv, IsStore, EngineTypeOK, Waits, NoWait
<1> QED
    BY <1>1, EngineInvariant, PTL

(* Whatever the guest does and however its calls end, the store holds      *)
(* exactly what the guest holds and the arguments of the running call, and *)
(* the two are apart: no argument leaks and nothing is freed twice, even   *)
(* though descriptors are used again (interpreter.rs, store.rs).           *)
THEOREM StoreIsOwned == Spec => []StoreOwned
<1>1. Inv => StoreOwned
    BY DEF Inv, OwnInv
<1> QED
    BY <1>1, EngineInvariant, PTL

(* Whatever descriptors guests name to Dart, a runtime or webview made for *)
(* a context is gone when the context is, and none is left when the        *)
(* manager has been disposed (host_std.rs destroy, js_manager.dart).       *)
THEOREM RuntimesHaveContexts == Spec => []RuntimesAreOfContexts
<1>1. Inv => RuntimesAreOfContexts
    BY DEF Inv, DartInv
<1> QED
    BY <1>1, EngineInvariant, PTL

(* The engine implements the task pool: a call is pending until it is      *)
(* answered, is answered once, and when the thread ends exactly the calls  *)
(* it had accepted fail (api/aidoku_wasm.rs run).                          *)
THEOREM EngineImplementsPool == Spec => CallsAreTasks
<1>1. Init => Pool!PoolInit
    BY InitInv
<1>2. Inv /\ [Next]_vars => [Pool!PoolNext]_outcome
    BY NextInv DEF PoolStep
<1> QED
    BY <1>1, <1>2, EngineInvariant, PTL DEF Spec, CallsAreTasks, Pool!PoolSpec

=============================================================================
