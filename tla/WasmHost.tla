------------------------------ MODULE WasmHost ------------------------------
(***************************************************************************)
(* What the imports of a WASM source do to the host's store: each operator *)
(* takes the store and the arguments of the import and returns the store   *)
(* afterwards with the number the guest gets back.  Imports that only read *)
(* are left out, except where they convert what they read.                 *)
(*                                                                         *)
(* A guest hands over memory as (pointer, length); all that matters here   *)
(* is whether it can be read, so it is one of Slices.                      *)
(***************************************************************************)
EXTENDS DescriptorStore

Slices == {"good", "badtext", "outside", "negative"}

(* A negative offset reads as an empty buffer, so only a read past the end *)
(* of the memory and bytes that are not UTF-8 are errors ...               *)
BytesReadable(p)  == p # "outside"
StringReadable(p) == p \notin {"outside", "badtext"}
(* ... but a number read from an empty buffer panics (try_into().unwrap()) *)
WordReadPanics(p) == p = "negative"

-----------------------------------------------------------------------------
(* Values of the store. *)
Bytes(what) == [kind |-> "Bytes", data |-> what]     \* "plain" or "picture"
Object(kind) == [kind |-> kind]
Contexts == {"JsContext", "WebviewContext"}
NewNetRequest == [kind |-> "NetRequest", fields |-> {}, response |-> "none"]
Bodies == {"plain", "picture", "error"}              \* an error has no body

Values == {Bytes(w) : w \in {"plain", "picture"}}
     \cup {Object(k) : k \in {"HtmlDocRoot", "CanvasContext", "Image"} \cup Contexts}
     \cup [kind : {"NetRequest"}, fields : SUBSET {"url", "options"},
           response : {"none"} \cup Bodies]

Host(st, ret)  == [store |-> st, ret |-> ret]
Fails(st, ret) == Host(st, ret)
Alloc(st, v)   == Host(StoreValue(st, v), st.next)

-----------------------------------------------------------------------------
(* net *)
IsRequest(st, d) == KindAt(st, d) = "NetRequest"
Response(st, d) == IF IsRequest(st, d) THEN st.storage[d].response ELSE "none"
HasUrl(st, d) == IsRequest(st, d) /\ "url" \in st.storage[d].fields

NetInit(st) == Alloc(st, NewNetRequest)

SetField(st, d, f) ==
    IF IsRequest(st, d)
    THEN Host(SetAt(st, d, [st.storage[d] EXCEPT !.fields = @ \cup {f}]), 0)
    ELSE Fails(st, -1)

SetUrl(st, d, p) == IF StringReadable(p) THEN SetField(st, d, "url") ELSE Fails(st, -4)
(* p is the worse of the slices of the name and of the value. *)
SetHeader(st, d, p) == IF StringReadable(p) THEN SetField(st, d, "options") ELSE Fails(st, -2)
SetBody(st, d, p) == IF BytesReadable(p) THEN SetField(st, d, "options") ELSE Fails(st, -2)
SetTimeout(st, d) == SetField(st, d, "options")

(* send_one up to the Dart handler: 0 when the handler is called. *)
SendCheck(st, d) == IF ~ IsRequest(st, d) THEN -1 ELSE IF HasUrl(st, d) THEN 0 ELSE -9

(* ... and what it does with the answer; an error is kept like a response. *)
Answered(st, d, body) ==
    IF IsRequest(st, d)
    THEN Host(SetAt(st, d, [st.storage[d] EXCEPT !.response = body]),
              IF body = "error" THEN -3 ELSE 0)
    ELSE Fails(st, -1)

GetImage(st, d) ==
    IF Response(st, d) = "none" THEN Fails(st, -5)
    ELSE Alloc(st, Bytes(IF Response(st, d) = "picture" THEN "picture" ELSE "plain"))

GetUrl(st, d) == IF HasUrl(st, d) THEN Alloc(st, Bytes("plain")) ELSE Fails(st, -5)

(* The name is looked up in the response's headers; `found` says whether. *)
GetHeader(st, d, p, found) ==
    IF StringReadable(p) /\ Response(st, d) # "none" /\ found
    THEN Alloc(st, Bytes("plain")) ELSE Fails(st, -5)

NetHtml(st, d) ==
    IF Response(st, d) = "none" THEN Fails(st, -5) ELSE Alloc(st, Object("HtmlDocRoot"))

-----------------------------------------------------------------------------
(* canvas.  An image descriptor may be raw bytes: the first use decodes    *)
(* them and puts the decoded image in their place.                         *)
IsImage(st, d) ==
    \/ KindAt(st, d) = "Image"
    \/ KindAt(st, d) = "Bytes" /\ st.storage[d].data = "picture"

ResolveImage(st, d) == IF IsImage(st, d) THEN SetAt(st, d, Object("Image")) ELSE st

NewCanvas(st, positive) ==
    IF positive THEN Alloc(st, Object("CanvasContext")) ELSE Fails(st, -6)

(* draw_image and copy_image: the image is resolved before the context is  *)
(* looked at, so a failed draw converts it too.                            *)
DrawOrCopy(st, ctx, d) ==
    IF ~ IsImage(st, d) THEN Fails(st, -3)
    ELSE Host(ResolveImage(st, d), IF KindAt(st, ctx) = "CanvasContext" THEN 0 ELSE -1)

(* get_image_width and get_image_height. *)
ImageSize(st, d) == IF IsImage(st, d) THEN Host(ResolveImage(st, d), 0) ELSE Fails(st, -3)

(* Encoding to PNG may fail. *)
CanvasGetImage(st, ctx, encoded) ==
    IF KindAt(st, ctx) = "CanvasContext" /\ encoded
    THEN Alloc(st, Bytes("picture")) ELSE Fails(st, -1)

CanvasNewImage(st, p, decoded) ==
    IF BytesReadable(p) /\ decoded THEN Alloc(st, Object("Image")) ELSE Fails(st, -3)

ImageData(st, d, encoded) ==
    IF IsImage(st, d) /\ encoded
    THEN Alloc(ResolveImage(st, d), Bytes("picture"))
    ELSE Fails(ResolveImage(st, d), -3)

-----------------------------------------------------------------------------
(* js.  The descriptor is stored before Dart is told about the context,    *)
(* and given to the guest whatever Dart answers.                           *)
ContextCreate(st, kind) == Alloc(st, Object(kind))

(* Requests about a context that carry a string of the guest. *)
Scripts == {"context_eval", "context_eval_async", "context_get",
            "webview_eval", "webview_eval_async"}
PageRequests == {"webview_load", "webview_load_html"}
Silent == {"webview_set_rule_list", "webview_wait_for_load",
           "webview_add_user_script", "webview_delete_cookie"}
JsRequests == Scripts \cup PageRequests \cup Silent \cup {"webview_get_cookies"}
ReadsMemory(fn) == fn \notin {"webview_wait_for_load", "webview_get_cookies"}
ContextOf(fn) ==
    IF fn \in {"context_eval", "context_eval_async", "context_get"}
    THEN "JsContext" ELSE "WebviewContext"

(* What the guest gets once Dart has answered. *)
JsAnswered(st, fn, success) ==
    CASE fn \in Scripts       -> IF success THEN Alloc(st, Bytes("plain")) ELSE Fails(st, -1)
      [] fn \in PageRequests  -> Host(st, IF success THEN 0 ELSE -1)
      [] fn \in Silent        -> Host(st, 0)
      [] OTHER                -> Alloc(st, Bytes("plain"))   \* cookies, or an empty list

-----------------------------------------------------------------------------
(* defaults.  The settings are one map of the process that the other       *)
(* sources and Dart write too: what a key holds is left open.              *)
DefaultsGet(st, p, found) ==
    IF p # "negative" /\ StringReadable(p) /\ found
    THEN Alloc(st, Bytes("plain"))
    ELSE Fails(st, IF p # "negative" /\ StringReadable(p) THEN -2 ELSE -1)

=============================================================================
