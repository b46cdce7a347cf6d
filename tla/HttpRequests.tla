---------------------------- MODULE HttpRequests ----------------------------
(***************************************************************************)
(* Requests through the Rust HTTP client (api/rhttp), with the Dart side   *)
(* of the protocol (services/http/rhttp): a client is built from settings  *)
(* and shared; a request runs as a task on the Rust side that calls back   *)
(* into Dart for its cancellation token, for its response or error, and    *)
(* for name lookups, and waits for each callback; then it streams the body *)
(* and ends the stream.  Cancelling the request or the client drops the    *)
(* task wherever it stands.                                                *)
(*                                                                         *)
(* The messages of one task reach the isolate in the order posted.  The    *)
(* compatible client turns throw_on_status_code off, so any status is a    *)
(* response here.                                                          *)
(***************************************************************************)
EXTENDS Integers, Sequences

CONSTANTS Requests,
          Cancelable,    \* those that were given a CancelToken
          Settings,      \* settings a client may be built from
          MaxChunks      \* bound on the chunks of a body

VARIABLES client,   \* [is, timed, lookup, cancelled]
          asked,    \* what the caller of each request awaits, or got
          task,     \* where the task of each request stands
          token,    \* cancel() of each request: "quiet", "asked", "fired"
          known,    \* the requests whose token has reached Dart
          inbox,    \* messages of each task to the isolate
          size, sent, got   \* chunks of each body: in all, posted, received
vars == <<client, asked, task, token, known, inbox, size, sent, got>>
bodyVars == <<size, sent, got>>

-----------------------------------------------------------------------------
(* Settings *)

(* An address as a user may write it.  One with a dot and no colon, or     *)
(* without dot and bracket, gets the port 0; anything else is left alone,  *)
(* and an address parses when it has a port.                               *)
Addresses == {"v4", "v4:port", "v6", "[v6]", "[v6]:port", "::v4"}
DigestIp(a) == CASE a = "v4" -> "v4:port" [] a = "v6" -> "[v6]:port" [] OTHER -> a
Parses(a) == DigestIp(a) \in {"v4:port", "[v6]:port"}

AllSettings ==
    [proxies : SUBSET {"good", "bad"},
     timeouts : [{"timeout", "connect", "keep_alive", "ping"} -> {"none", "some", "negative"}],
     certificates : SUBSET {"good", "bad"},       \* roots and the client's own
     dns : {"platform", "static", "dynamic"},
     addresses : SUBSET Addresses]                \* fallback and overrides

ASSUME HttpAssumption == Settings \subseteq AllSettings /\ MaxChunks \in Nat

ProxiesOk(s) == "bad" \notin s.proxies
(* to_std refuses a negative duration. *)
TimeoutsOk(s) == \A t \in DOMAIN s.timeouts : s.timeouts[t] # "negative"
CertificatesOk(s) == "bad" \notin s.certificates
(* Dynamic addresses are looked at when they arrive. *)
AddressesOk(s) == s.dns = "static" => \A a \in s.addresses : Parses(a)

CreateClient(s) ==
    IF ProxiesOk(s) /\ TimeoutsOk(s) /\ CertificatesOk(s) /\ AddressesOk(s)
    THEN [is |-> "open", timed |-> s.timeouts["timeout"] = "some",
          lookup |-> s.dns = "dynamic", cancelled |-> FALSE]
    ELSE [is |-> "refused", timed |-> FALSE, lookup |-> FALSE, cancelled |-> FALSE]

(* A refused client is an exception; requests then go through Dart's own.  *)
RegisterClient(s) ==
    /\ client.is = "none"
    /\ client' = CreateClient(s)
    /\ UNCHANGED <<asked, task, token, known, inbox, bodyVars>>

-----------------------------------------------------------------------------
(* Dart's calls *)

(* requestInternalGeneric up to its first await. *)
Request(r) ==
    /\ client.is \in {"open", "closing", "disposed"} /\ asked[r] = "idle"
    /\ IF client.is = "disposed"
       THEN asked' = [asked EXCEPT ![r] = "failed"] /\ UNCHANGED task
       ELSE /\ asked' = [asked EXCEPT ![r] = IF r \in Cancelable THEN "token" ELSE "response"]
            /\ task' = [task EXCEPT ![r] = "posted"]
    /\ UNCHANGED <<client, token, known, inbox, bodyVars>>

(* cancel() waits until the token is there. *)
Cancel(r) ==
    /\ r \in Cancelable /\ asked[r] # "idle" /\ token[r] = "quiet"
    /\ token' = [token EXCEPT ![r] = "asked"]
    /\ UNCHANGED <<client, asked, task, known, inbox, bodyVars>>

CancelRequest(r) ==
    /\ token[r] = "asked" /\ r \in known
    /\ token' = [token EXCEPT ![r] = "fired"]
    /\ UNCHANGED <<client, asked, task, known, inbox, bodyVars>>

(* dispose: the running requests are cancelled, and only when that has     *)
(* been answered is the client marked as disposed.                         *)
Close ==
    /\ client.is = "open"
    /\ client' = [client EXCEPT !.is = "closing"]
    /\ UNCHANGED <<asked, task, token, known, inbox, bodyVars>>

CancelRunningRequests ==
    /\ client.is = "closing" /\ ~ client.cancelled
    /\ client' = [client EXCEPT !.cancelled = TRUE]
    /\ UNCHANGED <<asked, task, token, known, inbox, bodyVars>>

Disposed ==
    /\ client.is = "closing" /\ client.cancelled
    /\ client' = [client EXCEPT !.is = "disposed"]
    /\ UNCHANGED <<asked, task, token, known, inbox, bodyVars>>

(* The reader of a body may stop listening. *)
StopReading(r) ==
    /\ asked[r] = "body"
    /\ asked' = [asked EXCEPT ![r] = "left"]
    /\ UNCHANGED <<client, task, token, known, inbox, bodyVars>>

-----------------------------------------------------------------------------
(* The task *)

GoOn(r, to, messages) ==
    /\ task' = [task EXCEPT ![r] = to]
    /\ inbox' = [inbox EXCEPT ![r] = @ \o messages]
    /\ UNCHANGED <<client, asked, token, known, got>>

(* Until here nothing is under the select: the token is handed over first. *)
Begin(r) ==
    /\ task[r] = "posted"
    /\ IF r \in Cancelable THEN GoOn(r, "handing", <<"token">>) ELSE GoOn(r, "building", <<>>)
    /\ UNCHANGED <<size, sent>>

Selected == {"building", "resolving", "nowhere", "connecting", "responding", "reporting",
             "streaming"}

(* A branch of the select that wins drops the other: the sink goes with    *)
(* it, which ends the stream; nobody calls on_error.                       *)
Cancelled(r) ==
    /\ task[r] \in Selected
    /\ token[r] = "fired" \/ client.cancelled
    /\ GoOn(r, "over", <<"close">>)
    /\ UNCHANGED <<size, sent>>

OnError(r) == GoOn(r, "reporting", <<"error">>) /\ UNCHANGED <<size, sent>>

(* Bug: a malformed address returns without on_error. *)
BuildRequest_Silent(r) ==
    /\ task[r] = "building"
    /\ \/ GoOn(r, "over", <<"close">>)
       \/ IF client.lookup THEN GoOn(r, "resolving", <<"resolve">>) ELSE GoOn(r, "connecting", <<>>)
    /\ UNCHANGED <<size, sent>>

(* The address or a header is malformed, or the request goes out. *)
BuildRequest(r) ==
    /\ task[r] = "building"
    /\ \/ OnError(r)
       \/ /\ IF client.lookup THEN GoOn(r, "resolving", <<"resolve">>) ELSE GoOn(r, "connecting", <<>>)
          /\ UNCHANGED <<size, sent>>

(* A response, or an error of any kind (redirects, timeout, certificate,   *)
(* connection); without an address there is only the error.                *)
Execute(r) ==
    \/ task[r] \in {"connecting", "nowhere"} /\ OnError(r)
    \/ /\ task[r] = "connecting"
       /\ \E n \in 0 .. MaxChunks : size' = [size EXCEPT ![r] = n]
       /\ GoOn(r, "responding", <<"response">>)
       /\ UNCHANGED sent

(* Bug: a connection that breaks ends the stream without an error. *)
StreamBody_NoError(r) ==
    /\ task[r] = "streaming"
    /\ \/ /\ sent[r] < size[r] /\ asked[r] # "left"
          /\ sent' = [sent EXCEPT ![r] = @ + 1]
          /\ GoOn(r, "streaming", <<"chunk">>)
       \/ GoOn(r, "over", <<"close">>) /\ UNCHANGED sent
    /\ UNCHANGED size

(* A chunk, a failure, or the end.  Adding to a stream nobody listens to   *)
(* any more fails too.                                                     *)
StreamBody(r) ==
    /\ task[r] = "streaming"
    /\ \/ /\ sent[r] < size[r] /\ asked[r] # "left"
          /\ sent' = [sent EXCEPT ![r] = @ + 1]
          /\ GoOn(r, "streaming", <<"chunk">>)
       \/ sent[r] < size[r] /\ GoOn(r, "over", <<"broken", "close">>) /\ UNCHANGED sent
       \/ sent[r] = size[r] /\ GoOn(r, "over", <<"close">>) /\ UNCHANGED sent
    /\ UNCHANGED size

-----------------------------------------------------------------------------
(* The isolate takes the next message; a callback answers the task, if the *)
(* task is still there to be answered.                                     *)
Take(r, message) ==
    /\ inbox[r] # <<>> /\ Head(inbox[r]) = message
    /\ UNCHANGED <<client, token, size, sent>>

Answer(r, from, to, messages) ==
    /\ task' = IF task[r] = from THEN [task EXCEPT ![r] = to] ELSE task
    /\ inbox' = [inbox EXCEPT ![r] = Tail(@) \o (IF task[r] = from THEN messages ELSE <<>>)]

Become(r, from, to) == asked' = IF asked[r] = from THEN [asked EXCEPT ![r] = to] ELSE asked

TakeToken(r) ==
    /\ Take(r, "token")
    /\ known' = known \cup {r}
    /\ Become(r, "token", "response")
    /\ Answer(r, "handing", "building", <<>>)
    /\ UNCHANGED got

(* The resolver answers with addresses; those that do not parse are        *)
(* dropped, and none may be left.                                          *)
TakeLookup(r) ==
    /\ Take(r, "resolve")
    /\ \E ips \in {{}, {"v4"}, {"::v4"}} :
         Answer(r, "resolving", IF \E a \in ips : Parses(a) THEN "connecting" ELSE "nowhere", <<>>)
    /\ UNCHANGED <<asked, known, got>>

TakeResponse(r) ==
    /\ Take(r, "response")
    /\ Become(r, "response", "body")
    /\ Answer(r, "responding", "streaming", <<>>)
    /\ UNCHANGED <<known, got>>

TakeError(r) ==
    /\ Take(r, "error")
    /\ Become(r, "response", "failed")
    /\ Answer(r, "reporting", "over", <<"close">>)
    /\ UNCHANGED <<known, got>>

TakeChunk(r) ==
    /\ Take(r, "chunk")
    /\ got' = IF asked[r] = "body" THEN [got EXCEPT ![r] = @ + 1] ELSE got
    /\ inbox' = [inbox EXCEPT ![r] = Tail(@)]
    /\ UNCHANGED <<asked, task, known>>

TakeEnd(r) ==
    /\ \/ Take(r, "broken") /\ Become(r, "body", "failed")
       \/ Take(r, "close") /\ Become(r, "body", "ended")
    /\ inbox' = [inbox EXCEPT ![r] = Tail(@)]
    /\ UNCHANGED <<task, known, got>>

Deliver(r) ==
    \/ TakeToken(r) \/ TakeLookup(r) \/ TakeResponse(r)
    \/ TakeError(r) \/ TakeChunk(r) \/ TakeEnd(r)

-----------------------------------------------------------------------------
Init ==
    /\ client = [is |-> "none", timed |-> FALSE, lookup |-> FALSE, cancelled |-> FALSE]
    /\ asked = [r \in Requests |-> "idle"]
    /\ task = [r \in Requests |-> "none"]
    /\ token = [r \in Requests |-> "quiet"]
    /\ known = {}
    /\ inbox = [r \in Requests |-> <<>>]
    /\ size = [r \in Requests |-> 0] /\ sent = size /\ got = size

Run(r) == Begin(r) \/ BuildRequest(r) \/ Cancelled(r)
Network(r) == Execute(r) \/ StreamBody(r)

Next ==
    \/ \E s \in Settings : RegisterClient(s)
    \/ Close \/ CancelRunningRequests \/ Disposed
    \/ \E r \in Requests :
        \/ Request(r) \/ Cancel(r) \/ CancelRequest(r) \/ StopReading(r)
        \/ Run(r) \/ Network(r) \/ Deliver(r)

(* Tasks and isolates are scheduled.  The network is only known to answer, *)
(* be it with an error, when the client has a timeout, which covers the    *)
(* body too.                                                               *)
Spec ==
    /\ Init /\ [][Next]_vars
    /\ WF_vars(CancelRunningRequests) /\ WF_vars(Disposed)
    /\ \A r \in Requests :
        /\ WF_vars(Run(r)) /\ WF_vars(Deliver(r)) /\ WF_vars(CancelRequest(r))
        /\ WF_vars(client.timed /\ Network(r))

-----------------------------------------------------------------------------
(* Properties *)
Pending(r) == asked[r] \in {"token", "response", "body"}
Stopped(r) == token[r] = "fired" \/ client.cancelled

(* A body that ends without an error is whole, unless it was cancelled: a  *)
(* connection that breaks is an error of the stream and no end             *)
(* (make_http_request_receive_stream_inner in http.rs).                    *)
BodyIsWhole ==
    \A r \in Requests :
        /\ got[r] <= sent[r] /\ sent[r] <= size[r]
        /\ asked[r] = "ended" /\ ~ Stopped(r) => got[r] = size[r]

(* With a timeout every request is answered and every body ends, unless    *)
(* somebody cancels: each error on the way calls on_error or closes the    *)
(* stream, and no callback is waited for that does not come (http.rs).     *)
AnsweredUnlessCancelled ==
    \A r \in Requests : client.timed /\ Pending(r) ~> ~ Pending(r) \/ Stopped(r)

(* A request that is cancelled is answered too: RhttpCancelException is    *)
(* documented as "thrown when a request is canceled".  Violated.           *)
CancelledIsAnswered == \A r \in Requests : Pending(r) /\ Stopped(r) ~> ~ Pending(r)

=============================================================================
