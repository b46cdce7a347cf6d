------------------------ MODULE HttpRequests_proofs ------------------------
(***************************************************************************)
(* A proof that a body which ends without an error is whole, for any       *)
(* number of requests, any settings, and bodies of any length.             *)
(*                                                                         *)
(* The property speaks of what Dart has received; what makes it inductive  *)
(* is the order of the messages.  The invariant says for every place of a  *)
(* task what is still in its inbox (Shape), and counts: while a body is    *)
(* read, what was received and what is still in the inbox is what was sent *)
(* (Counts), and a close that no error precedes was posted after the last  *)
(* chunk, or by a cancellation.                                            *)
(***************************************************************************)
EXTENDS HttpRequests, SequenceTheorems, TLAPS

Messages == {"token", "resolve", "response", "error", "chunk", "broken", "close"}
Places == {"none", "posted", "handing", "over"} \cup Selected

Types ==
    /\ asked \in [Requests -> {"idle", "token", "response", "body", "ended", "failed", "left"}]
    /\ task \in [Requests -> Places]
    /\ token \in [Requests -> {"quiet", "asked", "fired"}]
    /\ inbox \in [Requests -> Seq(Messages)]
    /\ size \in [Requests -> Nat] /\ sent \in [Requests -> Nat] /\ got \in [Requests -> Nat]
    /\ client = [is |-> client.is, timed |-> client.timed, lookup |-> client.lookup,
                 cancelled |-> client.cancelled]
    /\ client.cancelled \in BOOLEAN
    /\ client.is = "none" => ~ client.cancelled

(* What the inbox of a request holds, by the place of its task.            *)
Shape(r) ==
    /\ task[r] \in {"none", "posted", "building", "nowhere", "connecting"} => inbox[r] = <<>>
    /\ task[r] = "handing" => inbox[r] = <<"token">>
    /\ task[r] = "resolving" => inbox[r] = <<"resolve">>
    /\ task[r] = "responding" => inbox[r] = <<"response">>
    /\ task[r] = "reporting" => inbox[r] = <<"error">>
    /\ task[r] = "streaming" => \A i \in 1 .. Len(inbox[r]) : inbox[r][i] = "chunk"

(* What the caller waits for agrees with the place of the task.  One that  *)
(* waits for a response from a task that is over was cancelled.            *)
Agrees(r) ==
    /\ asked[r] = "idle" => task[r] = "none"
    /\ asked[r] = "token" => task[r] \in {"posted", "handing"}
    /\ task[r] = "posted" => (asked[r] = "token" <=> r \in Cancelable)
    /\ asked[r] = "response" =>
         /\ task[r] \notin {"none", "handing", "streaming"}
         /\ task[r] = "over" => Stopped(r) /\ sent[r] = 0 /\ got[r] = 0
                                /\ \/ inbox[r] \in {<<>>, <<"close">>}
                                   \/ \E m \in {"resolve", "response", "error"} :
                                        inbox[r] = <<m, "close">>
    /\ asked[r] = "body" => task[r] \in {"streaming", "over"}
    /\ asked[r] = "ended" => task[r] = "over"

(* The rest of a body: chunks, then a close, or an error and a close.      *)
Closes(r) ==
    LET n == Len(inbox[r]) IN
    /\ n >= 1 /\ inbox[r][n] = "close"
    /\ \A i \in 1 .. n - 1 : inbox[r][i] = "chunk"
    /\ got[r] + (n - 1) = sent[r]
    /\ sent[r] = size[r] \/ Stopped(r)

Breaks(r) ==
    LET n == Len(inbox[r]) IN
    /\ n >= 2 /\ inbox[r][n] = "close" /\ inbox[r][n - 1] = "broken"
    /\ \A i \in 1 .. n - 2 : inbox[r][i] = "chunk"
    /\ got[r] + (n - 2) = sent[r]

Counts(r) ==
    /\ got[r] <= sent[r] /\ sent[r] <= size[r]
    /\ task[r] \notin {"streaming", "over"} => sent[r] = 0 /\ got[r] = 0
    /\ asked[r] = "body" /\ task[r] = "streaming" => got[r] + Len(inbox[r]) = sent[r]
    /\ asked[r] = "body" /\ task[r] = "over" => Closes(r) \/ Breaks(r)
    /\ asked[r] = "ended" /\ ~ Stopped(r) => got[r] = size[r]

ReqInv(r) == Shape(r) /\ Agrees(r) /\ Counts(r)
BodyInv == Types /\ \A r \in Requests : ReqInv(r)

-----------------------------------------------------------------------------
(* Lists of messages.                                                      *)
LEMMA Posting ==
    ASSUME NEW q \in Seq(Messages), NEW m \in Messages
    PROVE  /\ q \o <<m>> \in Seq(Messages) /\ Len(q \o <<m>>) = Len(q) + 1
           /\ \A i \in 1 .. Len(q) : (q \o <<m>>)[i] = q[i]
           /\ (q \o <<m>>)[Len(q) + 1] = m
OBVIOUS

LEMMA Taking ==
    ASSUME NEW q \in Seq(Messages), q # <<>>
    PROVE  /\ Tail(q) \in Seq(Messages) /\ Len(Tail(q)) = Len(q) - 1 /\ Len(q) \in Nat /\ Len(q) >= 1
           /\ Head(q) = q[1]
           /\ \A i \in 1 .. Len(q) - 1 : Tail(q)[i] = q[i + 1]
OBVIOUS

LEMMA Pair ==
    ASSUME NEW m \in Messages, NEW k \in Messages
    PROVE  /\ <<m>> \o <<k>> = <<m, k>>
           /\ Tail(<<m>>) = <<>> /\ Head(<<m>>) = m
           /\ Tail(<<m, k>>) = <<k>> /\ Head(<<m, k>>) = m
<1>1. <<m>> \o <<k>> \in Seq(Messages) /\ <<m, k>> \in Seq(Messages)
    OBVIOUS
<1>2. Len(<<m>> \o <<k>>) = 2 /\ Len(<<m, k>>) = 2
    OBVIOUS
<1>3. (<<m>> \o <<k>>)[1] = m /\ (<<m>> \o <<k>>)[2] = k
    OBVIOUS
<1>4. \A i \in 1 .. Len(<<m>> \o <<k>>) : (<<m>> \o <<k>>)[i] = <<m, k>>[i]
    BY <1>2, <1>3
<1>5. <<m>> \o <<k>> = <<m, k>>
    BY <1>1, <1>2, <1>4, SeqEqual
<1>6. Tail(<<m>>) = <<>> /\ Head(<<m>>) = m
    OBVIOUS
<1>7. Head(<<m, k>>) = m
    OBVIOUS
<1>8. Tail(<<m, k>>) = <<k>>
    <2>1. Tail(<<m, k>>) \in Seq(Messages) /\ <<k>> \in Seq(Messages)
        OBVIOUS
    <2>2. Len(Tail(<<m, k>>)) = 1 /\ Len(<<k>>) = 1 /\ Tail(<<m, k>>)[1] = k
        OBVIOUS
    <2>3. \A i \in 1 .. Len(Tail(<<m, k>>)) : Tail(<<m, k>>)[i] = <<k>>[i]
        BY <2>2
    <2> QED
        BY <2>1, <2>2, <2>3, SeqEqual
<1> QED
    BY <1>5, <1>6, <1>7, <1>8

(* A step of one request, which un-stops nothing, leaves the others alone. *)
Only(r) ==
    /\ \A s \in Requests : Stopped(s) => Stopped(s)'
    /\ \A s \in Requests \ {r} :
         /\ asked'[s] = asked[s] /\ task'[s] = task[s] /\ inbox'[s] = inbox[s]
         /\ size'[s] = size[s] /\ sent'[s] = sent[s] /\ got'[s] = got[s]

LEMMA Elsewhere ==
    ASSUME BodyInv, NEW r \in Requests, Types', Only(r), ReqInv(r)'
    PROVE  BodyInv'
<1>1. ASSUME NEW s \in Requests \ {r} PROVE ReqInv(s)'
    <2>1. Shape(s)' /\ Agrees(s)'
        BY DEF BodyInv, ReqInv, Only, Shape, Agrees
    <2>2. Closes(s) => Closes(s)'
        BY DEF Closes, Only
    <2>3. Breaks(s) => Breaks(s)'
        BY DEF Breaks, Only
    <2>4. Counts(s)'
        BY <2>2, <2>3 DEF BodyInv, ReqInv, Only, Counts
    <2> QED
        BY <2>1, <2>4 DEF ReqInv
<1> QED
    BY <1>1 DEF BodyInv

-----------------------------------------------------------------------------
(* The task.                                                               *)

(* What GoOn says of the request and of the others. *)
LEMMA Going ==
    ASSUME BodyInv, NEW r \in Requests, NEW to \in Places, NEW m \in Seq(Messages), GoOn(r, to, m)
    PROVE  /\ task'[r] = to /\ inbox'[r] = inbox[r] \o m
           /\ UNCHANGED <<client, asked, token, got>>
           /\ task' \in [Requests -> Places] /\ inbox' \in [Requests -> Seq(Messages)]
           /\ \A s \in Requests \ {r} : task'[s] = task[s] /\ inbox'[s] = inbox[s]
           /\ \A s \in Requests : Stopped(s) => Stopped(s)'
<1>1. /\ task' = [task EXCEPT ![r] = to]
      /\ inbox' = [inbox EXCEPT ![r] = inbox[r] \o m]
      /\ UNCHANGED <<client, asked, token, got>>
    BY DEF GoOn
<1>2. inbox[r] \o m \in Seq(Messages)
    BY DEF BodyInv, Types
<1> QED
    BY <1>1, <1>2 DEF BodyInv, Types, Stopped

LEMMA Single ==
    /\ <<>> \in Seq(Messages) /\ <<"broken", "close">> \in Seq(Messages)
    /\ \A m \in Messages : <<m>> \in Seq(Messages)
    /\ <<"token">> \in Seq(Messages) /\ <<"resolve">> \in Seq(Messages)
    /\ <<"response">> \in Seq(Messages) /\ <<"error">> \in Seq(Messages)
    /\ <<"chunk">> \in Seq(Messages) /\ <<"close">> \in Seq(Messages)
<1>1. "broken" \in Messages /\ "close" \in Messages
    BY DEF Messages
<1>2. \A m \in Messages : <<m>> \in Seq(Messages)
    OBVIOUS
<1>3. \A m, k \in Messages : <<m, k>> \in Seq(Messages)
    OBVIOUS
<1>4. <<>> \in Seq(Messages)
    OBVIOUS
<1>5. {"token", "resolve", "response", "error", "chunk"} \subseteq Messages
    BY DEF Messages
<1> QED
    BY <1>1, <1>2, <1>3, <1>4, <1>5

(* Steps before the body: the inbox was empty. *)
LEMMA QuietStep ==
    ASSUME BodyInv, NEW r \in Requests, NEW to, NEW q \in Seq(Messages),
           inbox[r] = <<>>, GoOn(r, to, q), UNCHANGED sent,
           \/ task[r] = "posted" /\ asked[r] = "token" /\ to = "handing" /\ q = <<"token">>
              /\ UNCHANGED size
           \/ task[r] = "posted" /\ asked[r] # "token" /\ to = "building" /\ q = <<>>
              /\ UNCHANGED size
           \/ task[r] = "building" /\ UNCHANGED size
              /\ (\/ to = "resolving" /\ q = <<"resolve">>
                  \/ to = "connecting" /\ q = <<>>)
           \/ task[r] \in {"building", "connecting", "nowhere"} /\ UNCHANGED size
              /\ to = "reporting" /\ q = <<"error">>
           \/ task[r] = "connecting" /\ to = "responding" /\ q = <<"response">>
              /\ (\E n \in Nat : size' = [size EXCEPT ![r] = n])
    PROVE  BodyInv'
<1>1. to \in Places /\ <<>> \o q = q
    BY DEF Places, Selected
<1>2. /\ task'[r] = to /\ inbox'[r] = q
      /\ UNCHANGED <<client, asked, token, got, sent>>
      /\ task' \in [Requests -> Places] /\ inbox' \in [Requests -> Seq(Messages)]
      /\ \A s \in Requests \ {r} : task'[s] = task[s] /\ inbox'[s] = inbox[s]
      /\ \A s \in Requests : Stopped(s) => Stopped(s)'
    BY <1>1, Going
<1>3. /\ size' \in [Requests -> Nat] /\ \A s \in Requests \ {r} : size'[s] = size[s]
    BY DEF BodyInv, Types
<1>4. Types'
    BY <1>2, <1>3 DEF BodyInv, Types
<1>5. Only(r)
    BY <1>2, <1>3 DEF Only
<1>6. /\ Shape(r) /\ Agrees(r) /\ Counts(r) /\ sent[r] = 0 /\ got[r] = 0 /\ size'[r] \in Nat
      /\ task[r] \notin {"streaming", "over"}
    BY <1>3 DEF BodyInv, ReqInv, Counts
<1>7. Shape(r)'
    BY <1>2 DEF Shape
<1>8. asked[r] \notin {"body", "ended", "idle"}
    BY <1>6 DEF Agrees
<1>9. Agrees(r)'
    BY <1>2, <1>6, <1>8 DEF Agrees
<1>10. Counts(r)'
    BY <1>2, <1>6, <1>8 DEF Counts
<1> QED
    BY <1>4, <1>5, <1>7, <1>9, <1>10, Elsewhere DEF ReqInv

LEMMA TaskStep ==
    ASSUME BodyInv, NEW r \in Requests,
           Begin(r) \/ BuildRequest(r) \/ Execute(r)
    PROVE  BodyInv'
<1>0. Shape(r) /\ Agrees(r)
    BY DEF BodyInv, ReqInv
<1>1. CASE Begin(r)
    <2>1. task[r] = "posted" /\ inbox[r] = <<>> /\ UNCHANGED <<size, sent>>
        BY <1>0, <1>1 DEF Begin, Shape
    <2>4. r \in Cancelable <=> asked[r] = "token"
        BY <1>0, <2>1 DEF Agrees
    <2>2. CASE r \in Cancelable
        BY <1>1, <2>1, <2>2, <2>4, QuietStep, Single DEF Begin
    <2>3. CASE r \notin Cancelable
        BY <1>1, <2>1, <2>3, <2>4, QuietStep, Single DEF Begin
    <2> QED
        BY <2>2, <2>3
<1>2. CASE BuildRequest(r)
    BY <1>0, <1>2, QuietStep, Single DEF BuildRequest, OnError, Shape
<1>3. CASE Execute(r)
    <2>1. CASE task[r] \in {"connecting", "nowhere"} /\ OnError(r)
        BY <1>0, <2>1, QuietStep, Single DEF OnError, Shape
    <2>2. ASSUME NEW n \in 0 .. MaxChunks, size' = [size EXCEPT ![r] = n],
                 task[r] = "connecting", GoOn(r, "responding", <<"response">>), UNCHANGED sent
          PROVE  BodyInv'
        <3>1. n \in Nat /\ inbox[r] = <<>>
            BY <1>0, <2>2, HttpAssumption DEF Shape
        <3> QED
            BY <2>2, <3>1, QuietStep, Single
    <2> QED
        BY <1>3, <2>1, <2>2 DEF Execute
<1> QED
    BY <1>1, <1>2, <1>3

LEMMA CancelledStep ==
    ASSUME BodyInv, NEW r \in Requests, Cancelled(r)
    PROVE  BodyInv'
<1> DEFINE q == inbox[r]
           n == Len(q)
<1>1. /\ task[r] \in Selected /\ Stopped(r) /\ GoOn(r, "over", <<"close">>)
      /\ UNCHANGED <<size, sent>>
    BY DEF Cancelled, Stopped
<1>2. /\ task'[r] = "over" /\ inbox'[r] = q \o <<"close">>
      /\ UNCHANGED <<client, asked, token, got, size, sent>>
      /\ task' \in [Requests -> Places] /\ inbox' \in [Requests -> Seq(Messages)]
      /\ \A s \in Requests \ {r} : task'[s] = task[s] /\ inbox'[s] = inbox[s]
      /\ \A s \in Requests : Stopped(s) => Stopped(s)'
    BY <1>1, Going, Single DEF Places
<1>3. Types' /\ Only(r) /\ Stopped(r)'
    BY <1>1, <1>2 DEF BodyInv, Types, Only
<1>4. /\ Shape(r) /\ Agrees(r) /\ Counts(r)
      /\ q \in Seq(Messages) /\ n \in Nat
      /\ got[r] \in Nat /\ sent[r] \in Nat /\ size[r] \in Nat
    BY DEF BodyInv, ReqInv, Types
<1>5. /\ Len(inbox'[r]) = n + 1 /\ inbox'[r][n + 1] = "close"
      /\ \A i \in 1 .. n : inbox'[r][i] = q[i]
    BY <1>2, <1>4, Posting DEF Messages
<1>6. asked[r] \notin {"idle", "token", "ended"}
    BY <1>1, <1>4 DEF Agrees, Selected
<1>7. asked[r] = "response" =>
        /\ sent[r] = 0 /\ got[r] = 0
        /\ \/ q = <<>>
           \/ \E m \in {"resolve", "response", "error"} : q = <<m>>
    BY <1>1, <1>4 DEF Agrees, Selected, Shape, Counts
<1>8. <<>> \o <<"close">> = <<"close">> /\ \A m \in Messages : <<m>> \o <<"close">> = <<m, "close">>
    BY Pair DEF Messages
<1>9. asked[r] = "response" =>
        \/ inbox'[r] = <<"close">>
        \/ \E m \in {"resolve", "response", "error"} : inbox'[r] = <<m, "close">>
    BY <1>2, <1>7, <1>8 DEF Messages
<1>10. Shape(r)' /\ Agrees(r)'
    BY <1>1, <1>2, <1>3, <1>6, <1>7, <1>9 DEF Shape, Agrees, Selected
<1>11. asked[r] = "body" => Closes(r)'
    <2>1. asked[r] = "body" => task[r] = "streaming"
        BY <1>1, <1>4 DEF Agrees, Selected
    <2>2. asked[r] = "body" => got[r] + n = sent[r] /\ \A i \in 1 .. n : q[i] = "chunk"
        BY <1>4, <2>1 DEF Counts, Shape
    <2> HIDE DEF q, n
    <2>3. Len(inbox'[r]) >= 1 /\ Len(inbox'[r]) - 1 = n
        BY <1>4, <1>5
    <2>4. asked[r] = "body" => got'[r] + n = sent'[r] /\ \A i \in 1 .. n : inbox'[r][i] = "chunk"
        BY <1>2, <1>5, <2>2
    <2> QED
        BY <1>3, <1>5, <2>3, <2>4 DEF Closes
<1>12. Counts(r)'
    BY <1>2, <1>4, <1>6, <1>11 DEF Counts
<1> QED
    BY <1>3, <1>10, <1>12, Elsewhere DEF ReqInv

LEMMA StreamStep ==
    ASSUME BodyInv, NEW r \in Requests, StreamBody(r)
    PROVE  BodyInv'
<1> DEFINE q == inbox[r]
           n == Len(q)
<1>1. /\ Shape(r) /\ Agrees(r) /\ Counts(r) /\ task[r] = "streaming"
      /\ q \in Seq(Messages) /\ n \in Nat
      /\ got[r] \in Nat /\ sent[r] \in Nat /\ size[r] \in Nat
    BY DEF BodyInv, ReqInv, Types, StreamBody
<1>2. /\ asked[r] \notin {"idle", "token", "response", "ended"}
      /\ \A i \in 1 .. n : q[i] = "chunk"
      /\ asked[r] = "body" => got[r] + n = sent[r]
      /\ got[r] <= sent[r] /\ sent[r] <= size[r]
    BY <1>1 DEF Agrees, Shape, Counts
<1>3. ASSUME NEW m \in Seq(Messages), NEW to \in Places, GoOn(r, to, m),
             UNCHANGED sent, UNCHANGED size
      PROVE  /\ task'[r] = to /\ inbox'[r] = q \o m
             /\ UNCHANGED <<asked, got, sent, size>>
             /\ Types' /\ Only(r)
    <2>1. /\ task'[r] = to /\ inbox'[r] = q \o m
          /\ UNCHANGED <<client, asked, token, got>>
          /\ task' \in [Requests -> Places] /\ inbox' \in [Requests -> Seq(Messages)]
          /\ \A s \in Requests \ {r} : task'[s] = task[s] /\ inbox'[s] = inbox[s]
          /\ \A s \in Requests : Stopped(s) => Stopped(s)'
        BY <1>3, Going
    <2> QED
        BY <1>3, <2>1 DEF BodyInv, Types, Only
<1>4. CASE GoOn(r, "streaming", <<"chunk">>) /\ sent' = [sent EXCEPT ![r] = @ + 1]
           /\ sent[r] < size[r] /\ UNCHANGED size
    <2>1. /\ task'[r] = "streaming" /\ inbox'[r] = q \o <<"chunk">>
          /\ UNCHANGED <<client, asked, token, got>>
          /\ task' \in [Requests -> Places] /\ inbox' \in [Requests -> Seq(Messages)]
          /\ \A s \in Requests \ {r} : task'[s] = task[s] /\ inbox'[s] = inbox[s]
          /\ \A s \in Requests : Stopped(s) => Stopped(s)'
        BY <1>4, Going, Single DEF Places, Selected
    <2>2. /\ sent'[r] = sent[r] + 1 /\ sent' \in [Requests -> Nat]
          /\ \A s \in Requests \ {r} : sent'[s] = sent[s]
        BY <1>4 DEF BodyInv, Types
    <2>3. Types' /\ Only(r)
        BY <1>4, <2>1, <2>2 DEF BodyInv, Types, Only
    <2>4. /\ Len(inbox'[r]) = n + 1 /\ inbox'[r][n + 1] = "chunk"
          /\ \A i \in 1 .. n : inbox'[r][i] = q[i]
        BY <1>1, <2>1, Posting DEF Messages
    <2> HIDE DEF q, n
    <2>5. \A i \in 1 .. n + 1 : i \in 1 .. n \/ i = n + 1
        BY <1>1
    <2>6. Shape(r)' /\ Agrees(r)'
        BY <1>2, <2>1, <2>4, <2>5 DEF Shape, Agrees
    <2>7. Counts(r)'
        <3>1. /\ task'[r] = "streaming" /\ asked'[r] = asked[r] /\ asked[r] # "ended"
              /\ sent'[r] = sent[r] + 1 /\ got'[r] = got[r] /\ size'[r] = size[r]
            BY <1>2, <1>4, <2>1, <2>2
        <3>2. got[r] <= sent[r] + 1 /\ sent[r] + 1 <= size[r]
            BY <1>1, <1>2, <1>4
        <3>3. asked[r] = "body" => got[r] + Len(inbox'[r]) = sent[r] + 1
            <4>1. n \in Nat /\ got[r] \in Nat /\ sent[r] \in Nat
                BY <1>1
            <4>2. asked[r] = "body" => got[r] + n = sent[r]
                BY <1>2
            <4>3. Len(inbox'[r]) = n + 1
                BY <2>4
            <4> QED
                BY <4>1, <4>2, <4>3
        <3> QED
            BY <3>1, <3>2, <3>3 DEF Counts
    <2> QED
        BY <2>3, <2>6, <2>7, Elsewhere DEF ReqInv
<1>5. CASE GoOn(r, "over", <<"broken", "close">>) /\ UNCHANGED <<sent, size>>
    <2>1. /\ task'[r] = "over" /\ inbox'[r] = q \o <<"broken", "close">>
          /\ UNCHANGED <<asked, got, sent, size>> /\ Types' /\ Only(r)
        BY <1>3, <1>5, Single DEF Places
    <2>2. /\ Len(inbox'[r]) = n + 2 /\ inbox'[r][n + 2] = "close" /\ inbox'[r][n + 1] = "broken"
          /\ \A i \in 1 .. n : inbox'[r][i] = q[i]
        BY <1>1, <2>1
    <2> HIDE DEF q, n
    <2>3. Len(inbox'[r]) >= 2 /\ Len(inbox'[r]) - 1 = n + 1 /\ Len(inbox'[r]) - 2 = n
        BY <1>1, <2>2
    <2>6. asked[r] = "body" => got'[r] + n = sent'[r] /\ \A i \in 1 .. n : inbox'[r][i] = "chunk"
        BY <1>2, <2>1, <2>2
    <2>4. asked[r] = "body" => Breaks(r)'
        BY <2>2, <2>3, <2>6 DEF Breaks
    <2>5. Shape(r)' /\ Agrees(r)' /\ Counts(r)'
        BY <1>2, <2>1, <2>4 DEF Shape, Agrees, Counts
    <2> QED
        BY <2>1, <2>5, Elsewhere DEF ReqInv
<1>6. CASE GoOn(r, "over", <<"close">>) /\ sent[r] = size[r] /\ UNCHANGED <<sent, size>>
    <2>1. /\ task'[r] = "over" /\ inbox'[r] = q \o <<"close">>
          /\ UNCHANGED <<asked, got, sent, size>> /\ Types' /\ Only(r)
        BY <1>3, <1>6, Single DEF Places
    <2>2. /\ Len(inbox'[r]) = n + 1 /\ inbox'[r][n + 1] = "close"
          /\ \A i \in 1 .. n : inbox'[r][i] = q[i]
        BY <1>1, <2>1, Posting DEF Messages
    <2> HIDE DEF q, n
    <2>3. Len(inbox'[r]) >= 1 /\ Len(inbox'[r]) - 1 = n
        BY <1>1, <2>2
    <2>6. asked[r] = "body" => got'[r] + n = sent'[r] /\ \A i \in 1 .. n : inbox'[r][i] = "chunk"
        BY <1>2, <2>1, <2>2
    <2>4. asked[r] = "body" => Closes(r)'
        BY <1>6, <2>1, <2>2, <2>3, <2>6 DEF Closes
    <2>5. Shape(r)' /\ Agrees(r)' /\ Counts(r)'
        BY <1>2, <2>1, <2>4 DEF Shape, Agrees, Counts
    <2> QED
        BY <2>1, <2>5, Elsewhere DEF ReqInv
<1> QED
    BY <1>4, <1>5, <1>6 DEF StreamBody

-----------------------------------------------------------------------------
(* Messages arrive.                                                        *)
Answers == {"idle", "token", "response", "body", "ended", "failed", "left"}

(* A step that gives one request new values, and stops nobody. *)
LEMMA Changed ==
    ASSUME BodyInv, NEW r \in Requests,
           NEW a \in Answers, NEW to \in Places, NEW g \in Nat, NEW m \in Seq(Messages),
           asked' = [asked EXCEPT ![r] = a], task' = [task EXCEPT ![r] = to],
           inbox' = [inbox EXCEPT ![r] = m], got' = [got EXCEPT ![r] = g],
           UNCHANGED <<client, token, size, sent>>
    PROVE  /\ Types' /\ Only(r)
           /\ asked'[r] = a /\ task'[r] = to /\ inbox'[r] = m /\ got'[r] = g
           /\ sent'[r] = sent[r] /\ size'[r] = size[r]
           /\ Stopped(r)' <=> Stopped(r)
BY DEF BodyInv, Types, Answers, Only, Stopped

LEMMA Standing ==
    ASSUME BodyInv, NEW r \in Requests
    PROVE  /\ asked[r] \in Answers /\ task[r] \in Places /\ inbox[r] \in Seq(Messages)
           /\ size[r] \in Nat /\ sent[r] \in Nat /\ got[r] \in Nat
           /\ Shape(r) /\ Agrees(r) /\ Counts(r)
           /\ asked = [asked EXCEPT ![r] = asked[r]] /\ task = [task EXCEPT ![r] = task[r]]
           /\ got = [got EXCEPT ![r] = got[r]] /\ inbox = [inbox EXCEPT ![r] = inbox[r]]
BY DEF BodyInv, ReqInv, Types, Answers

(* Where a task stands whose next message is m, and who waits for it. *)
LEMMA Heads ==
    ASSUME BodyInv, NEW r \in Requests, inbox[r] # <<>>
    PROVE  LET m == Head(inbox[r]) IN
           /\ asked[r] # "idle"
           /\ m = "token" => task[r] \in {"handing", "over"}
           /\ m = "resolve" => task[r] \in {"resolving", "over"}
           /\ m = "response" => task[r] \in {"responding", "over"}
           /\ m = "error" => task[r] \in {"reporting", "over"}
           /\ m = "chunk" => task[r] \in {"streaming", "over"}
           /\ m \in {"broken", "close"} => task[r] = "over"
           /\ asked[r] = "body" => m \in {"chunk", "broken", "close"}
           /\ asked[r] = "response" /\ task[r] = "over" => m \in {"resolve", "response", "error", "close"}
           /\ asked[r] = "token" => m = "token" /\ task[r] = "handing"
           /\ task[r] \in {"handing", "resolving", "responding", "reporting"} => Tail(inbox[r]) = <<>>
<1> DEFINE q == inbox[r]
           n == Len(q)
<1>1. /\ q \in Seq(Messages) /\ Shape(r) /\ Agrees(r) /\ Counts(r) /\ task[r] \in Places
      /\ n \in Nat /\ n >= 1 /\ Head(q) = q[1] /\ q # <<>>
    BY Standing, Taking
<1>2. /\ task[r] \notin {"none", "posted", "building", "nowhere", "connecting"}
      /\ task[r] = "handing" => q = <<"token">>
      /\ task[r] = "resolving" => q = <<"resolve">>
      /\ task[r] = "responding" => q = <<"response">>
      /\ task[r] = "reporting" => q = <<"error">>
      /\ task[r] = "streaming" => q[1] = "chunk"
    BY <1>1 DEF Shape
<1>3. /\ Head(<<"token">>) = "token" /\ Tail(<<"token">>) = <<>>
      /\ Head(<<"resolve">>) = "resolve" /\ Tail(<<"resolve">>) = <<>>
      /\ Head(<<"response">>) = "response" /\ Tail(<<"response">>) = <<>>
      /\ Head(<<"error">>) = "error" /\ Tail(<<"error">>) = <<>>
      /\ Head(<<"close">>) = "close"
      /\ \A m \in {"resolve", "response", "error"} : Head(<<m, "close">>) = m
    BY Pair DEF Messages
<1>4. asked[r] = "body" /\ task[r] = "over" => q[1] \in {"chunk", "broken", "close"}
    <2>1. ASSUME Closes(r) PROVE q[1] \in {"chunk", "close"}
        BY <1>1, <2>1 DEF Closes
    <2>2. ASSUME Breaks(r) PROVE q[1] \in {"chunk", "broken"}
        BY <1>1, <2>2 DEF Breaks
    <2> QED
        BY <1>1, <2>1, <2>2 DEF Counts
<1>5. asked[r] = "response" /\ task[r] = "over" => Head(q) \in {"resolve", "response", "error", "close"}
    BY <1>1, <1>3 DEF Agrees
<1>6. asked[r] # "idle" /\ (asked[r] = "body" => task[r] \in {"streaming", "over"})
    BY <1>1, <1>2 DEF Agrees
<1>7. asked[r] = "token" => task[r] = "handing"
    BY <1>1, <1>2 DEF Agrees
<1> HIDE DEF q, n
<1>8. task[r] \in {"handing", "resolving", "responding", "reporting", "streaming", "over"}
    BY <1>1, <1>2 DEF Places, Selected
<1>9. \/ task[r] = "handing" /\ Head(q) = "token" /\ Tail(q) = <<>>
      \/ task[r] = "resolving" /\ Head(q) = "resolve" /\ Tail(q) = <<>>
      \/ task[r] = "responding" /\ Head(q) = "response" /\ Tail(q) = <<>>
      \/ task[r] = "reporting" /\ Head(q) = "error" /\ Tail(q) = <<>>
      \/ task[r] = "streaming" /\ Head(q) = "chunk"
      \/ task[r] = "over"
    BY <1>1, <1>2, <1>3, <1>8
<1>10. asked[r] = "body" /\ task[r] = "over" => Head(q) \in {"chunk", "broken", "close"}
    BY <1>1, <1>4
<1> QED
    BY <1>5, <1>6, <1>7, <1>9, <1>10 DEF q

(* What the first message of an inbox leaves behind when it is taken. *)
LEMMA Arriving ==
    ASSUME BodyInv, NEW r \in Requests, NEW m, Take(r, m)
    PROVE  /\ inbox[r] # <<>> /\ Head(inbox[r]) = m
           /\ UNCHANGED <<client, token, size, sent>>
           /\ Tail(inbox[r]) \in Seq(Messages) /\ <<>> \in Seq(Messages)
           /\ inbox[r][1] = m /\ Len(inbox[r]) \in Nat /\ Len(inbox[r]) >= 1
           /\ Len(Tail(inbox[r])) = Len(inbox[r]) - 1
           /\ \A i \in 1 .. Len(inbox[r]) - 1 : Tail(inbox[r])[i] = inbox[r][i + 1]
           /\ \A q \in Seq(Messages) : q \o <<>> = q /\ <<>> \o q = q
           /\ asked[r] = "response" /\ task[r] = "over" =>
                /\ Stopped(r) /\ sent[r] = 0 /\ got[r] = 0
                /\ Tail(inbox[r]) \in {<<>>, <<"close">>}
                /\ m # "close" => Tail(inbox[r]) = <<"close">>
<1>1. inbox[r] # <<>> /\ Head(inbox[r]) = m /\ UNCHANGED <<client, token, size, sent>>
    BY DEF Take
<1>2. inbox[r] \in Seq(Messages) /\ Agrees(r)
    BY Standing
<1>3. /\ Tail(<<"close">>) = <<>> /\ Head(<<"close">>) = "close"
      /\ \A k \in {"resolve", "response", "error"} : Tail(<<k, "close">>) = <<"close">>
    BY Pair DEF Messages
<1>4. asked[r] = "response" /\ task[r] = "over" =>
        /\ Stopped(r) /\ sent[r] = 0 /\ got[r] = 0
        /\ Tail(inbox[r]) \in {<<>>, <<"close">>}
        /\ m # "close" => Tail(inbox[r]) = <<"close">>
    BY <1>1, <1>2, <1>3 DEF Agrees
<1>5. \A q \in Seq(Messages) : q \o <<>> = q /\ <<>> \o q = q
    OBVIOUS
<1> QED
    BY <1>1, <1>2, <1>4, <1>5, Taking, Single

(* The first callbacks: nothing of a body is there yet. *)
LEMMA TokenArrives ==
    ASSUME BodyInv, NEW r \in Requests, TakeToken(r)
    PROVE  BodyInv'
<1>1. Take(r, "token")
    BY DEF TakeToken
<1> DEFINE rest == Tail(inbox[r])
           a == IF asked[r] = "token" THEN "response" ELSE asked[r]
           to == IF task[r] = "handing" THEN "building" ELSE task[r]
<1>2. /\ task[r] \in {"handing", "over"} /\ asked[r] \notin {"idle", "body"}
      /\ asked[r] = "response" => task[r] = "handing"
      /\ asked[r] = "token" => task[r] = "handing"
      /\ task[r] = "handing" => rest = <<>>
      /\ rest \in Seq(Messages)
    BY <1>1, Arriving, Heads
<1>3. /\ asked[r] \in Answers /\ task[r] \in Places /\ got[r] \in Nat
      /\ Shape(r) /\ Agrees(r) /\ Counts(r)
    BY Standing
<1>4. a \in Answers /\ to \in Places
    BY <1>3 DEF Answers, Places, Selected
<1>5. /\ asked' = [asked EXCEPT ![r] = a] /\ task' = [task EXCEPT ![r] = to]
      /\ got' = [got EXCEPT ![r] = got[r]] /\ UNCHANGED <<client, token, size, sent>>
      /\ inbox' = [inbox EXCEPT ![r] = rest]
    BY <1>1, <1>2, Arriving, Standing DEF TakeToken, Become, Answer
<1> HIDE DEF rest, a, to
<1>6. /\ Types' /\ Only(r)
      /\ asked'[r] = a /\ task'[r] = to /\ inbox'[r] = rest /\ got'[r] = got[r]
      /\ sent'[r] = sent[r] /\ size'[r] = size[r] /\ (Stopped(r)' <=> Stopped(r))
    BY <1>2, <1>3, <1>4, <1>5, Changed
<1>7. Shape(r)' /\ Agrees(r)' /\ Counts(r)'
    BY <1>2, <1>3, <1>6 DEF Shape, Agrees, Counts, a, to
<1> QED
    BY <1>6, <1>7, Elsewhere DEF ReqInv

LEMMA LookupArrives ==
    ASSUME BodyInv, NEW r \in Requests, TakeLookup(r)
    PROVE  BodyInv'
<1>1. Take(r, "resolve")
    BY DEF TakeLookup
<1> DEFINE rest == Tail(inbox[r])
<1>2. /\ task[r] \in {"resolving", "over"} /\ asked[r] \notin {"idle", "body", "token"}
      /\ task[r] = "resolving" => rest = <<>>
      /\ asked[r] = "response" /\ task[r] = "over" =>
            Stopped(r) /\ sent[r] = 0 /\ got[r] = 0 /\ rest = <<"close">>
      /\ rest \in Seq(Messages)
    BY <1>1, Arriving, Heads
<1>3. /\ asked[r] \in Answers /\ task[r] \in Places /\ got[r] \in Nat
      /\ Shape(r) /\ Agrees(r) /\ Counts(r)
    BY Standing
<1>4. PICK found \in {"connecting", "nowhere"} :
        /\ task' = [task EXCEPT ![r] = IF task[r] = "resolving" THEN found ELSE task[r]]
        /\ inbox' = [inbox EXCEPT ![r] = rest]
    BY <1>1, <1>2, Arriving, Standing DEF TakeLookup, Answer
<1> DEFINE to == IF task[r] = "resolving" THEN found ELSE task[r]
<1>5. /\ to \in Places
      /\ asked' = [asked EXCEPT ![r] = asked[r]] /\ task' = [task EXCEPT ![r] = to]
      /\ got' = [got EXCEPT ![r] = got[r]] /\ UNCHANGED <<client, token, size, sent>>
    BY <1>1, <1>3, <1>4, Arriving, Standing DEF TakeLookup, Places, Selected
<1> HIDE DEF rest, to
<1>6. /\ Types' /\ Only(r)
      /\ asked'[r] = asked[r] /\ task'[r] = to /\ inbox'[r] = rest /\ got'[r] = got[r]
      /\ sent'[r] = sent[r] /\ size'[r] = size[r] /\ (Stopped(r)' <=> Stopped(r))
    BY <1>2, <1>3, <1>4, <1>5, Changed
<1>7. Shape(r)' /\ Agrees(r)' /\ Counts(r)'
    BY <1>2, <1>3, <1>6 DEF Shape, Agrees, Counts, to
<1> QED
    BY <1>6, <1>7, Elsewhere DEF ReqInv

(* The response: its body is read from here on.  When it arrives late, the *)
(* task is gone and what follows is the close of the cancellation.         *)
LEMMA ResponseArrives ==
    ASSUME BodyInv, NEW r \in Requests, TakeResponse(r)
    PROVE  BodyInv'
<1>1. Take(r, "response")
    BY DEF TakeResponse
<1> DEFINE rest == Tail(inbox[r])
           a == IF asked[r] = "response" THEN "body" ELSE asked[r]
           to == IF task[r] = "responding" THEN "streaming" ELSE task[r]
<1>2. /\ task[r] \in {"responding", "over"} /\ asked[r] \notin {"idle", "body", "token"}
      /\ task[r] = "responding" => rest = <<>>
      /\ asked[r] = "response" /\ task[r] = "over" =>
            Stopped(r) /\ sent[r] = 0 /\ got[r] = 0 /\ rest = <<"close">>
      /\ rest \in Seq(Messages)
    BY <1>1, Arriving, Heads
<1>3. /\ asked[r] \in Answers /\ task[r] \in Places /\ got[r] \in Nat
      /\ Shape(r) /\ Agrees(r) /\ Counts(r)
    BY Standing
<1>4. a \in Answers /\ to \in Places
    BY <1>3 DEF Answers, Places, Selected
<1>5. /\ asked' = [asked EXCEPT ![r] = a] /\ task' = [task EXCEPT ![r] = to]
      /\ got' = [got EXCEPT ![r] = got[r]] /\ UNCHANGED <<client, token, size, sent>>
      /\ inbox' = [inbox EXCEPT ![r] = rest]
    BY <1>1, <1>2, Arriving, Standing DEF TakeResponse, Become, Answer
<1> HIDE DEF rest, a, to
<1>6. /\ Types' /\ Only(r)
      /\ asked'[r] = a /\ task'[r] = to /\ inbox'[r] = rest /\ got'[r] = got[r]
      /\ sent'[r] = sent[r] /\ size'[r] = size[r] /\ (Stopped(r)' <=> Stopped(r))
    BY <1>2, <1>3, <1>4, <1>5, Changed
<1>7. Shape(r)' /\ Agrees(r)'
    BY <1>2, <1>3, <1>6 DEF Shape, Agrees, a, to
<1>8. Len(<<"close">>) = 1 /\ <<"close">>[1] = "close" /\ Len(<<>>) = 0
    OBVIOUS
<1>9. ASSUME asked[r] = "response", task[r] = "over" PROVE Closes(r)'
    <2>1. /\ Len(inbox'[r]) = 1 /\ inbox'[r][1] = "close"
          /\ got'[r] = 0 /\ sent'[r] = 0 /\ Stopped(r)'
        BY <1>2, <1>6, <1>8, <1>9
    <2>2. got'[r] + (Len(inbox'[r]) - 1) = sent'[r] /\ 1 .. Len(inbox'[r]) - 1 = {}
        BY <2>1
    <2> QED
        BY <2>1, <2>2 DEF Closes
<1>10. Counts(r)'
    BY <1>2, <1>3, <1>6, <1>8, <1>9 DEF Counts, a, to
<1> QED
    BY <1>6, <1>7, <1>10, Elsewhere DEF ReqInv

LEMMA ErrorArrives ==
    ASSUME BodyInv, NEW r \in Requests, TakeError(r)
    PROVE  BodyInv'
<1>1. Take(r, "error")
    BY DEF TakeError
<1> DEFINE rest == Tail(inbox[r]) \o (IF task[r] = "reporting" THEN <<"close">> ELSE <<>>)
           a == IF asked[r] = "response" THEN "failed" ELSE asked[r]
           to == IF task[r] = "reporting" THEN "over" ELSE task[r]
<1>2. /\ task[r] \in {"reporting", "over"} /\ asked[r] \notin {"idle", "body", "token"}
      /\ rest \in Seq(Messages)
    BY <1>1, Arriving, Heads, Single
<1>3. /\ asked[r] \in Answers /\ task[r] \in Places /\ got[r] \in Nat
      /\ Shape(r) /\ Agrees(r) /\ Counts(r)
    BY Standing
<1>4. a \in Answers /\ to \in Places
    BY <1>3 DEF Answers, Places
<1>5. /\ asked' = [asked EXCEPT ![r] = a] /\ task' = [task EXCEPT ![r] = to]
      /\ got' = [got EXCEPT ![r] = got[r]] /\ UNCHANGED <<client, token, size, sent>>
      /\ inbox' = [inbox EXCEPT ![r] = rest]
    BY <1>1, <1>2, Arriving, Standing DEF TakeError, Become, Answer
<1> HIDE DEF rest, a, to
<1>6. /\ Types' /\ Only(r)
      /\ asked'[r] = a /\ task'[r] = to /\ inbox'[r] = rest /\ got'[r] = got[r]
      /\ sent'[r] = sent[r] /\ size'[r] = size[r] /\ (Stopped(r)' <=> Stopped(r))
    BY <1>2, <1>3, <1>4, <1>5, Changed
<1>7. Shape(r)' /\ Agrees(r)' /\ Counts(r)'
    BY <1>2, <1>3, <1>6 DEF Shape, Agrees, Counts, a, to
<1> QED
    BY <1>6, <1>7, Elsewhere DEF ReqInv

(* A chunk: one more received, one fewer to come. *)
LEMMA ChunkArrives ==
    ASSUME BodyInv, NEW r \in Requests, TakeChunk(r)
    PROVE  BodyInv'
<1>1. Take(r, "chunk")
    BY DEF TakeChunk
<1> DEFINE q == inbox[r]
           n == Len(q)
           rest == Tail(q)
           g == IF asked[r] = "body" THEN got[r] + 1 ELSE got[r]
<1>2. /\ task[r] \in {"streaming", "over"} /\ asked[r] \notin {"idle", "token"}
      /\ ~ (asked[r] = "response" /\ task[r] = "over")
      /\ rest \in Seq(Messages) /\ n \in Nat /\ n >= 1 /\ Len(rest) = n - 1
      /\ q[1] = "chunk" /\ \A i \in 1 .. n - 1 : rest[i] = q[i + 1]
    BY <1>1, Arriving, Heads
<1>3. /\ asked[r] \in Answers /\ task[r] \in Places /\ got[r] \in Nat /\ sent[r] \in Nat
      /\ size[r] \in Nat /\ Shape(r) /\ Agrees(r) /\ Counts(r)
    BY Standing
<1>4. /\ asked' = [asked EXCEPT ![r] = asked[r]] /\ task' = [task EXCEPT ![r] = task[r]]
      /\ got' = [got EXCEPT ![r] = g] /\ UNCHANGED <<client, token, size, sent>>
      /\ inbox' = [inbox EXCEPT ![r] = rest] /\ g \in Nat
    <2>1. /\ UNCHANGED <<asked, task, client, token, size, sent>>
          /\ inbox' = [inbox EXCEPT ![r] = rest]
          /\ got' = IF asked[r] = "body" THEN [got EXCEPT ![r] = got[r] + 1] ELSE got
        BY <1>1, Arriving DEF TakeChunk
    <2>2. got' = [got EXCEPT ![r] = g]
        BY <2>1, Standing
    <2>3. asked' = [asked EXCEPT ![r] = asked[r]] /\ task' = [task EXCEPT ![r] = task[r]]
        BY <2>1, Standing
    <2>4. g \in Nat
        BY <1>3
    <2> QED
        BY <2>1, <2>2, <2>3, <2>4
<1>5. task[r] = "streaming" => \A i \in 1 .. n : q[i] = "chunk"
    BY <1>3 DEF Shape
<1>6. asked[r] = "body" /\ task[r] = "over" /\ Closes(r) =>
        n >= 2 /\ q[n] = "close" /\ (\A i \in 1 .. n - 1 : q[i] = "chunk")
        /\ got[r] + (n - 1) = sent[r] /\ (sent[r] = size[r] \/ Stopped(r))
    BY <1>2 DEF Closes
<1>7. asked[r] = "body" /\ task[r] = "over" /\ Breaks(r) =>
        n >= 3 /\ q[n] = "close" /\ q[n - 1] = "broken" /\ (\A i \in 1 .. n - 2 : q[i] = "chunk")
        /\ got[r] + (n - 2) = sent[r]
    BY <1>2 DEF Breaks
<1>8. /\ asked[r] = "body" /\ task[r] = "over" => Closes(r) \/ Breaks(r)
      /\ asked[r] = "body" /\ task[r] = "streaming" => got[r] + n = sent[r]
    BY <1>3 DEF Counts
<1> HIDE DEF q, n, rest, g
<1>9. /\ Types' /\ Only(r)
      /\ asked'[r] = asked[r] /\ task'[r] = task[r] /\ inbox'[r] = rest /\ got'[r] = g
      /\ sent'[r] = sent[r] /\ size'[r] = size[r] /\ (Stopped(r)' <=> Stopped(r))
    BY <1>2, <1>3, <1>4, Changed
<1>10. Shape(r)' /\ Agrees(r)'
    BY <1>2, <1>3, <1>5, <1>9 DEF Shape, Agrees
<1>11. ASSUME asked[r] = "body", task[r] = "over", Closes(r) PROVE Closes(r)' /\ g <= sent[r]
    <2>1. n \in Nat /\ n >= 2 /\ g = got[r] + 1 /\ got[r] + (n - 1) = sent[r]
        BY <1>2, <1>6, <1>11 DEF g
    <2>2. /\ g + ((n - 1) - 1) = sent[r] /\ g <= sent[r] /\ n - 1 >= 1
          /\ n - 1 \in 1 .. n - 1 /\ (n - 1) + 1 = n
          /\ \A i \in 1 .. (n - 1) - 1 : i \in 1 .. n - 1 /\ i + 1 \in 1 .. n - 1
        BY <1>3, <2>1
    <2>3. rest[n - 1] = "close" /\ \A i \in 1 .. (n - 1) - 1 : rest[i] = "chunk"
        BY <1>2, <1>6, <1>11, <2>1, <2>2
    <2> QED
        BY <1>2, <1>6, <1>9, <1>11, <2>2, <2>3 DEF Closes
<1>12. ASSUME asked[r] = "body", task[r] = "over", Breaks(r) PROVE Breaks(r)' /\ g <= sent[r]
    <2>1. n \in Nat /\ n >= 3 /\ g = got[r] + 1 /\ got[r] + (n - 2) = sent[r]
        BY <1>2, <1>7, <1>12 DEF g
    <2>2. /\ g + ((n - 1) - 2) = sent[r] /\ g <= sent[r] /\ n - 1 >= 2
          /\ n - 1 \in 1 .. n - 1 /\ (n - 1) - 1 \in 1 .. n - 1
          /\ (n - 1) + 1 = n /\ ((n - 1) - 1) + 1 = n - 1
          /\ \A i \in 1 .. (n - 1) - 2 : i \in 1 .. n - 1 /\ i + 1 \in 1 .. n - 2
        BY <1>3, <2>1
    <2>3. /\ rest[n - 1] = "close" /\ rest[(n - 1) - 1] = "broken"
          /\ \A i \in 1 .. (n - 1) - 2 : rest[i] = "chunk"
        BY <1>2, <1>7, <1>12, <2>1, <2>2
    <2> QED
        BY <1>2, <1>9, <2>2, <2>3 DEF Breaks
<1>13. ASSUME asked[r] = "body", task[r] = "streaming"
      PROVE  g + Len(rest) = sent[r] /\ g <= sent[r]
    <2>1. n \in Nat /\ n >= 1 /\ Len(rest) = n - 1 /\ g = got[r] + 1 /\ got[r] + n = sent[r]
        BY <1>2, <1>8, <1>13 DEF g
    <2> QED
        BY <1>3, <2>1
<1>14. got'[r] <= sent'[r]
    <2>1. CASE asked[r] = "body"
        BY <1>2, <1>8, <1>9, <1>11, <1>12, <1>13, <2>1
    <2>2. CASE asked[r] # "body"
        BY <1>3, <1>9, <2>2 DEF Counts, g
    <2> QED
        BY <2>1, <2>2
<1>15. asked[r] # "body" => g = got[r]
    BY DEF g
<1>16. Counts(r)'
    BY <1>2, <1>3, <1>8, <1>9, <1>11, <1>12, <1>13, <1>14, <1>15 DEF Counts
<1> QED
    BY <1>9, <1>10, <1>16, Elsewhere DEF ReqInv

(* The end: with a close as the next message all that was sent has been    *)
(* received, and after an error the caller has failed.                     *)
LEMMA EndArrives ==
    ASSUME BodyInv, NEW r \in Requests, TakeEnd(r)
    PROVE  BodyInv'
<1>1. PICK m \in {"broken", "close"} :
        Take(r, m) /\ Become(r, "body", IF m = "broken" THEN "failed" ELSE "ended")
    BY DEF TakeEnd
<1> DEFINE q == inbox[r]
           n == Len(q)
           rest == Tail(q)
           a == IF asked[r] = "body" THEN (IF m = "broken" THEN "failed" ELSE "ended")
                ELSE asked[r]
<1>2. /\ task[r] = "over" /\ asked[r] \notin {"idle", "token"}
      /\ asked[r] = "response" =>
            Stopped(r) /\ sent[r] = 0 /\ got[r] = 0 /\ m = "close" /\ rest \in {<<>>, <<"close">>}
      /\ rest \in Seq(Messages) /\ n \in Nat /\ n >= 1 /\ q[1] = m
    BY <1>1, Arriving, Heads
<1>3. /\ asked[r] \in Answers /\ task[r] \in Places /\ got[r] \in Nat /\ sent[r] \in Nat
      /\ size[r] \in Nat /\ Shape(r) /\ Agrees(r) /\ Counts(r)
    BY Standing
<1>4. /\ asked' = [asked EXCEPT ![r] = a] /\ task' = [task EXCEPT ![r] = task[r]]
      /\ got' = [got EXCEPT ![r] = got[r]] /\ UNCHANGED <<client, token, size, sent>>
      /\ inbox' = [inbox EXCEPT ![r] = rest] /\ a \in Answers
    BY <1>1, <1>3, Arriving, Standing DEF TakeEnd, Become, Answers
<1>5. asked[r] = "body" /\ m = "close" => got[r] = sent[r] /\ (sent[r] = size[r] \/ Stopped(r))
    <2>1. ASSUME Closes(r), m = "close"
          PROVE got[r] = sent[r] /\ (sent[r] = size[r] \/ Stopped(r))
        BY <1>2, <1>3, <2>1 DEF Closes
    <2>2. ASSUME Breaks(r), m = "close" PROVE FALSE
        BY <1>2, <1>3, <2>2 DEF Breaks
    <2> QED
        BY <1>2, <1>3, <2>1, <2>2 DEF Counts
<1> HIDE DEF q, n, rest, a
<1>6. /\ Types' /\ Only(r)
      /\ asked'[r] = a /\ task'[r] = task[r] /\ inbox'[r] = rest /\ got'[r] = got[r]
      /\ sent'[r] = sent[r] /\ size'[r] = size[r] /\ (Stopped(r)' <=> Stopped(r))
    BY <1>2, <1>3, <1>4, Changed
<1>7. Shape(r)' /\ Agrees(r)' /\ Counts(r)'
    BY <1>1, <1>2, <1>3, <1>5, <1>6 DEF Shape, Agrees, Counts, a
<1> QED
    BY <1>6, <1>7, Elsewhere DEF ReqInv

-----------------------------------------------------------------------------
(* Dart's calls.                                                           *)
LEMMA RequestStep ==
    ASSUME BodyInv, NEW r \in Requests, Request(r) \/ StopReading(r)
    PROVE  BodyInv'
<1>1. /\ asked[r] \in Answers /\ task[r] \in Places /\ got[r] \in Nat /\ inbox[r] \in Seq(Messages)
      /\ Shape(r) /\ Agrees(r) /\ Counts(r)
    BY Standing
<1>2. CASE StopReading(r)
    <2>1. /\ asked' = [asked EXCEPT ![r] = "left"] /\ task' = [task EXCEPT ![r] = task[r]]
          /\ got' = [got EXCEPT ![r] = got[r]] /\ UNCHANGED <<client, token, size, sent>>
          /\ inbox' = [inbox EXCEPT ![r] = inbox[r]] /\ "left" \in Answers /\ asked[r] = "body"
        BY <1>2, Standing DEF StopReading, bodyVars, Answers
    <2>2. /\ Types' /\ Only(r)
          /\ asked'[r] = "left" /\ task'[r] = task[r] /\ inbox'[r] = inbox[r] /\ got'[r] = got[r]
          /\ sent'[r] = sent[r] /\ size'[r] = size[r]
        BY <2>1 DEF BodyInv, Types, Answers, Only, Stopped
    <2>3. Shape(r)' /\ Agrees(r)' /\ Counts(r)'
        BY <1>1, <2>1, <2>2 DEF Shape, Agrees, Counts
    <2> QED
        BY <2>2, <2>3, Elsewhere DEF ReqInv
<1>3. CASE Request(r)
    <2>1. /\ asked[r] = "idle" /\ task[r] = "none" /\ inbox[r] = <<>>
        BY <1>1, <1>3 DEF Request, Agrees, Shape
    <2>2. PICK a \in Answers, to \in {"none", "posted"} :
            /\ asked' = [asked EXCEPT ![r] = a] /\ task' = [task EXCEPT ![r] = to]
            /\ \/ a = "failed" /\ to = "none"
               \/ a = "token" /\ to = "posted" /\ r \in Cancelable
               \/ a = "response" /\ to = "posted" /\ r \notin Cancelable
        BY <1>3, <2>1, Standing DEF Request, Answers
    <2>3. /\ got' = [got EXCEPT ![r] = got[r]] /\ UNCHANGED <<client, token, size, sent>>
          /\ inbox' = [inbox EXCEPT ![r] = inbox[r]] /\ to \in Places
        BY <1>3, Standing DEF Request, bodyVars, Places
    <2>4. /\ Types' /\ Only(r)
          /\ asked'[r] = a /\ task'[r] = to /\ inbox'[r] = <<>> /\ got'[r] = got[r]
          /\ sent'[r] = sent[r] /\ size'[r] = size[r]
        BY <2>1, <2>2, <2>3 DEF BodyInv, Types, Answers, Only, Stopped
    <2>5. Shape(r)' /\ Agrees(r)' /\ Counts(r)'
        BY <1>1, <2>1, <2>2, <2>4 DEF Shape, Agrees, Counts
    <2> QED
        BY <2>4, <2>5, Elsewhere DEF ReqInv
<1> QED
    BY <1>2, <1>3

(* Steps of the client and of the tokens: no request moves, and nothing    *)
(* that was stopped goes on.                                               *)
LEMMA ControlStep ==
    ASSUME BodyInv,
           \/ \E s \in Settings : RegisterClient(s)
           \/ Close \/ CancelRunningRequests \/ Disposed
           \/ \E r \in Requests : Cancel(r) \/ CancelRequest(r)
    PROVE  BodyInv'
<1>1. UNCHANGED <<asked, task, inbox, size, sent, got>>
    BY DEF RegisterClient, Close, CancelRunningRequests, Disposed, Cancel, CancelRequest, bodyVars
<1>2. /\ token' \in [Requests -> {"quiet", "asked", "fired"}]
      /\ \A s \in Requests : token[s] = "fired" => token'[s] = "fired"
    BY DEF BodyInv, Types, RegisterClient, Close, CancelRunningRequests, Disposed, Cancel, CancelRequest
<1>3. /\ client' = [is |-> client'.is, timed |-> client'.timed, lookup |-> client'.lookup,
                    cancelled |-> client'.cancelled]
      /\ client'.cancelled \in BOOLEAN
      /\ client'.is = "none" => ~ client'.cancelled
      /\ client.cancelled => client'.cancelled
    <2>1. ASSUME NEW s \in Settings, RegisterClient(s) PROVE <1>3!1 /\ <1>3!2 /\ <1>3!3 /\ <1>3!4
        BY <2>1 DEF RegisterClient, CreateClient, BodyInv, Types
    <2>2. CASE Close
        BY <2>2 DEF Close, BodyInv, Types
    <2>3. CASE CancelRunningRequests
        BY <2>3 DEF CancelRunningRequests, BodyInv, Types
    <2>4. CASE Disposed
        BY <2>4 DEF Disposed, BodyInv, Types
    <2>5. CASE UNCHANGED client
        BY <2>5 DEF BodyInv, Types
    <2> QED
        BY <2>1, <2>2, <2>3, <2>4, <2>5 DEF Cancel, CancelRequest
<1>4. Types' /\ \A s \in Requests : Stopped(s) => Stopped(s)'
    BY <1>1, <1>2, <1>3 DEF BodyInv, Types, Stopped
<1>5. ASSUME NEW r \in Requests PROVE ReqInv(r)'
    <2>1. Only(r)
        BY <1>1, <1>4 DEF Only
    <2>2. Shape(r)' /\ Agrees(r)'
        BY <1>1, <1>4 DEF BodyInv, ReqInv, Shape, Agrees
    <2>3. (Closes(r) => Closes(r)') /\ (Breaks(r) => Breaks(r)')
        BY <1>1, <1>4 DEF Closes, Breaks
    <2>4. Counts(r)'
        BY <1>1, <1>4, <2>3 DEF BodyInv, ReqInv, Counts
    <2> QED
        BY <2>2, <2>4 DEF ReqInv
<1> QED
    BY <1>4, <1>5 DEF BodyInv

-----------------------------------------------------------------------------
LEMMA BodyInvHolds == Init => BodyInv
<1> SUFFICES ASSUME Init PROVE BodyInv
    OBVIOUS
<1>1. Types
    BY Single DEF Init, Types, Places
<1>2. ASSUME NEW r \in Requests PROVE ReqInv(r)
    BY <1>2 DEF Init, ReqInv, Shape, Agrees, Counts
<1> QED
    BY <1>1, <1>2 DEF BodyInv

LEMMA BodyInvKept == BodyInv /\ [Next]_vars => BodyInv'
<1> SUFFICES ASSUME BodyInv, [Next]_vars PROVE BodyInv'
    OBVIOUS
<1>1. CASE \/ \E s \in Settings : RegisterClient(s)
           \/ Close \/ CancelRunningRequests \/ Disposed
           \/ \E r \in Requests : Cancel(r) \/ CancelRequest(r)
    BY <1>1, ControlStep
<1>2. ASSUME NEW r \in Requests, Request(r) \/ StopReading(r) PROVE BodyInv'
    BY <1>2, RequestStep
<1>3. ASSUME NEW r \in Requests, Run(r) \/ Network(r) PROVE BodyInv'
    BY <1>3, TaskStep, CancelledStep, StreamStep DEF Run, Network
<1>4. ASSUME NEW r \in Requests, Deliver(r) PROVE BodyInv'
    BY <1>4, TokenArrives, LookupArrives, ResponseArrives, ErrorArrives, ChunkArrives, EndArrives
       DEF Deliver
<1>5. CASE UNCHANGED vars
    <2>1. ASSUME NEW r \in Requests PROVE ReqInv(r)'
        <3>1. ReqInv(r) /\ (Closes(r) => Closes(r)') /\ (Breaks(r) => Breaks(r)')
            BY <1>5 DEF vars, bodyVars, BodyInv, Closes, Breaks, Stopped
        <3>2. Shape(r)' /\ Agrees(r)'
            BY <1>5, <3>1 DEF vars, bodyVars, ReqInv, Shape, Agrees, Stopped
        <3>3. Counts(r)'
            BY <1>5, <3>1 DEF vars, bodyVars, ReqInv, Counts, Stopped
        <3> QED
            BY <3>2, <3>3 DEF ReqInv
    <2> QED
        BY <1>5, <2>1 DEF vars, bodyVars, BodyInv, Types
<1> QED
    BY <1>1, <1>2, <1>3, <1>4, <1>5 DEF Next

(* A body that ends without an error is whole, unless its request or its   *)
(* client was cancelled (make_http_request_receive_stream_inner in         *)
(* http.rs), however many requests run, whatever the client's settings and *)
(* however long the bodies are.                                            *)
THEOREM BodyWhole == Spec => []BodyIsWhole
<1>1. BodyInv => BodyIsWhole
    BY DEF BodyInv, ReqInv, Counts, BodyIsWhole
<1> QED
    BY <1>1, BodyInvHolds, BodyInvKept, PTL DEF Spec

-----------------------------------------------------------------------------
(* Nothing on the way of a request is waited for that does not come.       *)

(* The task itself, or the network, takes the next step. *)
Moving(r) == task[r] \in {"posted", "building", "nowhere", "connecting", "streaming"}

(* What a task that has stopped to wait for Dart asked it. *)
Callback == [handing |-> "token", resolving |-> "resolve",
             responding |-> "response", reporting |-> "error"]

CallbacksArrive ==
    \A r \in Requests : task[r] \in DOMAIN Callback => inbox[r] = <<Callback[task[r]]>>

OnlyCancelledStrand ==
    \A r \in Requests :
        Pending(r) /\ ~ Moving(r) /\ inbox[r] = <<>> =>
            asked[r] = "response" /\ task[r] = "over" /\ Stopped(r)

LEMMA CallbacksFromShape == BodyInv => CallbacksArrive
<1> SUFFICES ASSUME BodyInv, NEW r \in Requests, task[r] \in DOMAIN Callback
             PROVE  inbox[r] = <<Callback[task[r]]>>
    BY DEF CallbacksArrive
<1>1. DOMAIN Callback = {"handing", "resolving", "responding", "reporting"}
    BY DEF Callback
<1>2. /\ Callback["handing"] = "token" /\ Callback["resolving"] = "resolve"
      /\ Callback["responding"] = "response" /\ Callback["reporting"] = "error"
    BY DEF Callback
<1>3. Shape(r)
    BY DEF BodyInv, ReqInv
<1> HIDE DEF Callback
<1> QED
    BY <1>1, <1>2, <1>3 DEF Shape

LEMMA StrandedFromPlaces == BodyInv => OnlyCancelledStrand
<1> SUFFICES ASSUME BodyInv, NEW r \in Requests, Pending(r), ~ Moving(r), inbox[r] = <<>>
             PROVE  asked[r] = "response" /\ task[r] = "over" /\ Stopped(r)
    BY DEF OnlyCancelledStrand
<1>1. Shape(r) /\ Agrees(r) /\ Counts(r) /\ task[r] \in Places
    BY DEF BodyInv, ReqInv, Types
<1>2. task[r] \in {"none", "handing", "resolving", "responding", "reporting", "over"}
    BY <1>1 DEF Moving, Places, Selected
<1>3. task[r] \in {"none", "over"}
    <2>1. task[r] \in {"handing", "resolving", "responding", "reporting"} =>
              \E m \in Messages : inbox[r] = <<m>>
        BY <1>1 DEF Shape, Messages
    <2>2. \A m \in Messages : <<m>> # <<>>
        OBVIOUS
    <2> QED
        BY <1>2, <2>1, <2>2
<1>4. asked[r] # "body"
    <2> SUFFICES ASSUME asked[r] = "body" PROVE FALSE
        OBVIOUS
    <2>1. task[r] = "over"
        BY <1>1, <1>3 DEF Agrees
    <2>2. Closes(r) \/ Breaks(r)
        BY <1>1, <2>1 DEF Counts
    <2>3. Len(inbox[r]) >= 1
        BY <2>2 DEF Closes, Breaks
    <2> QED
        BY <2>3
<1>5. asked[r] = "response"
    BY <1>1, <1>3, <1>4 DEF Pending, Agrees
<1> QED
    BY <1>1, <1>3, <1>5 DEF Agrees

(* A task that stopped to wait for Dart (handing its token over, asking    *)
(* for addresses, giving its response or its error) has that callback in   *)
(* the inbox, alone; and a call that waits while its task stands still     *)
(* and nothing is in the inbox waits for a response that a cancellation    *)
(* has dropped: no other way through http.rs loses the answer of a call.   *)
THEOREM AnswersOnTheirWay == Spec => [](CallbacksArrive /\ OnlyCancelledStrand)
<1> QED
    BY CallbacksFromShape, StrandedFromPlaces, BodyInvHolds, BodyInvKept, PTL DEF Spec

=============================================================================
