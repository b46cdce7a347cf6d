------------------------ MODULE DownloadGate_proofs ------------------------
(***************************************************************************)
(* Proofs about the download gate, for any finite set of downloads, any    *)
(* sources, settings and saved orders.                                     *)
(*                                                                         *)
(* The inductive invariant is GateInv: the types, that the waiting list    *)
(* holds exactly the waiting downloads, once each, and that counter and    *)
(* busy sources match the holders.  The three are needed together: a       *)
(* dispatch grants members of the list, and a list with a holder or a      *)
(* duplicate in it would make it count that download twice.                *)
(***************************************************************************)
EXTENDS DownloadGate, FiniteSetTheorems, TLAPS

GateInv == TypeOK /\ ListIsWaiting /\ SlotsMatchHolders

-----------------------------------------------------------------------------
(* Operators.                                                              *)

(* The place of a member of a sequence is a position that holds it.        *)
LEMMA PlaceIsPosition ==
    ASSUME NEW S, NEW s \in Seq(S), NEW d \in Range(s)
    PROVE  /\ PlaceIn(s, d) \in 1..Len(s)
           /\ s[PlaceIn(s, d)] = d
<1>1. \E i \in DOMAIN s : s[i] = d
    BY DEF Range
<1>2. PlaceIn(s, d) \in DOMAIN s /\ s[PlaceIn(s, d)] = d
    BY <1>1 DEF PlaceIn
<1> QED
    BY <1>2

(* A list grows by the one who joins it.                                   *)
LEMMA RangeOfAppend ==
    ASSUME NEW S, NEW s \in Seq(S), NEW d
    PROVE  Range(Append(s, d)) = Range(s) \cup {d}
<1>1. /\ Len(s) \in Nat
      /\ DOMAIN s = 1..Len(s)
      /\ DOMAIN Append(s, d) = 1..(Len(s) + 1)
      /\ Append(s, d)[Len(s) + 1] = d
      /\ \A i \in 1..Len(s) : Append(s, d)[i] = s[i]
    OBVIOUS
<1>2. \A i \in 1..(Len(s) + 1) : i \in 1..Len(s) \/ i = Len(s) + 1
    BY <1>1
<1>3. 1..Len(s) \subseteq 1..(Len(s) + 1) /\ Len(s) + 1 \in 1..(Len(s) + 1)
    BY <1>1
<1> QED
    BY <1>1, <1>2, <1>3 DEF Range

(* The sort key is an integer, and no two waiters have the same one: the   *)
(* sort of _reorderWaiters never depends on how the library breaks ties.   *)
LEMMA KeysDiffer ==
    ASSUME NEW S, NEW ord \in Seq(S), NEW q \in Seq(S),
           NEW d \in Range(q), NEW e \in Range(q)
    PROVE  /\ QueueKey(ord, q, d) \in Int
           /\ QueueKey(ord, q, d) = QueueKey(ord, q, e) => d = e
<1>1. /\ PlaceIn(q, d) \in 1..Len(q) /\ q[PlaceIn(q, d)] = d
      /\ PlaceIn(q, e) \in 1..Len(q) /\ q[PlaceIn(q, e)] = e
    BY PlaceIsPosition
<1>2. d \in Range(ord) =>
          PlaceIn(ord, d) \in 1..Len(ord) /\ ord[PlaceIn(ord, d)] = d
    BY PlaceIsPosition
<1>3. e \in Range(ord) =>
          PlaceIn(ord, e) \in 1..Len(ord) /\ ord[PlaceIn(ord, e)] = e
    BY PlaceIsPosition
<1>4. Len(ord) \in Nat /\ Len(q) \in Nat
    OBVIOUS
<1> QED
    BY <1>1, <1>2, <1>3, <1>4 DEF QueueKey

(* An arrangement of S by a strict key lists every member of S, once.      *)
LEMMA SortedIsArrangement ==
    ASSUME NEW S, IsFiniteSet(S), NEW key \in [S -> Int],
           NEW f \in Sorted(S, key)
    PROVE  /\ f \in Seq(S)
           /\ Range(f) = S
           /\ \A i, j \in DOMAIN f : f[i] = f[j] => i = j
<1> DEFINE c == Cardinality(S)
<1>1. c \in Nat
    BY FS_CardinalityType
<1>2. f \in [1..c -> S] /\ \A i, j \in 1..c : i < j => key[f[i]] < key[f[j]]
    BY DEF Sorted
<1>3. \A i, j \in 1..c : f[i] = f[j] => i = j
    <2>1. SUFFICES ASSUME NEW i \in 1..c, NEW j \in 1..c, f[i] = f[j], i # j
                   PROVE  FALSE
        OBVIOUS
    <2>2. i \in Int /\ j \in Int /\ key[f[i]] \in Int /\ key[f[j]] \in Int
        BY <1>1, <1>2
    <2>3. i < j \/ j < i
        BY <2>1, <2>2
    <2> QED
        BY <1>2, <2>1, <2>2, <2>3
<1>4. f \in Injection(1..c, S)
    BY <1>2, <1>3 DEF Injection, IsInjective
<1>5. Cardinality(1..c) = Cardinality(S)
    BY <1>1, FS_Interval
<1>6. f \in Surjection(1..c, S)
    BY <1>4, <1>5, FS_Injection
<1>7. Range(f) = S
    BY <1>2, <1>6 DEF Surjection, Range
<1> QED
    BY <1>1, <1>2, <1>3, <1>7

-----------------------------------------------------------------------------
(* The dispatch.                                                           *)

(* What a caller of Dispatch owes it: a list of exactly the waiting        *)
(* downloads and slots that match the holders, under the phases it hands   *)
(* over.                                                                   *)
HeldIn(ph) == {d \in Downloads : ph[d] \in {"launching", "running"}}

DispatchPre(q, n, busy, max, ph) ==
    /\ q \in Seq(Downloads)
    /\ n \in Nat
    /\ max \in Nat \ {0}
    /\ order \in Orders
    /\ ph \in [Downloads -> Phases]
    /\ Range(q) = {d \in Downloads : ph[d] = "waiting"}
    /\ n = Cardinality(HeldIn(ph))
    /\ busy = SourcesOf(HeldIn(ph))
    /\ \A d, e \in HeldIn(ph) : SourceOf[d] = SourceOf[e] => d = e

(* Granted downloads are waiting ones, of different idle sources.          *)
LEMMA GrantsDiffer ==
    ASSUME NEW q, NEW busy, NEW n, NEW max, NEW key,
           \A d, e \in Range(q) :
               /\ key[d] \in Int
               /\ key[d] = key[e] => d = e,
           NEW G, G = Granted(Eligible(q, key, busy), key, n, max)
    PROVE  /\ G \subseteq Range(q)
           /\ \A d \in G : SourceOf[d] \notin busy
           /\ \A d, e \in G : SourceOf[d] = SourceOf[e] => d = e
<1>1. G \subseteq Eligible(q, key, busy)
    BY DEF Granted
<1>2. G \subseteq Range(q) /\ \A d \in G : SourceOf[d] \notin busy
    BY <1>1 DEF Eligible
<1>3. ASSUME NEW d \in G, NEW e \in G, SourceOf[d] = SourceOf[e]
      PROVE  d = e
    <2>1. d \in Range(q) /\ e \in Range(q)
        BY <1>2
    <2>2. /\ key[d] \in Int /\ key[e] \in Int
          /\ key[d] = key[e] => d = e
        BY <2>1
    <2>3. ~(key[d] < key[e]) /\ ~(key[e] < key[d])
        BY <1>1, <1>3, <2>1 DEF Eligible
    <2> QED
        BY <2>2, <2>3
<1> QED
    BY <1>2, <1>3

(* A dispatch whose caller kept its side re-establishes the invariant.     *)
LEMMA DispatchKeepsInvariant ==
    ASSUME NEW q, NEW n, NEW busy, NEW max, NEW ph,
           DispatchPre(q, n, busy, max, ph),
           Dispatch(q, n, busy, max, ph),
           maxConcurrent' = max, order' \in Orders
    PROVE  GateInv'
<1> DEFINE ord == IF n < max THEN order ELSE << >>
           key == [d \in Range(q) |-> QueueKey(ord, q, d)]
           G == Granted(Eligible(q, key, busy), key, n, max)
           S == Range(q) \ G
           H == HeldIn(ph)
<1> USE DownloadsAssumption, OrdersAssumption
<1>1. /\ waiters' \in Sorted(S, key)
      /\ active' = n + Cardinality(G)
      /\ activeSources' = busy \cup SourcesOf(G)
      /\ phase' = [d \in Downloads |-> IF d \in G THEN "launching" ELSE ph[d]]
    BY DEF Dispatch
<1>2. ord \in Seq(Downloads) /\ q \in Seq(Downloads) /\ ph \in [Downloads -> Phases]
    BY DEF DispatchPre
<1>3. /\ G \subseteq Range(q)
      /\ \A d \in G : SourceOf[d] \notin busy
      /\ \A d, e \in G : SourceOf[d] = SourceOf[e] => d = e
    <2>1. \A d, e \in Range(q) :
              /\ key[d] \in Int
              /\ key[d] = key[e] => d = e
        BY <1>2, KeysDiffer
    <2>2. G = Granted(Eligible(q, key, busy), key, n, max)
        OBVIOUS
    <2> HIDE DEF ord, key, G
    <2> QED
        BY <2>1, <2>2, GrantsDiffer
<1>4. Range(q) = {d \in Downloads : ph[d] = "waiting"}
    BY DEF DispatchPre
<1>5. key \in [Range(q) -> Int]
    BY <1>2, KeysDiffer
<1> HIDE DEF ord, key, G
<1>6. G \subseteq Downloads /\ S \subseteq Downloads /\ H \subseteq Downloads
    BY <1>3, <1>4 DEF HeldIn
<1>7. IsFiniteSet(G) /\ IsFiniteSet(S) /\ IsFiniteSet(H)
    BY <1>6, FS_Subset
<1>8. /\ waiters' \in Seq(S)
      /\ Range(waiters') = S
      /\ \A i, j \in DOMAIN waiters' : waiters'[i] = waiters'[j] => i = j
    <2>1. [d \in S |-> key[d]] \in [S -> Int]
        BY <1>5
    <2>2. waiters' \in Sorted(S, [d \in S |-> key[d]])
        <3>1. waiters' \in [1..Cardinality(S) -> S]
            BY <1>1 DEF Sorted
        <3>2. \A i, j \in 1..Cardinality(S) :
                  i < j => key[waiters'[i]] < key[waiters'[j]]
            BY <1>1 DEF Sorted
        <3> QED
            BY <3>1, <3>2 DEF Sorted
    <2> QED
        BY <1>7, <2>1, <2>2, SortedIsArrangement
<1>9. Waiting' = S
    BY <1>1, <1>2, <1>3, <1>4, <1>6 DEF Waiting, In
<1>10. Held' = H \cup G
    BY <1>1, <1>2, <1>4, <1>6, <1>3 DEF Held, In, HeldIn
<1>11. H \cap G = {}
    BY <1>3, <1>4 DEF HeldIn
<1>12. /\ busy = SourcesOf(H) /\ n = Cardinality(H) /\ n \in Nat
       /\ \A d, e \in H : SourceOf[d] = SourceOf[e] => d = e
    BY DEF DispatchPre
<1>13. ListIsWaiting'
    BY <1>8, <1>9 DEF ListIsWaiting
<1>14. SlotsMatchHolders'
    <2>1. Cardinality(H \cup G) = Cardinality(H) + Cardinality(G)
        <3>1. Cardinality(H \cup G)
                  = Cardinality(H) + Cardinality(G) - Cardinality(H \cap G)
            BY <1>7, FS_Union
        <3>2. Cardinality(H \cap G) = 0
            BY <1>11, FS_EmptySet
        <3>3. Cardinality(H) \in Nat /\ Cardinality(G) \in Nat
            BY <1>7, FS_CardinalityType
        <3> QED
            BY <3>1, <3>2, <3>3
    <2>2. SourcesOf(H \cup G) = SourcesOf(H) \cup SourcesOf(G)
        BY DEF SourcesOf
    <2>3. \A d, e \in H \cup G : SourceOf[d] = SourceOf[e] => d = e
        BY <1>3, <1>12 DEF SourcesOf
    <2> QED
        BY <1>1, <1>10, <1>12, <2>1, <2>2, <2>3 DEF SlotsMatchHolders
<1>15. TypeOK'
    <2>1. active' \in Nat
        BY <1>1, <1>7, <1>12, FS_CardinalityType
    <2>2. maxConcurrent' \in Nat \ {0}
        BY DEF DispatchPre
    <2>3. activeSources' \subseteq SourcesOf(Downloads)
        BY <1>1, <1>6, <1>12 DEF SourcesOf
    <2>4. waiters' \in Seq(Downloads)
        BY <1>6, <1>8
    <2>5. phase' \in [Downloads -> Phases]
        BY <1>1, <1>2 DEF Phases
    <2> QED
        BY <2>1, <2>2, <2>3, <2>4, <2>5 DEF TypeOK
<1> QED
    BY <1>13, <1>14, <1>15 DEF GateInv

-----------------------------------------------------------------------------
(* The operations.                                                         *)

(* The gate starts with nobody in it.                                      *)
LEMMA InitEstablishes == Init => GateInv
<1> SUFFICES ASSUME Init PROVE GateInv
    OBVIOUS
<1>1. Held = {} /\ Waiting = {} /\ Range(waiters) = {}
    BY DEF Init, Held, Waiting, In, Range
<1> QED
    BY <1>1, FS_EmptySet
    DEF Init, GateInv, TypeOK, ListIsWaiting, SlotsMatchHolders, SourcesOf, Phases

(* acquire owes the dispatch a list with the newcomer at its end, once,    *)
(* and slots that still match the holders.                                 *)
LEMMA AcquireOwes ==
    ASSUME GateInv, NEW d \in Downloads, NEW l \in Limits, Acquire(d, l)
    PROVE  DispatchPre(Append(waiters, d), active, activeSources, maxConcurrent',
                       [phase EXCEPT ![d] = "waiting"])
<1> DEFINE ph == [phase EXCEPT ![d] = "waiting"]
           q == Append(waiters, d)
<1> USE DEF GateInv, TypeOK
<1>1. phase[d] = "out"
    BY DEF Acquire
<1>2. maxConcurrent' \in Nat \ {0}
    BY LimitsAssumption DEF Acquire
<1>3. HeldIn(ph) = Held
    BY <1>1 DEF HeldIn, Held, In, Phases
<1>4. Range(q) = {e \in Downloads : ph[e] = "waiting"}
    <2>1. Range(q) = Range(waiters) \cup {d}
        BY RangeOfAppend
    <2> QED
        BY <2>1 DEF ListIsWaiting, Waiting, In
<1>5. q \in Seq(Downloads)
    OBVIOUS
<1>6. ph \in [Downloads -> Phases]
    BY DEF Phases
<1>7. DispatchPre(q, active, activeSources, maxConcurrent', ph)
    <2> HIDE DEF q, ph
    <2> QED
        BY <1>2, <1>3, <1>4, <1>5, <1>6 DEF DispatchPre, SlotsMatchHolders
<1> QED
    BY <1>7

(* acquire keeps the invariant. *)
LEMMA AcquireKeeps ==
    ASSUME GateInv, NEW d \in Downloads, NEW l \in Limits, Acquire(d, l)
    PROVE  GateInv'
<1>1. Dispatch(Append(waiters, d), active, activeSources, maxConcurrent',
               [phase EXCEPT ![d] = "waiting"])
    BY DEF Acquire
<1>2. order' \in Orders
    BY DEF Acquire, GateInv, TypeOK
<1> QED
    BY <1>1, <1>2, AcquireOwes, DispatchKeepsInvariant

(* release takes the holder's slot and its source out before it            *)
(* dispatches, and nobody else has that source.                            *)
LEMMA ReleaseOwes ==
    ASSUME GateInv, NEW d \in Downloads, Release(d)
    PROVE  DispatchPre(waiters, IF active > 0 THEN active - 1 ELSE active,
                       activeSources \ {SourceOf[d]}, maxConcurrent,
                       [phase EXCEPT ![d] = "out"])
<1> DEFINE ph == [phase EXCEPT ![d] = "out"]
           n == IF active > 0 THEN active - 1 ELSE active
           busy == activeSources \ {SourceOf[d]}
<1> USE DEF GateInv, TypeOK
<1>1. phase[d] = "running"
    BY DEF Release
<1>2. HeldIn(ph) = Held \ {d} /\ d \in Held
    BY <1>1 DEF HeldIn, Held, In, Phases
<1>3. IsFiniteSet(Held)
    BY DownloadsAssumption, FS_Subset DEF Held, In
<1>4. n \in Nat /\ n = Cardinality(Held \ {d})
    <2>1. Cardinality(Held \ {d}) = Cardinality(Held) - 1
        BY <1>2, <1>3, FS_RemoveElement
    <2>2. Cardinality(Held \ {d}) \in Nat
        BY <1>3, FS_RemoveElement, FS_CardinalityType
    <2> QED
        BY <2>1, <2>2 DEF SlotsMatchHolders
<1>5. busy = SourcesOf(Held \ {d})
    BY <1>2 DEF SlotsMatchHolders, SourcesOf
<1>6. Range(waiters) = {e \in Downloads : ph[e] = "waiting"}
    BY <1>1 DEF ListIsWaiting, Waiting, In
<1> QED
    BY <1>2, <1>4, <1>5, <1>6 DEF DispatchPre, SlotsMatchHolders, Phases

(* release keeps the invariant. *)
LEMMA ReleaseKeeps ==
    ASSUME GateInv, NEW d \in Downloads, Release(d)
    PROVE  GateInv'
<1>1. Dispatch(waiters, IF active > 0 THEN active - 1 ELSE active,
               activeSources \ {SourceOf[d]}, maxConcurrent,
               [phase EXCEPT ![d] = "out"])
    BY DEF Release
<1>2. order' \in Orders /\ maxConcurrent' = maxConcurrent
    BY DEF Release, GateInv, TypeOK
<1> QED
    BY <1>1, <1>2, ReleaseOwes, DispatchKeepsInvariant

(* The end of a start delay moves a holder from reserved to running.       *)
LEMMA LaunchKeeps ==
    ASSUME GateInv, NEW d \in Downloads, Launch(d)
    PROVE  GateInv'
<1> USE DEF GateInv
<1>1. phase' = [phase EXCEPT ![d] = "running"] /\ phase[d] = "launching"
    BY DEF Launch
<1>2. Held' = Held /\ Waiting' = Waiting
    BY <1>1 DEF TypeOK, Held, Waiting, In
<1>3. UNCHANGED <<active, maxConcurrent, activeSources, waiters, order>>
    BY DEF Launch
<1>4. TypeOK'
    BY <1>1, <1>3 DEF TypeOK, Phases
<1>5. ListIsWaiting' /\ SlotsMatchHolders'
    BY <1>2, <1>3 DEF ListIsWaiting, SlotsMatchHolders
<1> QED
    BY <1>4, <1>5

(* A new saved order moves nobody before the next dispatch.                *)
LEMMA SetOrderKeeps ==
    ASSUME GateInv, NEW o \in Orders, SetOrder(o)
    PROVE  GateInv'
BY DEF GateInv, TypeOK, ListIsWaiting, SlotsMatchHolders, SetOrder, Held,
       Waiting, In

(* What leaves the gate alone keeps its invariant.                         *)
LEMMA StutterKeeps ==
    ASSUME GateInv, UNCHANGED gateVars
    PROVE  GateInv'
BY DEF GateInv, TypeOK, ListIsWaiting, SlotsMatchHolders, gateVars, Held,
       Waiting, In

(* Every step of the gate keeps its invariant.                             *)
LEMMA NextKeeps == GateInv /\ [Next]_gateVars => GateInv'
<1> SUFFICES ASSUME GateInv, [Next]_gateVars PROVE GateInv'
    OBVIOUS
<1>1. CASE \E d \in Downloads, l \in Limits : Acquire(d, l)
    BY <1>1, AcquireKeeps
<1>2. CASE \E d \in Downloads : Launch(d)
    BY <1>2, LaunchKeeps
<1>3. CASE \E d \in Downloads : Release(d)
    BY <1>3, ReleaseKeeps
<1>4. CASE \E o \in Orders : SetOrder(o)
    BY <1>4, SetOrderKeeps
<1>5. CASE UNCHANGED gateVars
    BY <1>5, StutterKeeps
<1> QED
    BY <1>1, <1>2, <1>3, <1>4, <1>5 DEF Next

(* The inductive invariant holds in every reachable state.                 *)
THEOREM GateInvariant == Spec => []GateInv
<1>1. Init => GateInv
    BY InitEstablishes
<1>2. GateInv /\ [Next]_gateVars => GateInv'
    BY NextKeeps
<1> QED
    BY <1>1, <1>2, PTL DEF Spec

(* The types, and a limit of at least one whatever setting was read.       *)
THEOREM TypeCorrect == Spec => []TypeOK
<1>1. GateInv => TypeOK
    BY DEF GateInv
<1> QED
    BY <1>1, GateInvariant, PTL

(* One source, one download, and no slot or source that outlives its       *)
(* holder: for any number of downloads, sources, settings and saved orders.*)
THEOREM SlotsCorrect == Spec => []SlotsMatchHolders
<1>1. GateInv => SlotsMatchHolders
    BY DEF GateInv
<1> QED
    BY <1>1, GateInvariant, PTL

(* The waiting list loses and duplicates nobody, however it is reordered.  *)
THEOREM ListCorrect == Spec => []ListIsWaiting
<1>1. GateInv => ListIsWaiting
    BY DEF GateInv
<1> QED
    BY <1>1, GateInvariant, PTL

=============================================================================
