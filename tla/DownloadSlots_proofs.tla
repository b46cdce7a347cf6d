------------------------ MODULE DownloadSlots_proofs ------------------------
(***************************************************************************)
(* The gate gives slots as DownloadSlots promises: every dispatch grants   *)
(* as many waiters as it may, and no more.  From this follow the           *)
(* refinement, that no waiter is stranded, and that admission respects the *)
(* limit, for any finite set of downloads, any sources, settings and saved *)
(* orders.  And the dispatch is the loop of the code: its passes over the  *)
(* reordered list leave exactly what the closed form says.                 *)
(***************************************************************************)
EXTENDS DownloadGate_proofs, SequenceTheorems, WellFoundedInduction

-----------------------------------------------------------------------------
(* Ordering by keys.                                                       *)

(* Among things with natural keys there is a least one.                    *)
LEMMA LeastKey ==
    ASSUME NEW T, T # {}, NEW key, \A d \in T : key[d] \in Nat
    PROVE  \E d \in T : \A e \in T : key[d] <= key[e]
<1> DEFINE K == {key[d] : d \in T}
           R == OpToRel(<, Nat)
<1>1. K \subseteq Nat /\ K # {}
    OBVIOUS
<1>2. \A x, y \in Nat : x < y => <<x, y>> \in R
    BY DEF OpToRel
<1>3. IsWellFoundedOn(R, Nat)
    BY NatLessThanWellFounded DEF OpToRel
<1> HIDE DEF R
<1>4. \E x \in K : \A y \in K : ~(<<y, x>> \in R)
    <2> HIDE DEF K
    <2> QED
        BY <1>1, <1>3, WFMin
<1>5. PICK d \in T : \A y \in K : ~(<<y, key[d]>> \in R)
    BY <1>4
<1>6. \A e \in T : ~(key[e] < key[d])
    BY <1>1, <1>2, <1>5
<1> QED
    BY <1>6

(* And, below a bound, a greatest one.                                     *)
LEMMA GreatestKey ==
    ASSUME NEW T, T # {}, NEW key, NEW bound \in Nat,
           \A d \in T : key[d] \in 0..bound
    PROVE  \E d \in T : \A e \in T : key[e] <= key[d]
<1> DEFINE co == [d \in T |-> bound - key[d]]
<1>1. \A d \in T : co[d] \in Nat
    OBVIOUS
<1>2. PICK d \in T : \A e \in T : co[d] <= co[e]
    <2> HIDE DEF co
    <2> QED
        BY <1>1, LeastKey
<1>3. \A e \in T : key[e] <= key[d]
    BY <1>2
<1> QED
    BY <1>3

(* The sort keys of a dispatch are naturals below a bound.                 *)
LEMMA KeysBounded ==
    ASSUME NEW S, NEW ord \in Seq(S), NEW q \in Seq(S), NEW d \in Range(q)
    PROVE  QueueKey(ord, q, d) \in 0..(Len(ord) + Len(q))
<1>1. PlaceIn(q, d) \in 1..Len(q)
    BY PlaceIsPosition
<1>2. d \in Range(ord) => PlaceIn(ord, d) \in 1..Len(ord)
    BY PlaceIsPosition
<1>3. Len(ord) \in Nat /\ Len(q) \in Nat
    OBVIOUS
<1> QED
    BY <1>1, <1>2, <1>3 DEF QueueKey

-----------------------------------------------------------------------------
(* What a dispatch grants.                                                 *)

(* The n slots in use and the granted ones stay within the limit: the last *)
(* one granted found a free slot after all the others.                     *)
LEMMA GrantsWithinLimit ==
    ASSUME NEW elig, IsFiniteSet(elig), NEW key, NEW bound \in Nat,
           \A d \in elig : key[d] \in 0..bound,
           \A d, e \in elig : key[d] = key[e] => d = e,
           NEW n \in Nat, NEW max \in Nat,
           NEW G, G = Granted(elig, key, n, max), G # {}
    PROVE  n + Cardinality(G) <= max
<1>1. G \subseteq elig /\ IsFiniteSet(G)
    BY FS_Subset DEF Granted
<1>2. PICK g \in G : \A e \in G : key[e] <= key[g]
    BY <1>1, GreatestKey
<1> DEFINE B == {e \in elig : key[e] < key[g]}
<1>3. B \subseteq elig /\ IsFiniteSet(B) /\ Cardinality(B) \in Nat
    BY FS_Subset, FS_CardinalityType
<1>4. n + Cardinality(B) < max
    BY DEF Granted
<1>5. G \subseteq B \cup {g}
    BY <1>1, <1>2
<1>6. /\ IsFiniteSet(B \cup {g})
      /\ Cardinality(B \cup {g}) <= Cardinality(B) + 1
    BY <1>3, FS_AddElement
<1>7. Cardinality(G) <= Cardinality(B \cup {g}) /\ Cardinality(G) \in Nat
    BY <1>1, <1>5, <1>6, FS_Subset, FS_CardinalityType
<1>8. Cardinality(B \cup {g}) \in Nat
    BY <1>6, FS_CardinalityType
<1> QED
    BY <1>3, <1>4, <1>6, <1>7, <1>8

(* An eligible waiter is passed over only when the slots are used up: all  *)
(* those before the first one passed over have been granted.               *)
LEMMA GrantsUseSlots ==
    ASSUME NEW elig, IsFiniteSet(elig), NEW key,
           \A d \in elig : key[d] \in Nat,
           NEW n \in Nat, NEW max \in Nat,
           NEW G, G = Granted(elig, key, n, max), elig \ G # {}
    PROVE  n + Cardinality(G) >= max
<1>1. G \subseteq elig /\ IsFiniteSet(G)
    BY FS_Subset DEF Granted
<1>2. PICK e \in elig \ G : \A d \in elig \ G : key[e] <= key[d]
    BY LeastKey
<1> DEFINE B == {d \in elig : key[d] < key[e]}
<1>3. ~(n + Cardinality(B) < max)
    BY DEF Granted
<1>4. B \subseteq G
    BY <1>2
<1>5. Cardinality(B) <= Cardinality(G)
    BY <1>1, <1>4, FS_Subset
<1>6. Cardinality(B) \in Nat /\ Cardinality(G) \in Nat
    BY <1>1, <1>4, FS_Subset, FS_CardinalityType
<1> QED
    BY <1>3, <1>5, <1>6

(* A waiter of an idle source that is passed over has somebody of its      *)
(* source, itself or one before it, who is eligible.                       *)
LEMMA IdleSourceIsEligible ==
    ASSUME NEW q, NEW busy, NEW key, \A e \in Range(q) : key[e] \in Nat,
           NEW d \in Range(q), SourceOf[d] \notin busy
    PROVE  \E e \in Eligible(q, key, busy) : /\ SourceOf[e] = SourceOf[d]
                                             /\ key[e] <= key[d]
<1> DEFINE T == {e \in Range(q) : SourceOf[e] = SourceOf[d]}
<1>1. T # {} /\ \A e \in T : key[e] \in Nat
    OBVIOUS
<1>2. PICK e \in T : \A f \in T : key[e] <= key[f]
    <2> HIDE DEF T
    <2> QED
        BY <1>1, LeastKey
<1>3. \A f \in Range(q) : key[f] < key[e] => SourceOf[f] # SourceOf[e]
    BY <1>1, <1>2
<1>4. key[e] <= key[d]
    BY <1>2
<1> QED
    BY <1>3, <1>4 DEF Eligible

(* Whoever stands before a granted eligible waiter has been granted too:   *)
(* it found at least as many slots free.                                   *)
LEMMA GrantsFromTheFront ==
    ASSUME NEW elig, IsFiniteSet(elig), NEW key,
           \A d \in elig : key[d] \in Nat,
           NEW n \in Nat, NEW max \in Nat,
           NEW G, G = Granted(elig, key, n, max),
           NEW d \in G, NEW e \in elig, key[e] <= key[d]
    PROVE  e \in G
<1> DEFINE B(x) == {f \in elig : key[f] < key[x]}
<1>1. d \in elig /\ n + Cardinality(B(d)) < max
    BY DEF Granted
<1>2. B(e) \subseteq B(d)
    BY <1>1
<1>3. IsFiniteSet(B(d)) /\ IsFiniteSet(B(e))
    BY FS_Subset
<1>4. Cardinality(B(e)) <= Cardinality(B(d))
    BY <1>2, <1>3, FS_Subset
<1>5. Cardinality(B(e)) \in Nat /\ Cardinality(B(d)) \in Nat
    BY <1>3, FS_CardinalityType
<1>6. n + Cardinality(B(e)) < max
    <2> HIDE DEF B
    <2> QED
        BY <1>1, <1>4, <1>5
<1> QED
    BY <1>6 DEF Granted

(* A dispatch admits as DownloadSlots says: different idle sources, within *)
(* the limit, and as many as possible.                                     *)
LEMMA DispatchAdmits ==
    ASSUME NEW q, NEW n, NEW busy, NEW max, NEW ph,
           DispatchPre(q, n, busy, max, ph),
           Dispatch(q, n, busy, max, ph),
           maxConcurrent' = max
    PROVE  Slots!Admit(Range(q), HeldIn(ph), max)
<1> DEFINE ord == IF n < max THEN order ELSE << >>
           key == [d \in Range(q) |-> QueueKey(ord, q, d)]
           elig == Eligible(q, key, busy)
           G == Granted(elig, key, n, max)
           H == HeldIn(ph)
           bound == Len(ord) + Len(q)
<1> USE DownloadsAssumption, OrdersAssumption
<1>1. phase' = [d \in Downloads |-> IF d \in G THEN "launching" ELSE ph[d]]
    BY DEF Dispatch
<1>2. ord \in Seq(Downloads) /\ q \in Seq(Downloads) /\ ph \in [Downloads -> Phases]
    BY DEF DispatchPre
<1>3. /\ n \in Nat /\ max \in Nat /\ n = Cardinality(H) /\ busy = SourcesOf(H)
      /\ Range(q) = {d \in Downloads : ph[d] = "waiting"}
    BY DEF DispatchPre
<1>4. bound \in Nat
    BY <1>2
<1>5. \A d \in Range(q) : key[d] \in 0..bound
    BY <1>2, KeysBounded
<1>6. \A d, e \in Range(q) : key[d] = key[e] => d = e
    BY <1>2, KeysDiffer
<1> HIDE DEF ord, key, bound
<1>7. elig \subseteq Range(q) /\ IsFiniteSet(elig)
    BY <1>3, FS_Subset DEF Eligible
<1>8. \A d \in Range(q) : key[d] \in Int /\ key[d] \in Nat
    BY <1>4, <1>5
<1>9. /\ G \subseteq Range(q)
      /\ \A d \in G : SourceOf[d] \notin busy
      /\ \A d, e \in G : SourceOf[d] = SourceOf[e] => d = e
    <2>1. G = Granted(Eligible(q, key, busy), key, n, max)
        OBVIOUS
    <2> HIDE DEF elig, G
    <2> QED
        BY <1>6, <1>8, <2>1, GrantsDiffer
<1>10. G # {} => n + Cardinality(G) <= max
    <2> HIDE DEF elig
    <2> QED
        BY <1>3, <1>4, <1>5, <1>6, <1>7, GrantsWithinLimit
<1>11. elig \ G # {} => n + Cardinality(G) >= max
    <2> HIDE DEF elig
    <2> QED
        BY <1>3, <1>7, <1>8, GrantsUseSlots
<1>12. ASSUME NEW d \in Range(q), SourceOf[d] \notin busy,
              ~(n + Cardinality(G) >= max)
       PROVE  SourceOf[d] \in SourcesOf(G)
    <2>1. PICK e \in elig : SourceOf[e] = SourceOf[d]
        BY <1>8, <1>12, IdleSourceIsEligible
    <2>2. e \in G
        BY <1>11, <1>12
    <2> QED
        BY <2>1, <2>2 DEF SourcesOf
<1> HIDE DEF elig, G
<1>13. G \in Slots!Admissible(Range(q), H, max)
    <2>1. Slots!SourcesOf(G) \cap Slots!SourcesOf(H) = {}
        BY <1>3, <1>9 DEF Slots!SourcesOf, SourcesOf
    <2>2. Slots!SourcesOf(H \cup G) = SourcesOf(H) \cup SourcesOf(G)
        BY DEF Slots!SourcesOf, SourcesOf
    <2>3. \A d \in Range(q) \ G : \/ n + Cardinality(G) >= max
                                 \/ SourceOf[d] \in Slots!SourcesOf(H \cup G)
        BY <1>3, <1>12, <2>2
    <2> QED
        BY <1>3, <1>9, <1>10, <2>1, <2>3
        DEF Slots!Admissible, Slots!Cardinality, Cardinality
<1>14. Waiting' = Range(q) \ G
    BY <1>1, <1>3, <1>9 DEF Waiting, In
<1>15. Held' = H \cup G
    BY <1>1, <1>3, <1>9 DEF Held, In, HeldIn
<1> QED
    BY <1>13, <1>14, <1>15 DEF Slots!Admit

-----------------------------------------------------------------------------
(* The operations implement those of DownloadSlots.                        *)

(* acquire is a request. *)
LEMMA AcquireRequests ==
    ASSUME GateInv, NEW d \in Downloads, NEW l \in Limits, Acquire(d, l)
    PROVE  Slots!Request(d, l)
<1> DEFINE ph == [phase EXCEPT ![d] = "waiting"]
           q == Append(waiters, d)
<1>1. DispatchPre(q, active, activeSources, maxConcurrent', ph)
    BY AcquireOwes
<1>2. Dispatch(q, active, activeSources, maxConcurrent', ph)
    BY DEF Acquire
<1>3. Slots!Admit(Range(q), HeldIn(ph), maxConcurrent')
    <2> HIDE DEF q, ph
    <2> QED
        BY <1>1, <1>2, DispatchAdmits
<1>4. Range(q) = Waiting \cup {d}
    BY RangeOfAppend DEF GateInv, TypeOK, ListIsWaiting
<1>5. HeldIn(ph) = Held /\ d \notin Waiting \cup Held
    BY DEF Acquire, GateInv, TypeOK, HeldIn, Held, Waiting, In, Phases
<1>6. maxConcurrent' = IF l < 1 THEN 1 ELSE l
    BY DEF Acquire
<1> QED
    BY <1>3, <1>4, <1>5, <1>6 DEF Slots!Request

(* release is a return. *)
LEMMA ReleaseFinishes ==
    ASSUME GateInv, NEW d \in Downloads, Release(d)
    PROVE  Slots!Finish(d)
<1> DEFINE ph == [phase EXCEPT ![d] = "out"]
           n == IF active > 0 THEN active - 1 ELSE active
           busy == activeSources \ {SourceOf[d]}
<1>1. DispatchPre(waiters, n, busy, maxConcurrent, ph)
    BY ReleaseOwes
<1>2. Dispatch(waiters, n, busy, maxConcurrent, ph) /\ maxConcurrent' = maxConcurrent
    BY DEF Release
<1>3. Slots!Admit(Range(waiters), HeldIn(ph), maxConcurrent)
    <2> HIDE DEF n, busy, ph
    <2> QED
        BY <1>1, <1>2, DispatchAdmits
<1>4. Range(waiters) = Waiting
    BY DEF GateInv, ListIsWaiting
<1>5. HeldIn(ph) = Held \ {d} /\ d \in Held
    BY DEF Release, GateInv, TypeOK, HeldIn, Held, In, Phases
<1> QED
    BY <1>3, <1>4, <1>5 DEF Slots!Finish

(* The start delay and the saved order are none of its business.           *)
LEMMA OthersStutter ==
    ASSUME GateInv,
           \/ \E d \in Downloads : Launch(d)
           \/ \E o \in Orders : SetOrder(o)
           \/ UNCHANGED gateVars
    PROVE  UNCHANGED <<maxConcurrent, Waiting, Held>>
BY DEF GateInv, TypeOK, Launch, SetOrder, gateVars, Held, Waiting, In

(* Every step of the gate is a step of DownloadSlots, or a stutter.        *)
LEMMA NextRefines == GateInv /\ [Next]_gateVars => [Slots!SlotsNext]_(Slots!slotVars)
<1> SUFFICES ASSUME GateInv, [Next]_gateVars
             PROVE  [Slots!SlotsNext]_(Slots!slotVars)
    OBVIOUS
<1>1. CASE \E d \in Downloads, l \in Limits : Acquire(d, l)
    BY <1>1, AcquireRequests DEF Slots!SlotsNext
<1>2. CASE \E d \in Downloads : Release(d)
    BY <1>2, ReleaseFinishes DEF Slots!SlotsNext
<1>3. CASE \/ \E d \in Downloads : Launch(d)
           \/ \E o \in Orders : SetOrder(o)
           \/ UNCHANGED gateVars
    BY <1>3, OthersStutter DEF Slots!slotVars
<1> QED
    BY <1>1, <1>2, <1>3 DEF Next

-----------------------------------------------------------------------------
(* Theorems.                                                               *)

(* The gate implements the slots it promises.                              *)
THEOREM GateImplementsSlots == Spec => ImplementsSlots
<1>1. Init => Slots!SlotsInit
    BY DEF Init, Slots!SlotsInit, Held, Waiting, In
<1>2. GateInv /\ [Next]_gateVars => [Slots!SlotsNext]_(Slots!slotVars)
    BY NextRefines
<1> QED
    BY <1>1, <1>2, GateInvariant, PTL DEF Spec, ImplementsSlots, Slots!SlotsSpec

(* No lost wake-up: the gate can be read off DownloadSlots as long as its  *)
(* counter and its busy sources are those of the holders.                  *)
NoWaiterLeft ==
    Cardinality(Held) < maxConcurrent =>
        \A d \in Waiting : SourceOf[d] \in SourcesOf(Held)

(* A step that admits leaves nobody behind, and stays within the limit.    *)
LEMMA AdmitServes ==
    ASSUME NEW w, NEW h, NEW l \in Nat, IsFiniteSet(w), IsFiniteSet(h),
           w \cap h = {}, Slots!Admit(w, h, l)
    PROVE  /\ NoWaiterLeft'
           /\ Held' \ h # {} => Cardinality(Held') <= maxConcurrent'
<1>1. PICK G \in Slots!Admissible(w, h, l) :
          maxConcurrent' = l /\ Waiting' = w \ G /\ Held' = h \cup G
    BY DEF Slots!Admit
<1>2. /\ G \subseteq w
      /\ G # {} => Cardinality(h) + Cardinality(G) <= l
      /\ \A d \in w \ G : \/ Cardinality(h) + Cardinality(G) >= l
                          \/ SourceOf[d] \in SourcesOf(h \cup G)
    BY DEF Slots!Admissible, Slots!SourcesOf, SourcesOf, Slots!Cardinality,
           Cardinality
<1>3. IsFiniteSet(G) /\ h \cap G = {}
    BY <1>2, FS_Subset
<1>4. Cardinality(h \cup G) = Cardinality(h) + Cardinality(G) - Cardinality(h \cap G)
    BY <1>3, FS_Union
<1>5. Cardinality(h \cap G) = 0
    BY <1>3, FS_EmptySet
<1>6. Cardinality(h) \in Nat /\ Cardinality(G) \in Nat
    BY <1>3, FS_CardinalityType
<1>7. Cardinality(Held') = Cardinality(h) + Cardinality(G)
    BY <1>1, <1>4, <1>5, <1>6
<1>8. NoWaiterLeft'
    <2> SUFFICES ASSUME Cardinality(Held') < l, NEW d \in w \ G
                 PROVE  SourceOf[d] \in SourcesOf(h \cup G)
        BY <1>1 DEF NoWaiterLeft, SourcesOf
    <2>1. ~(Cardinality(h) + Cardinality(G) >= l)
        BY <1>6, <1>7
    <2> QED
        BY <1>2, <2>1
<1>9. Held' \ h # {} => Cardinality(Held') <= maxConcurrent'
    BY <1>1, <1>2, <1>7
<1> QED
    BY <1>8, <1>9

(* acquire and release serve; nothing else admits anybody.                 *)
LEMMA NextServes ==
    ASSUME GateInv, [Next]_gateVars
    PROVE  /\ NoWaiterLeft => NoWaiterLeft'
           /\ Held' \ Held # {} => Cardinality(Held') <= maxConcurrent'
<1>1. IsFiniteSet(Waiting) /\ IsFiniteSet(Held) /\ Waiting \cap Held = {}
    BY DownloadsAssumption, FS_Subset DEF Waiting, Held, In
<1>2. CASE \E d \in Downloads, l \in Limits : Acquire(d, l)
    <2>1. PICK d \in Downloads, l \in Limits : Acquire(d, l)
        BY <1>2
    <2>2. /\ Slots!Admit(Waiting \cup {d}, Held, IF l < 1 THEN 1 ELSE l)
          /\ d \notin Held
        BY <2>1, AcquireRequests DEF Slots!Request
    <2>3. (IF l < 1 THEN 1 ELSE l) \in Nat
        BY LimitsAssumption
    <2>4. IsFiniteSet(Waiting \cup {d}) /\ (Waiting \cup {d}) \cap Held = {}
        BY <1>1, <2>2, FS_AddElement
    <2> QED
        BY <1>1, <2>2, <2>3, <2>4, AdmitServes
<1>3. CASE \E d \in Downloads : Release(d)
    <2>1. PICK d \in Downloads : Release(d)
        BY <1>3
    <2>2. Slots!Admit(Waiting, Held \ {d}, maxConcurrent)
        BY <2>1, ReleaseFinishes DEF Slots!Finish
    <2>3. maxConcurrent \in Nat
        BY DEF GateInv, TypeOK
    <2>4. IsFiniteSet(Held \ {d}) /\ Waiting \cap (Held \ {d}) = {}
        BY <1>1, FS_RemoveElement
    <2>5. /\ NoWaiterLeft'
          /\ Held' \ (Held \ {d}) # {} => Cardinality(Held') <= maxConcurrent'
        BY <1>1, <2>2, <2>3, <2>4, AdmitServes
    <2>6. Held' \ Held # {} => Held' \ (Held \ {d}) # {}
        OBVIOUS
    <2> QED
        BY <2>5, <2>6
<1>4. CASE \/ \E d \in Downloads : Launch(d)
           \/ \E o \in Orders : SetOrder(o)
           \/ UNCHANGED gateVars
    <2>1. UNCHANGED <<maxConcurrent, Waiting, Held>>
        BY <1>4, OthersStutter
    <2> QED
        BY <2>1 DEF NoWaiterLeft, SourcesOf
<1> QED
    BY <1>2, <1>3, <1>4 DEF Next

(* No waiter is left asleep beside a slot it could have.                   *)
THEOREM WaitersServed == Spec => []NoStrandedWaiter
<1>1. Init => NoWaiterLeft
    BY DEF Init, NoWaiterLeft, Waiting, In
<1>2. GateInv /\ NoWaiterLeft /\ [Next]_gateVars => NoWaiterLeft'
    BY NextServes
<1>3. GateInv /\ NoWaiterLeft => NoStrandedWaiter
    BY DEF GateInv, SlotsMatchHolders, ListIsWaiting, NoWaiterLeft,
           NoStrandedWaiter, Range
<1> QED
    BY <1>1, <1>2, <1>3, GateInvariant, PTL DEF Spec

(* A download is admitted into a free slot only.                           *)
THEOREM AdmissionWithinLimit == Spec => AdmitsWithinLimit
<1>1. GateInv /\ [Next]_gateVars =>
          [Held' \ Held # {} => Cardinality(Held') <= maxConcurrent']_gateVars
    BY NextServes
<1> QED
    BY <1>1, GateInvariant, PTL DEF Spec, AdmitsWithinLimit

-----------------------------------------------------------------------------
(* The order of the queue.                                                 *)

(* A newcomer at the end moves nobody who is in the list.                  *)
LEMMA PlaceKept ==
    ASSUME NEW S, NEW s \in Seq(S), NEW x, x \notin Range(s), NEW d \in Range(s),
           \A i, j \in DOMAIN s : s[i] = s[j] => i = j
    PROVE  PlaceIn(Append(s, x), d) = PlaceIn(s, d)
<1> DEFINE t == Append(s, x)
<1>1. PlaceIn(s, d) \in 1..Len(s) /\ s[PlaceIn(s, d)] = d
    BY PlaceIsPosition
<1>2. d \in Range(t)
    BY RangeOfAppend
<1>3. t \in Seq(S \cup {x}) /\ Len(t) = Len(s) + 1
    OBVIOUS
<1>4. PlaceIn(t, d) \in 1..Len(t) /\ t[PlaceIn(t, d)] = d
    <2> HIDE DEF t
    <2> QED
        BY <1>2, <1>3, PlaceIsPosition
<1>5. t[Len(s) + 1] = x /\ \A i \in 1..Len(s) : t[i] = s[i]
    OBVIOUS
<1>6. PlaceIn(t, d) # Len(s) + 1
    BY <1>4, <1>5
<1>7. Len(s) \in Nat /\ DOMAIN s = 1..Len(s)
    OBVIOUS
<1>8. PlaceIn(t, d) \in 1..Len(s)
    BY <1>3, <1>4, <1>6, <1>7
<1>9. s[PlaceIn(t, d)] = s[PlaceIn(s, d)]
    BY <1>1, <1>4, <1>5, <1>8
<1> QED
    BY <1>1, <1>7, <1>8, <1>9

(* The rank the user sees is the key the dispatch sorts by, on the list q  *)
(* that acquire or release hands over.                                     *)
LEMMA RankIsKey ==
    ASSUME NEW q \in Seq(Downloads), order \in Seq(Downloads),
           \A x \in Range(waiters) : PlaceIn(q, x) = PlaceIn(waiters, x),
           NEW d \in Range(q), NEW e \in Range(q), RanksBefore(e, d)
    PROVE  QueueKey(order, q, e) < QueueKey(order, q, d)
<1>1. PlaceIn(q, d) \in 1..Len(q) /\ PlaceIn(q, e) \in 1..Len(q)
    BY PlaceIsPosition
<1>2. d \in Range(order) => PlaceIn(order, d) \in 1..Len(order)
    BY PlaceIsPosition
<1>3. e \in Range(order) => PlaceIn(order, e) \in 1..Len(order)
    BY PlaceIsPosition
<1>4. Len(order) \in Nat /\ Len(q) \in Nat
    OBVIOUS
<1>5. CASE e \in Range(order) /\ d \notin Range(order)
    BY <1>1, <1>3, <1>4, <1>5 DEF QueueKey
<1>6. CASE {e, d} \subseteq Range(order) /\ PlaceIn(order, e) < PlaceIn(order, d)
    BY <1>6 DEF QueueKey
<1>7. CASE /\ {e, d} \cap Range(order) = {}
           /\ {e, d} \subseteq Range(waiters)
           /\ PlaceIn(waiters, e) < PlaceIn(waiters, d)
    <2>1. PlaceIn(q, e) < PlaceIn(q, d)
        BY <1>7
    <2>2. QueueKey(order, q, e) = Len(order) + PlaceIn(q, e)
        BY <1>7 DEF QueueKey
    <2>3. QueueKey(order, q, d) = Len(order) + PlaceIn(q, d)
        BY <1>7 DEF QueueKey
    <2> QED
        BY <1>1, <1>4, <2>1, <2>2, <2>3
<1> QED
    BY <1>5, <1>6, <1>7 DEF RanksBefore

(* A dispatch that grants d and leaves e, which ranks before d, waiting    *)
(* leaves it waiting for a busy source.                                    *)
LEMMA DispatchKeepsOrder ==
    ASSUME NEW q, NEW n, NEW busy, NEW max, NEW ph,
           DispatchPre(q, n, busy, max, ph),
           Dispatch(q, n, busy, max, ph),
           \A x \in Range(waiters) : PlaceIn(q, x) = PlaceIn(waiters, x),
           NEW d \in Held' \ HeldIn(ph), NEW e \in Waiting', RanksBefore(e, d)
    PROVE  SourceOf[e] \in activeSources'
<1> DEFINE ord == IF n < max THEN order ELSE << >>
           key == [x \in Range(q) |-> QueueKey(ord, q, x)]
           elig == Eligible(q, key, busy)
           G == Granted(elig, key, n, max)
           bound == Len(ord) + Len(q)
<1> USE DownloadsAssumption, OrdersAssumption
<1>1. /\ phase' = [x \in Downloads |-> IF x \in G THEN "launching" ELSE ph[x]]
      /\ activeSources' = busy \cup SourcesOf(G)
    BY DEF Dispatch
<1>2. /\ q \in Seq(Downloads) /\ ph \in [Downloads -> Phases]
      /\ n \in Nat /\ max \in Nat /\ order \in Seq(Downloads)
      /\ Range(q) = {x \in Downloads : ph[x] = "waiting"}
    BY DEF DispatchPre
<1>3. ord \in Seq(Downloads)
    BY <1>2
<1>4. bound \in Nat /\ \A x \in Range(q) : key[x] \in 0..bound
    BY <1>2, <1>3, KeysBounded
<1>5. d \in G /\ e \in Range(q)
    <2> HIDE DEF G
    <2> QED
        BY <1>1, <1>2 DEF Held, Waiting, In, HeldIn
<1>6. elig \subseteq Range(q) /\ IsFiniteSet(elig)
    BY <1>2, FS_Subset DEF Eligible
<1>7. d \in elig /\ n < max
    <2> DEFINE B == {x \in elig : key[x] < key[d]}
    <2>1. d \in elig /\ n + Cardinality(B) < max
        BY <1>5 DEF Granted
    <2>2. Cardinality(B) \in Nat
        BY <1>6, FS_Subset, FS_CardinalityType
    <2> HIDE DEF B, elig
    <2> QED
        BY <1>2, <2>1, <2>2
<1>8. QueueKey(order, q, e) < QueueKey(order, q, d)
    BY <1>2, <1>5, <1>6, <1>7, RankIsKey
<1>9. key[e] < key[d]
    BY <1>5, <1>6, <1>7, <1>8
<1> HIDE DEF ord, key, bound
<1>10. \A x \in Range(q) : key[x] \in Nat
    BY <1>4
<1>11. CASE SourceOf[e] \in busy
    BY <1>1, <1>11
<1>12. CASE SourceOf[e] \notin busy
    <2>1. PICK f \in elig : SourceOf[f] = SourceOf[e] /\ key[f] <= key[e]
        BY <1>5, <1>10, <1>12, IdleSourceIsEligible
    <2> HIDE DEF elig
    <2>2. key[f] <= key[d]
        BY <1>5, <1>6, <1>7, <1>9, <1>10, <2>1
    <2>3. \A x \in elig : key[x] \in Nat
        BY <1>6, <1>10
    <2>4. f \in G
        <3>1. G = Granted(elig, key, n, max)
            OBVIOUS
        <3> HIDE DEF G
        <3> QED
            BY <1>2, <1>5, <1>6, <2>2, <2>3, <3>1, GrantsFromTheFront
    <2> QED
        BY <1>1, <2>1, <2>4 DEF SourcesOf
<1> QED
    BY <1>11, <1>12

(* Every step honours the saved order: acquire and release by their        *)
(* dispatch, the others admit nobody.                                      *)
LEMMA NextKeepsOrder ==
    ASSUME GateInv, [Next]_gateVars,
           NEW d \in Held' \ Held, NEW e \in Waiting \cap Waiting',
           RanksBefore(e, d)
    PROVE  SourceOf[e] \in activeSources'
<1>1. CASE \E x \in Downloads, l \in Limits : Acquire(x, l)
    <2>1. PICK x \in Downloads, l \in Limits : Acquire(x, l)
        BY <1>1
    <2> DEFINE ph == [phase EXCEPT ![x] = "waiting"]
               q == Append(waiters, x)
    <2>2. DispatchPre(q, active, activeSources, maxConcurrent', ph)
        BY <2>1, AcquireOwes
    <2>3. Dispatch(q, active, activeSources, maxConcurrent', ph)
        BY <2>1 DEF Acquire
    <2>4. HeldIn(ph) = Held
        BY <2>1 DEF Acquire, GateInv, TypeOK, HeldIn, Held, In, Phases
    <2>5. x \notin Range(waiters)
        BY <2>1 DEF Acquire, GateInv, ListIsWaiting, Waiting, In
    <2>6. \A y \in Range(waiters) : PlaceIn(q, y) = PlaceIn(waiters, y)
        BY <2>5, PlaceKept DEF GateInv, TypeOK, ListIsWaiting
    <2> HIDE DEF q, ph
    <2> QED
        BY <2>2, <2>3, <2>4, <2>6, DispatchKeepsOrder
<1>2. CASE \E x \in Downloads : Release(x)
    <2>1. PICK x \in Downloads : Release(x)
        BY <1>2
    <2> DEFINE ph == [phase EXCEPT ![x] = "out"]
               n == IF active > 0 THEN active - 1 ELSE active
               busy == activeSources \ {SourceOf[x]}
    <2>2. DispatchPre(waiters, n, busy, maxConcurrent, ph)
        BY <2>1, ReleaseOwes
    <2>3. Dispatch(waiters, n, busy, maxConcurrent, ph)
        BY <2>1 DEF Release
    <2>4. HeldIn(ph) \subseteq Held
        BY <2>1 DEF Release, GateInv, TypeOK, HeldIn, Held, In, Phases
    <2> HIDE DEF n, busy, ph
    <2> QED
        BY <2>2, <2>3, <2>4, DispatchKeepsOrder
<1>3. CASE \/ \E x \in Downloads : Launch(x)
           \/ \E o \in Orders : SetOrder(o)
           \/ UNCHANGED gateVars
    BY <1>3, OthersStutter
<1> QED
    BY <1>1, <1>2, <1>3 DEF Next

(* The saved order is honoured: nobody is admitted past a waiter that      *)
(* ranks before it and could have been admitted.                           *)
THEOREM OrderHonoured == Spec => NoQueueJumping
<1>1. GateInv /\ [Next]_gateVars =>
          [\A d \in Held' \ Held, e \in Waiting \cap Waiting' :
              RanksBefore(e, d) => SourceOf[e] \in activeSources']_gateVars
    BY NextKeepsOrder
<1> QED
    BY <1>1, GateInvariant, PTL DEF Spec, NoQueueJumping

-----------------------------------------------------------------------------
(* Arrangements by a strict key: there is one, and only one.               *)

Ordered(s, key) == \A i, j \in 1..Len(s) : i < j => key[s[i]] < key[s[j]]

(* What Sorted holds, as sequences.                                        *)
LEMMA SortedIs ==
    ASSUME NEW S, IsFiniteSet(S), NEW key, \A d \in S : key[d] \in Int,
           NEW f \in Sorted(S, key)
    PROVE  /\ f \in Seq(S) /\ Len(f) = Cardinality(S) /\ Len(f) \in Nat /\ DOMAIN f = 1..Len(f)
           /\ Range(f) = S /\ Ordered(f, key)
           /\ \A i, j \in 1..Len(f) : f[i] = f[j] => i = j
<1> DEFINE c == Cardinality(S)
           k == [d \in S |-> key[d]]
<1>1. c \in Nat
    BY FS_CardinalityType
<1>2. f \in [1..c -> S] /\ \A i, j \in 1..c : i < j => key[f[i]] < key[f[j]]
    BY DEF Sorted
<1>3. f \in Sorted(S, k) /\ k \in [S -> Int]
    BY <1>2 DEF Sorted
<1> HIDE DEF k
<1>4. /\ f \in Seq(S) /\ Range(f) = S
      /\ \A i, j \in DOMAIN f : f[i] = f[j] => i = j
    BY <1>3, SortedIsArrangement
<1>5. Len(f) = c /\ DOMAIN f = 1..c
    BY <1>1, <1>2, <1>4
<1> HIDE DEF c
<1>6. Ordered(f, key)
    BY <1>2, <1>5 DEF Ordered
<1> QED
    BY <1>1, <1>4, <1>5, <1>6 DEF c

(* And the other way round.                                                *)
LEMMA IsSorted ==
    ASSUME NEW S, IsFiniteSet(S), NEW key, \A d \in S : key[d] \in Int,
           NEW f \in Seq(S), Range(f) = S, Ordered(f, key)
    PROVE  f \in Sorted(S, key)
<1>1. Len(f) \in Nat /\ DOMAIN f = 1..Len(f) /\ f \in [1..Len(f) -> S]
    OBVIOUS
<1>2. ASSUME NEW i \in 1..Len(f), NEW j \in 1..Len(f), f[i] = f[j] PROVE i = j
    <2>1. i \in Int /\ j \in Int /\ key[f[i]] \in Int
        BY <1>1
    <2>2. ~(i < j) /\ ~(j < i)
        BY <1>2, <2>1 DEF Ordered
    <2> QED
        BY <2>1, <2>2
<1>3. f \in Bijection(1..Len(f), S)
    <2>1. f \in Surjection(1..Len(f), S)
        BY <1>1 DEF Surjection, Range
    <2>2. f \in Injection(1..Len(f), S)
        BY <1>1, <1>2 DEF Injection, IsInjective
    <2> QED
        BY <2>1, <2>2 DEF Bijection
<1>4. Cardinality(S) = Len(f)
    <2>1. ExistsBijection(1..Len(f), S)
        BY <1>3 DEF ExistsBijection
    <2> QED
        BY <1>1, <2>1, FS_CountingElements
<1> QED
    BY <1>1, <1>4 DEF Sorted, Ordered

LEMMA OneArrangement ==
    ASSUME NEW S, IsFiniteSet(S), NEW key, \A d \in S : key[d] \in Int,
           NEW f \in Sorted(S, key), NEW g \in Sorted(S, key)
    PROVE  f = g
<1> DEFINE c == Cardinality(S)
           T == {i \in 1..c : f[i] # g[i]}
           at == [i \in T |-> i]
<1>1. /\ c \in Nat
      /\ f \in [1..c -> S] /\ Range(f) = S /\ Ordered(f, key) /\ Len(f) = c
      /\ g \in [1..c -> S] /\ Range(g) = S /\ Ordered(g, key) /\ Len(g) = c
    <2>1. f \in [1..c -> S] /\ g \in [1..c -> S]
        BY DEF Sorted
    <2>2. Range(f) = S /\ Ordered(f, key) /\ Len(f) = c
        BY SortedIs
    <2>3. Range(g) = S /\ Ordered(g, key) /\ Len(g) = c
        BY SortedIs
    <2> QED
        BY <2>1, <2>2, <2>3, FS_CardinalityType
<1> SUFFICES ASSUME T # {} PROVE FALSE
    BY <1>1
<1>2. PICK i \in T : \A j \in T : i <= j
    <2>1. PICK i \in T : \A j \in T : at[i] <= at[j]
        <3>1. \A j \in T : at[j] \in Nat
            BY <1>1
        <3> HIDE DEF T, at
        <3> QED
            BY <3>1, LeastKey
    <2> QED
        BY <2>1
<1>3. i \in 1..c /\ f[i] # g[i] /\ \A j \in 1..c : j < i => f[j] = g[j]
    BY <1>1, <1>2
<1> HIDE DEF T, at, c
<1>4. PICK j \in 1..c : f[i] = g[j]
    BY <1>1, <1>3 DEF Range
<1>5. PICK k \in 1..c : g[i] = f[k]
    BY <1>1, <1>3 DEF Range
<1>6. i < j /\ i < k
    <2>1. i \in Int /\ j \in Int /\ k \in Int /\ j # i /\ k # i
        BY <1>1, <1>3, <1>4, <1>5
    <2>2. key[f[i]] \in Int /\ key[g[i]] \in Int
        BY <1>1, <1>3
    <2>3. ~(j < i)
        <3>1. SUFFICES ASSUME j < i PROVE FALSE
            OBVIOUS
        <3>2. f[j] = f[i] /\ key[f[j]] < key[f[i]]
            BY <1>1, <1>3, <1>4, <3>1 DEF Ordered
        <3> QED
            BY <2>2, <3>2
    <2>4. ~(k < i)
        <3>1. SUFFICES ASSUME k < i PROVE FALSE
            OBVIOUS
        <3>2. g[k] = g[i] /\ key[g[k]] < key[g[i]]
            BY <1>1, <1>3, <1>5, <3>1 DEF Ordered
        <3> QED
            BY <2>2, <3>2
    <2> QED
        BY <2>1, <2>3, <2>4
<1>7. key[g[i]] < key[f[i]] /\ key[f[i]] < key[g[i]]
    BY <1>1, <1>3, <1>4, <1>5, <1>6 DEF Ordered
<1>8. key[f[i]] \in Int /\ key[g[i]] \in Int
    BY <1>1, <1>3
<1> QED
    BY <1>7, <1>8

LEMMA ArrangementExists ==
    ASSUME NEW S, IsFiniteSet(S), NEW key, NEW bound \in Nat,
           \A d \in S : key[d] \in 0..bound,
           \A d, e \in S : key[d] = key[e] => d = e
    PROVE  Sorted(S, key) # {}
<1> DEFINE Bad == {T \in SUBSET S : Sorted(T, key) = {}}
           size == [T \in Bad |-> Cardinality(T)]
<1> SUFFICES ASSUME Bad # {} PROVE FALSE
    OBVIOUS
<1>1. \A T \in SUBSET S : IsFiniteSet(T) /\ Cardinality(T) \in Nat
    BY FS_Subset, FS_CardinalityType
<1>2. PICK T \in Bad : \A U \in Bad : Cardinality(T) <= Cardinality(U)
    <2>1. \A U \in Bad : size[U] \in Nat
        BY <1>1
    <2>2. PICK T \in Bad : \A U \in Bad : size[T] <= size[U]
        <3> HIDE DEF Bad, size
        <3> QED
            BY <2>1, LeastKey
    <2> QED
        BY <2>2
<1>3. T \subseteq S /\ Sorted(T, key) = {} /\ IsFiniteSet(T) /\ Cardinality(T) \in Nat
    BY <1>1, <1>2
<1>4. CASE T = {}
    <2>1. Cardinality(T) = 0
        BY <1>4, FS_EmptySet
    <2>2. <<>> \in [1..0 -> T] /\ \A i, j \in 1..0 : FALSE
        OBVIOUS
    <2>3. <<>> \in Sorted(T, key)
        BY <2>1, <2>2 DEF Sorted
    <2> QED
        BY <1>3, <2>3
<1>5. CASE T # {}
    <2>1. PICK x \in T : \A e \in T : key[e] <= key[x]
        BY <1>3, <1>5, GreatestKey
    <2> DEFINE U == T \ {x}
               c == Cardinality(U)
    <2>2. U \subseteq S /\ Cardinality(T) = c + 1 /\ c \in Nat
        BY <1>1, <1>3, FS_RemoveElement
    <2>3. PICK f : f \in Sorted(U, key)
        <3>1. U \notin Bad
            <4>1. SUFFICES ASSUME U \in Bad PROVE FALSE
                OBVIOUS
            <4>2. Cardinality(T) <= c
                <5> HIDE DEF Bad
                <5> QED
                    BY <1>2, <4>1
            <4> QED
                BY <2>2, <4>2
        <3> QED
            BY <2>2, <3>1
    <2>4. f \in [1..c -> U] /\ \A i, j \in 1..c : i < j => key[f[i]] < key[f[j]]
        BY <2>3 DEF Sorted
    <2> DEFINE g == [i \in 1..c + 1 |-> IF i = c + 1 THEN x ELSE f[i]]
    <2>5. g \in [1..c + 1 -> T]
        <3>1. ASSUME NEW i \in 1..c + 1, i # c + 1 PROVE f[i] \in T
            <4>1. i \in 1..c
                BY <2>2, <3>1
            <4> QED
                BY <2>4, <4>1
        <3> QED
            BY <3>1
    <2>6. ASSUME NEW i \in 1..c + 1, NEW j \in 1..c + 1, i < j
          PROVE  key[g[i]] < key[g[j]]
        <3> HIDE DEF U, c
        <3>1. i \in 1..c /\ g[i] = f[i] /\ f[i] \in U
            BY <2>2, <2>4, <2>6
        <3>2. CASE j = c + 1
            <4>1. g[j] = x /\ f[i] \in T /\ f[i] # x
                BY <3>1, <3>2 DEF U
            <4>2. key[f[i]] <= key[x] /\ key[f[i]] # key[x]
                BY <1>3, <2>1, <4>1
            <4>3. key[f[i]] \in Int /\ key[x] \in Int
                BY <1>3, <4>1
            <4> QED
                BY <3>1, <4>1, <4>2, <4>3
        <3>3. CASE j # c + 1
            <4>1. j \in 1..c /\ g[j] = f[j]
                BY <2>2, <3>3
            <4> QED
                BY <2>4, <2>6, <3>1, <4>1
        <3> QED
            BY <3>2, <3>3
    <2> HIDE DEF g
    <2>7. g \in Sorted(T, key)
        BY <2>2, <2>5, <2>6 DEF Sorted
    <2> QED
        BY <1>3, <2>7
<1> QED
    BY <1>4, <1>5

-----------------------------------------------------------------------------
(* The loop of _dispatch.                                                  *)

(* The states of the loop, one after each pass.                            *)
LoopStart(s, n, busy) == [list |-> s, at |-> 1, n |-> n, busy |-> busy, granted |-> {}]
Passes(g, s, n, busy, max, L) ==
    g = [k \in 0 .. L |-> IF k = 0 THEN LoopStart(s, n, busy) ELSE Pass(g[k - 1], max)]

LEMMA PassesExist ==
    ASSUME NEW s, NEW n, NEW busy, NEW max, NEW L \in Nat
    PROVE  \E g : Passes(g, s, n, busy, max, L)
<1> DEFINE Bad == {k \in Nat : ~ \E g : Passes(g, s, n, busy, max, k)}
           same == [k \in Bad |-> k]
<1> SUFFICES ASSUME Bad # {} PROVE FALSE
    OBVIOUS
<1>1. PICK k \in Bad : \A m \in Bad : k <= m
    <2>1. \A m \in Bad : same[m] \in Nat
        OBVIOUS
    <2>2. PICK k \in Bad : \A m \in Bad : same[k] <= same[m]
        <3> HIDE DEF Bad, same
        <3> QED
            BY <2>1, LeastKey
    <2> QED
        BY <2>2
<1>2. CASE k = 0
    <2> DEFINE g == [m \in 0 .. 0 |-> LoopStart(s, n, busy)]
    <2>1. Passes(g, s, n, busy, max, 0)
        BY DEF Passes
    <2> QED
        BY <1>2, <2>1
<1>3. CASE k # 0
    <2>1. k \in Nat /\ k - 1 \in Nat /\ ~(k <= k - 1)
        BY <1>3
    <2>2. k - 1 \notin Bad
        <3> HIDE DEF Bad
        <3> QED
            BY <1>1, <2>1
    <2>3. PICK g : Passes(g, s, n, busy, max, k - 1)
        BY <2>1, <2>2
    <2> DEFINE h == [m \in 0 .. k |-> IF m = k THEN Pass(g[k - 1], max) ELSE g[m]]
    <2>4. ASSUME NEW m \in 0 .. k
          PROVE  h[m] = IF m = 0 THEN LoopStart(s, n, busy) ELSE Pass(h[m - 1], max)
        <3>1. CASE m = k
            <4>1. k - 1 \in 0 .. k /\ k - 1 # k
                BY <2>1
            <4>2. h[k - 1] = g[k - 1] /\ h[k] = Pass(g[k - 1], max)
                BY <2>1, <4>1
            <4> HIDE DEF h
            <4> QED
                BY <1>3, <3>1, <4>2
        <3>2. CASE m # k
            <4>1. m \in 0 .. k - 1 /\ h[m] = g[m]
                BY <2>1, <3>2
            <4>2. g[m] = IF m = 0 THEN LoopStart(s, n, busy) ELSE Pass(g[m - 1], max)
                BY <2>3, <4>1 DEF Passes
            <4>3. m # 0 => m - 1 \in 0 .. k /\ m - 1 # k
                BY <2>1, <4>1
            <4>4. m # 0 => h[m - 1] = g[m - 1]
                BY <4>3
            <4> HIDE DEF h
            <4> QED
                BY <4>1, <4>2, <4>4
        <3> QED
            BY <3>1, <3>2
    <2>5. h = [m \in 0 .. k |-> h[m]]
        OBVIOUS
    <2> HIDE DEF h
    <2>6. Passes(h, s, n, busy, max, k)
        BY <2>4, <2>5 DEF Passes
    <2> QED
        BY <2>6
<1> QED
    BY <1>2, <1>3

LEMMA LoopPasses ==
    ASSUME NEW s, NEW n, NEW busy, NEW max, Len(s) \in Nat
    PROVE  \E g : Passes(g, s, n, busy, max, Len(s)) /\ Loop(s, n, busy, max) = g[Len(s)]
<1> DEFINE L == Len(s)
           After == CHOOSE g : g = [k \in 0 .. L |->
                        IF k = 0 THEN [list |-> s, at |-> 1, n |-> n, busy |-> busy, granted |-> {}]
                        ELSE Pass(g[k - 1], max)]
<1>1. Loop(s, n, busy, max) = After[L]
    BY DEF Loop
<1>2. PICK g : Passes(g, s, n, busy, max, L)
    BY PassesExist
<1>3. Passes(After, s, n, busy, max, L)
    BY <1>2 DEF Passes, LoopStart
<1> HIDE DEF After
<1> QED
    BY <1>1, <1>3

(* A list without one of its waiters.                                      *)
LEMMA OneTaken ==
    ASSUME NEW S, NEW s \in Seq(S), NEW i \in 1 .. Len(s)
    PROVE  LET r == Seqs!RemoveAt(s, i) IN
           /\ r \in Seq(S) /\ Len(r) = Len(s) - 1
           /\ \A j \in 1 .. Len(r) : r[j] = IF j < i THEN s[j] ELSE s[j + 1]
<1> DEFINE a == SubSeq(s, 1, i - 1)
           b == SubSeq(s, i + 1, Len(s))
<1>1. /\ a \in Seq(S) /\ Len(a) = i - 1 /\ \A j \in 1 .. i - 1 : a[j] = s[j]
    <2>1. \A j \in 1 .. i - 1 : s[j] \in S
        BY ElementOfSeq
    <2> QED
        BY <2>1, SubSeqProperties
<1>2. /\ b \in Seq(S) /\ Len(b) = Len(s) - i
      /\ \A j \in 1 .. Len(s) - i : b[j] = s[j + i]
    <2>1. \A j \in i + 1 .. Len(s) : s[j] \in S
        BY ElementOfSeq
    <2> QED
        BY <2>1, SubSeqProperties
<1> HIDE DEF a, b
<1>3. /\ a \o b \in Seq(S) /\ Len(a \o b) = Len(s) - 1
      /\ \A j \in 1 .. Len(s) - 1 : (a \o b)[j] = IF j <= i - 1 THEN a[j] ELSE b[j - (i - 1)]
    <2>1. /\ a \o b \in Seq(S) /\ Len(a \o b) = Len(a) + Len(b)
          /\ \A j \in 1 .. Len(a) + Len(b) :
               (a \o b)[j] = IF j <= Len(a) THEN a[j] ELSE b[j - Len(a)]
        BY <1>1, <1>2, ConcatProperties
    <2>2. Len(s) \in Nat /\ Len(a) = i - 1 /\ Len(a) + Len(b) = Len(s) - 1
        BY <1>1, <1>2
    <2> QED
        BY <2>1, <2>2
<1>4. \A j \in 1 .. Len(s) - 1 : (a \o b)[j] = IF j < i THEN s[j] ELSE s[j + 1]
    BY <1>1, <1>2, <1>3
<1>5. Seqs!RemoveAt(s, i) = a \o b
    BY DEF Seqs!RemoveAt, a, b
<1> QED
    BY <1>3, <1>4, <1>5

(* It stays in order and loses only that one.                              *)
LEMMA TakenInOrder ==
    ASSUME NEW S, NEW s \in Seq(S), NEW key, \A d \in S : key[d] \in Int, Ordered(s, key),
           NEW i \in 1 .. Len(s)
    PROVE  LET r == Seqs!RemoveAt(s, i) IN
           /\ r \in Seq(S) /\ Len(r) = Len(s) - 1 /\ Ordered(r, key)
           /\ Range(r) = Range(s) \ {s[i]}
           /\ \A j \in 1 .. Len(r) : r[j] = IF j < i THEN s[j] ELSE s[j + 1]
<1> DEFINE r == Seqs!RemoveAt(s, i)
<1>1. /\ r \in Seq(S) /\ Len(r) = Len(s) - 1
      /\ \A j \in 1 .. Len(r) : r[j] = IF j < i THEN s[j] ELSE s[j + 1]
    BY OneTaken
<1> HIDE DEF r
<1>2. Len(s) \in Nat /\ DOMAIN s = 1 .. Len(s) /\ DOMAIN r = 1 .. Len(r) /\ Len(r) \in Nat
    BY <1>1
<1>3. Ordered(r, key)
    <2> SUFFICES ASSUME NEW j \in 1 .. Len(r), NEW k \in 1 .. Len(r), j < k
                 PROVE  key[r[j]] < key[r[k]]
        BY DEF Ordered
    <2> DEFINE Was(x) == IF x < i THEN x ELSE x + 1
    <2>1. Was(j) \in 1 .. Len(s) /\ Was(k) \in 1 .. Len(s) /\ Was(j) < Was(k)
        BY <1>1, <1>2
    <2>2. r[j] = s[Was(j)] /\ r[k] = s[Was(k)]
        BY <1>1
    <2> HIDE DEF Was
    <2> QED
        BY <2>1, <2>2 DEF Ordered
<1>4. ASSUME NEW j \in 1 .. Len(r) PROVE r[j] \in Range(s) \ {s[i]}
    <2> DEFINE w == IF j < i THEN j ELSE j + 1
    <2>1. w \in 1 .. Len(s) /\ w # i
        BY <1>1, <1>2
    <2>2. r[j] = s[w]
        BY <1>1
    <2> HIDE DEF w
    <2>3. s[w] # s[i]
        <3>1. w < i \/ i < w
            BY <1>2, <2>1
        <3>2. key[s[w]] < key[s[i]] \/ key[s[i]] < key[s[w]]
            BY <2>1, <3>1 DEF Ordered
        <3>3. s[i] \in S /\ key[s[i]] \in Int
            OBVIOUS
        <3> QED
            BY <3>2, <3>3
    <2> QED
        BY <1>2, <2>1, <2>2, <2>3 DEF Range
<1>5. ASSUME NEW k \in 1 .. Len(s), k # i PROVE s[k] \in Range(r)
    <2> DEFINE j == IF k < i THEN k ELSE k - 1
    <2>1. j \in 1 .. Len(r) /\ (j < i => j = k) /\ (~(j < i) => j + 1 = k)
        BY <1>1, <1>2, <1>5
    <2> HIDE DEF j
    <2>2. r[j] = s[k]
        BY <1>1, <2>1
    <2> QED
        BY <1>2, <2>1, <2>2 DEF Range
<1>6. Range(r) = Range(s) \ {s[i]}
    <2>1. Range(r) \subseteq Range(s) \ {s[i]}
        BY <1>2, <1>4 DEF Range
    <2>2. Range(s) \ {s[i]} \subseteq Range(r)
        BY <1>2, <1>5 DEF Range
    <2> QED
        BY <2>1, <2>2
<1> QED
    BY <1>1, <1>3, <1>6 DEF r

(* Between two passes: who was granted was eligible and found a slot, who  *)
(* was passed over was not, and the granted stood before all that are      *)
(* still to come.                                                          *)
States(busy) == [list : Seq(Downloads), at : Nat, n : Nat,
                 busy : SUBSET (busy \cup SourcesOf(Downloads)), granted : SUBSET Downloads]

NonePassed(st, E) == \A j \in 1 .. st.at - 1 : st.list[j] \notin E
GrantedFirst(st, key) ==
    \A e \in st.granted : \A j \in st.at .. Len(st.list) : key[e] < key[st.list[j]]
Progressed(st, k) == st.at + Cardinality(st.granted) = k + 1

Served(st, s, k, key, E, G, n, busy, max) ==
    /\ st \in States(busy)
    /\ Ordered(st.list, key) /\ Range(st.list) = Range(s) \ st.granted
    /\ Len(st.list) + Cardinality(st.granted) = Len(s)
    /\ st.granted \subseteq E \cap G
    /\ st.n = n + Cardinality(st.granted) /\ st.busy = busy \cup SourcesOf(st.granted)
    /\ st.at \in 1 .. Len(st.list) + 1
    /\ NonePassed(st, E) /\ GrantedFirst(st, key)
    /\ st.n >= max \/ st.at > Len(st.list) \/ Progressed(st, k)

(* What the loop is given: a list in order of its keys.                    *)
Given(s, key, n, busy, max) ==
    /\ s \in Seq(Downloads) /\ Ordered(s, key) /\ Len(s) \in Nat
    /\ \A d \in Range(s) : key[d] \in Nat
    /\ \A d, e \in Range(s) : key[d] = key[e] => d = e
    /\ n \in Nat /\ max \in Nat

LEMMA StartServes ==
    ASSUME NEW s, NEW key, NEW n, NEW busy, NEW max, Given(s, key, n, busy, max), NEW E, NEW G
    PROVE  Served(LoopStart(s, n, busy), s, 0, key, E, G, n, busy, max)
<1> DEFINE st == LoopStart(s, n, busy)
<1>1. st.list = s /\ st.at = 1 /\ st.n = n /\ st.busy = busy /\ st.granted = {}
    BY DEF LoopStart
<1>2. st \in States(busy)
    BY DEF LoopStart, States, Given
<1> HIDE DEF st
<1>3. Cardinality({}) = 0 /\ SourcesOf({}) = {}
    BY FS_EmptySet DEF SourcesOf
<1>4. Len(s) \in Nat /\ n \in Nat /\ Ordered(s, key)
    BY DEF Given
<1>5. \A j \in 1 .. st.at - 1 : FALSE
    BY <1>1
<1>6. 1 \in 1 .. Len(s) + 1 /\ Len(s) + 0 = Len(s) /\ n + 0 = n /\ 1 + 0 = 0 + 1
    BY <1>4
<1>7. Served(st, s, 0, key, E, G, n, busy, max)
    BY <1>1, <1>2, <1>3, <1>4, <1>5, <1>6 DEF Served, NonePassed, GrantedFirst, Progressed
<1> QED
    BY <1>7 DEF st

(* The waiter whose turn it is.                                            *)
LEMMA TurnOf ==
    ASSUME NEW s, NEW key, NEW n, NEW busy, NEW max, Given(s, key, n, busy, max),
           NEW E, E = Eligible(s, key, busy), NEW G, G = Granted(E, key, n, max),
           NEW st, NEW k \in Nat, Served(st, s, k, key, E, G, n, busy, max),
           st.at <= Len(st.list), st.n < max, NEW d, d = st.list[st.at]
    PROVE  /\ d \in Range(s) /\ d \in Downloads /\ d \notin st.granted
           /\ SourceOf[d] \in st.busy <=> d \notin E
           /\ d \in E => d \in G
<1> DEFINE c == Cardinality(st.granted)
<1>1. /\ st.list \in Seq(Downloads) /\ st.at \in Nat /\ st.granted \subseteq Downloads
      /\ IsFiniteSet(st.granted) /\ c \in Nat /\ Len(st.list) \in Nat
    <2>1. st.list \in Seq(Downloads) /\ st.at \in Nat /\ st.granted \subseteq Downloads
        BY DEF Served, NonePassed, GrantedFirst, Progressed, States
    <2>2. IsFiniteSet(st.granted)
        BY <2>1, FS_Subset, DownloadsAssumption
    <2> QED
        BY <2>1, <2>2, FS_CardinalityType
<1>2. st.at \in 1 .. Len(st.list) /\ DOMAIN st.list = 1 .. Len(st.list)
    BY <1>1 DEF Served, NonePassed, GrantedFirst, Progressed
<1>3. Range(st.list) = Range(s) \ st.granted /\ d \in Range(st.list) /\ d \in Downloads
    <2>1. Range(st.list) = Range(s) \ st.granted
        BY DEF Served, NonePassed, GrantedFirst, Progressed
    <2>2. d \in Range(st.list)
        BY <1>2 DEF Range
    <2>3. d \in Downloads
        BY <1>1, <1>2
    <2> QED
        BY <2>1, <2>2, <2>3
<1>4. \A e \in Range(s) : key[e] \in Nat
    BY DEF Given
<1>5. \A e \in st.granted : key[e] < key[d]
    BY <1>1, <1>2 DEF Served, NonePassed, GrantedFirst, Progressed
<1>6. st.busy = busy \cup SourcesOf(st.granted) /\ st.granted \subseteq E /\ E \subseteq Range(s)
    BY DEF Served, NonePassed, GrantedFirst, Progressed, Eligible
(* an eligible one in the list stands at its place or behind *)
<1>7. ASSUME NEW e \in E, e \notin st.granted, key[e] <= key[d] PROVE e = d
    <2>1. PICK j \in 1 .. Len(st.list) : e = st.list[j]
        BY <1>2, <1>3, <1>6, <1>7 DEF Range
    <2>2. ~(j < st.at)
        <3>1. SUFFICES ASSUME j < st.at PROVE FALSE
            OBVIOUS
        <3>2. j \in 1 .. st.at - 1
            BY <1>1, <2>1, <3>1
        <3> QED
            BY <2>1, <3>2 DEF Served, NonePassed, GrantedFirst, Progressed
    <2>3. ~(st.at < j)
        <3>1. SUFFICES ASSUME st.at < j PROVE FALSE
            OBVIOUS
        <3>2. key[d] < key[e]
            BY <1>2, <2>1, <3>1 DEF Served, NonePassed, GrantedFirst, Progressed, Ordered
        <3>3. key[d] \in Nat /\ key[e] \in Nat
            BY <1>3, <1>4, <1>6
        <3> QED
            BY <1>7, <3>2, <3>3
    <2>4. j = st.at
        BY <1>1, <2>1, <2>2, <2>3
    <2> QED
        BY <2>1, <2>4
<1>8. ASSUME SourceOf[d] \notin st.busy PROVE d \in E
    <2>1. PICK e \in E : SourceOf[e] = SourceOf[d] /\ key[e] <= key[d]
        <3>1. SourceOf[d] \notin busy
            BY <1>6, <1>8
        <3> QED
            BY <1>3, <1>4, <3>1, IdleSourceIsEligible
    <2>2. e \notin st.granted
        BY <1>6, <1>8, <2>1 DEF SourcesOf
    <2> QED
        BY <1>7, <2>1, <2>2
<1>9. ASSUME SourceOf[d] \in st.busy PROVE d \notin E
    <2>1. CASE SourceOf[d] \in busy
        BY <2>1 DEF Eligible
    <2>2. CASE SourceOf[d] \notin busy
        <3>1. PICK e \in st.granted : SourceOf[e] = SourceOf[d]
            BY <1>6, <1>9, <2>2 DEF SourcesOf
        <3>2. key[e] < key[d] /\ e \in Range(s)
            BY <1>5, <1>6, <3>1
        <3> QED
            BY <3>1, <3>2 DEF Eligible
    <2> QED
        BY <2>1, <2>2
<1>10. ASSUME d \in E PROVE d \in G
    <2> DEFINE B == {e \in E : key[e] < key[d]}
    <2>1. B \subseteq st.granted
        <3>1. ASSUME NEW e \in B, e \notin st.granted PROVE FALSE
            <4>1. key[e] < key[d] /\ key[e] \in Nat /\ key[d] \in Nat
                BY <1>3, <1>4, <1>6
            <4>2. e = d
                BY <1>7, <3>1, <4>1
            <4> QED
                BY <4>1, <4>2
        <3> QED
            BY <3>1
    <2>2. Cardinality(B) <= c /\ Cardinality(B) \in Nat
        BY <1>1, <2>1, FS_Subset, FS_CardinalityType
    <2>3. n + c < max /\ n \in Nat /\ max \in Nat
        BY DEF Served, NonePassed, GrantedFirst, Progressed, Given
    <2> HIDE DEF B, c
    <2>4. n + Cardinality(B) < max
        BY <1>1, <2>2, <2>3
    <2> QED
        BY <1>10, <2>4 DEF Granted, B
<1> QED
    BY <1>3, <1>8, <1>9, <1>10

LEMMA SkipMoves ==
    ASSUME NEW busy, NEW st \in States(busy)
    PROVE  LET u == [st EXCEPT !.at = st.at + 1] IN
           /\ u \in States(busy) /\ u.at = st.at + 1 /\ u.list = st.list /\ u.n = st.n
           /\ u.busy = st.busy /\ u.granted = st.granted
<1>1. st.at + 1 \in Nat
    BY DEF States
<1> QED
    BY <1>1 DEF States

(* A list of some is a list of those it has.                               *)
LEMMA ListOfIts ==
    ASSUME NEW S, NEW s \in Seq(S), NEW T, \A i \in 1 .. Len(s) : s[i] \in T
    PROVE  s \in Seq(T)
BY IsASeq

(* One pass.                                                               *)
LEMMA PassServes ==
    ASSUME NEW s, NEW key, NEW n, NEW busy, NEW max, Given(s, key, n, busy, max),
           NEW E, E = Eligible(s, key, busy), NEW G, G = Granted(E, key, n, max),
           NEW st, NEW k \in Nat, Served(st, s, k, key, E, G, n, busy, max)
    PROVE  Served(Pass(st, max), s, k + 1, key, E, G, n, busy, max)
<1> DEFINE u == Pass(st, max)
           d == st.list[st.at]
           c == Cardinality(st.granted)
           L == Len(st.list)
<1>1. /\ st.list \in Seq(Downloads) /\ st.at \in Nat /\ st.granted \subseteq Downloads
      /\ IsFiniteSet(st.granted) /\ c \in Nat /\ Len(st.list) \in Nat
      /\ DOMAIN st.list = 1 .. Len(st.list)
      /\ st.at \in 1 .. Len(st.list) + 1 /\ st.n = n + c /\ n \in Nat /\ max \in Nat
    <2>1. /\ st.list \in Seq(Downloads) /\ st.at \in Nat /\ st.granted \subseteq Downloads
          /\ st.at \in 1 .. Len(st.list) + 1 /\ st.n = n + c
        BY DEF Served, States
    <2>2. IsFiniteSet(st.granted)
        BY <2>1, FS_Subset, DownloadsAssumption
    <2> QED
        BY <2>1, <2>2, FS_CardinalityType DEF Given
<1>0. /\ st.at \in 1 .. L + 1 /\ L \in Nat /\ c \in Nat /\ k \in Nat
      /\ st.n = n + c /\ n \in Nat /\ max \in Nat
    BY <1>1
<1>2. CASE st.at > Len(st.list) \/ st.n >= max
    <2>1. u = st
        BY <1>2 DEF Pass
    <2>2. Served(st, s, k + 1, key, E, G, n, busy, max)
        BY <1>2 DEF Served, NonePassed, GrantedFirst, Progressed
    <2> QED
        BY <2>1, <2>2
<1>3. CASE ~(st.at > Len(st.list) \/ st.n >= max)
    <2>1. st.at \in 1 .. Len(st.list) /\ st.at <= Len(st.list) /\ st.n < max
        BY <1>1, <1>3
    <2>0. st.at \in 1 .. L
        BY <2>1
    <2>2. /\ d \in Range(s) /\ d \in Downloads /\ d \notin st.granted
          /\ SourceOf[d] \in st.busy <=> d \notin E
          /\ d \in E => d \in G
        BY <2>1, TurnOf
    <2>3. st.at + c = k + 1
        BY <1>3 DEF Served, NonePassed, GrantedFirst, Progressed
    <2>4. /\ st \in States(busy) /\ Ordered(st.list, key) /\ Range(st.list) = Range(s) \ st.granted
          /\ Len(st.list) + c = Len(s) /\ st.granted \subseteq E \cap G
          /\ st.busy = busy \cup SourcesOf(st.granted)
          /\ \A j \in 1 .. st.at - 1 : st.list[j] \notin E
          /\ \A e \in st.granted : \A j \in st.at .. Len(st.list) : key[e] < key[st.list[j]]
        BY DEF Served, NonePassed, GrantedFirst, Progressed
    <2>5. CASE SourceOf[d] \in st.busy
        <3>1. u = [st EXCEPT !.at = st.at + 1]
            BY <1>3, <2>5 DEF Pass
        <3> HIDE DEF c, L
        <3>2. /\ u \in States(busy) /\ u.at = st.at + 1 /\ u.list = st.list /\ u.n = st.n
              /\ u.busy = st.busy /\ u.granted = st.granted
            BY <2>4, <3>1, SkipMoves
        <3> HIDE DEF u, d
        <3>3. \A j \in 1 .. u.at - 1 : u.list[j] \notin E
            <4> SUFFICES ASSUME NEW j \in 1 .. u.at - 1 PROVE st.list[j] \notin E
                BY <3>2
            <4>1. j \in 1 .. st.at - 1 \/ j = st.at
                BY <1>0, <3>2
            <4> QED
                BY <2>2, <2>4, <2>5, <4>1 DEF d
        <3>4. \A e \in u.granted : \A j \in u.at .. Len(u.list) : key[e] < key[u.list[j]]
            <4> SUFFICES ASSUME NEW e \in st.granted, NEW j \in u.at .. Len(st.list)
                         PROVE  key[e] < key[st.list[j]]
                BY <3>2
            <4>1. j \in st.at .. Len(st.list)
                BY <1>0, <3>2 DEF L
            <4> QED
                BY <2>4, <4>1
        <3>5. st.at + 1 \in 1 .. L + 1 /\ (st.at + 1) + c = (k + 1) + 1
            BY <1>0, <2>0, <2>3
        <3>6. /\ Ordered(u.list, key) /\ Range(u.list) = Range(s) \ u.granted
              /\ Len(u.list) + Cardinality(u.granted) = Len(s)
              /\ u.granted \subseteq E \cap G /\ u.n = n + Cardinality(u.granted)
              /\ u.busy = busy \cup SourcesOf(u.granted)
            BY <1>0, <2>4, <3>2 DEF c
        <3>7. u.at \in 1 .. Len(u.list) + 1 /\ u.at + Cardinality(u.granted) = (k + 1) + 1
            BY <3>2, <3>5 DEF c, L
        <3>8. NonePassed(u, E)
            BY <3>3 DEF NonePassed
        <3>9. GrantedFirst(u, key)
            BY <3>4 DEF GrantedFirst
        <3>10. Progressed(u, k + 1)
            BY <3>7 DEF Progressed
        <3>18. Served(u, s, k + 1, key, E, G, n, busy, max)
            BY <3>2, <3>6, <3>7, <3>8, <3>9, <3>10 DEF Served
        <3> QED
            BY <3>18 DEF u
    <2>6. CASE SourceOf[d] \notin st.busy
        <3> DEFINE r == Seqs!RemoveAt(st.list, st.at)
                   A == st.granted \cup {d}
        <3>1. u = [list |-> r, at |-> st.at, n |-> st.n + 1,
                   busy |-> st.busy \cup {SourceOf[d]}, granted |-> A]
            BY <1>3, <2>6 DEF Pass
        <3>2. /\ r \in Seq(Downloads) /\ Len(r) = Len(st.list) - 1 /\ Ordered(r, key)
              /\ Range(r) = Range(st.list) \ {d}
              /\ \A j \in 1 .. Len(r) : r[j] = IF j < st.at THEN st.list[j] ELSE st.list[j + 1]
            <4>1. st.list \in Seq(Range(s)) /\ \A x \in Range(s) : key[x] \in Int
                <5>1. \A j \in 1 .. Len(st.list) : st.list[j] \in Range(s)
                    BY <1>1, <2>4 DEF Range
                <5>2. st.list \in Seq(Range(s))
                    BY <1>1, <5>1, ListOfIts
                <5> QED
                    BY <5>2 DEF Given
            <4> DEFINE f == st.list
                       i == st.at
            <4>a. f \in Seq(Range(s)) /\ i \in 1 .. Len(f) /\ Ordered(f, key) /\ d = f[i]
                BY <2>1, <2>4, <4>1
            <4> HIDE DEF f, i, d
            <4>b. /\ Seqs!RemoveAt(f, i) \in Seq(Range(s)) /\ Len(Seqs!RemoveAt(f, i)) = Len(f) - 1
                  /\ Ordered(Seqs!RemoveAt(f, i), key)
                  /\ Range(Seqs!RemoveAt(f, i)) = Range(f) \ {f[i]}
                  /\ \A j \in 1 .. Len(Seqs!RemoveAt(f, i)) :
                       Seqs!RemoveAt(f, i)[j] = IF j < i THEN f[j] ELSE f[j + 1]
                <5> DEFINE S == Range(s)
                <5>1. f \in Seq(S) /\ \A x \in S : key[x] \in Int
                    BY <4>1, <4>a
                <5> HIDE DEF S
                <5>2. i \in 1 .. Len(f) /\ Ordered(f, key)
                    BY <4>a
                <5> QED
                    BY <5>1, <5>2, TakenInOrder DEF S
            <4>2. /\ r \in Seq(Range(s)) /\ Len(r) = Len(st.list) - 1 /\ Ordered(r, key)
                  /\ Range(r) = Range(st.list) \ {d}
                  /\ \A j \in 1 .. Len(r) : r[j] = IF j < st.at THEN st.list[j] ELSE st.list[j + 1]
                BY <4>a, <4>b DEF f, i
            <4>3. r \in Seq(Downloads)
                BY <1>1, <2>1, OneTaken
            <4> QED
                BY <4>2, <4>3
        <3>3. /\ u.list = r /\ u.at = st.at /\ u.n = st.n + 1
              /\ u.busy = st.busy \cup {SourceOf[d]} /\ u.granted = A
            BY <3>1
        <3>4. Cardinality(A) = c + 1
            BY <1>1, <2>2, FS_AddElement
        <3> HIDE DEF r
        <3>5. u \in States(busy)
            <4>1. SourceOf[d] \in SourcesOf(Downloads)
                BY <2>2 DEF SourcesOf
            <4>2. st.busy \subseteq busy \cup SourcesOf(Downloads)
                BY <2>4 DEF States
            <4> QED
                BY <1>1, <2>2, <3>1, <3>2, <4>1, <4>2 DEF States
        <3> HIDE DEF u
        <3>6. u.busy = busy \cup SourcesOf(A)
            BY <2>4, <3>3 DEF SourcesOf
        <3>7. d \in E /\ d \in G
            BY <2>2, <2>6
        <3>8. Range(u.list) = Range(s) \ A
            BY <2>4, <3>2, <3>3
        <3>9. ASSUME NEW j \in 1 .. u.at - 1 PROVE u.list[j] \notin E
            <4>1. j \in 1 .. st.at - 1 /\ j \in 1 .. Len(r) /\ j < st.at
                BY <1>1, <2>1, <3>2, <3>3
            <4> QED
                BY <2>4, <3>2, <3>3, <4>1
        <3>10. ASSUME NEW e \in A, NEW j \in u.at .. Len(u.list)
               PROVE  key[e] < key[u.list[j]]
            <4>1. j + 1 \in st.at .. Len(st.list) /\ st.at < j + 1 /\ j \in 1 .. Len(r) /\ ~(j < st.at)
                  /\ j + 1 \in 1 .. Len(st.list)
                BY <1>1, <2>1, <3>2, <3>3
            <4>2. u.list[j] = st.list[j + 1]
                BY <3>2, <3>3, <4>1
            <4>3. CASE e \in st.granted
                BY <2>4, <4>1, <4>2, <4>3
            <4>4. CASE e = d
                BY <2>1, <2>4, <4>1, <4>2, <4>4 DEF Ordered
            <4> QED
                BY <4>3, <4>4
        <3>11. /\ Len(u.list) + Cardinality(A) = Len(s) /\ u.n = n + Cardinality(A)
               /\ u.at \in 1 .. Len(u.list) + 1 /\ u.at + Cardinality(A) = (k + 1) + 1
            <4> DEFINE l == Len(u.list)
                       a == Cardinality(A)
                       m == Len(s)
                       p == st.at
                       o == u.n
            <4>1. /\ l = L - 1 /\ a = c + 1 /\ L + c = m /\ u.at = p /\ o = (n + c) + 1
                  /\ p + c = k + 1 /\ p \in 1 .. L
                BY <1>0, <2>0, <2>3, <2>4, <3>2, <3>3, <3>4
            <4> HIDE DEF A, c, L, d, l, a, m, p, o
            <4>2. /\ l + a = m /\ o = n + a
                  /\ p \in 1 .. l + 1 /\ p + a = (k + 1) + 1
                BY <1>0, <4>1
            <4> QED
                BY <4>1, <4>2 DEF l, a, m, o
        <3>12. A \subseteq E \cap G /\ Ordered(u.list, key)
            BY <2>4, <3>2, <3>3, <3>7
        <3> HIDE DEF A, d
        <3>13. u.granted = A
            BY <3>3
        <3>14. /\ u.granted \subseteq E \cap G /\ Ordered(u.list, key)
               /\ Range(u.list) = Range(s) \ u.granted
               /\ Len(u.list) + Cardinality(u.granted) = Len(s)
               /\ u.n = n + Cardinality(u.granted) /\ u.busy = busy \cup SourcesOf(u.granted)
               /\ u.at \in 1 .. Len(u.list) + 1 /\ u.at + Cardinality(u.granted) = (k + 1) + 1
            BY <3>6, <3>8, <3>11, <3>12, <3>13
        <3>15. GrantedFirst(u, key)
            BY <3>10, <3>13 DEF GrantedFirst
        <3>16. NonePassed(u, E)
            BY <3>9 DEF NonePassed
        <3>17. Progressed(u, k + 1)
            BY <3>14 DEF Progressed
        <3>18. Served(u, s, k + 1, key, E, G, n, busy, max)
            BY <3>5, <3>14, <3>15, <3>16, <3>17 DEF Served
        <3> QED
            BY <3>18 DEF u
    <2> QED
        BY <2>5, <2>6
<1> QED
    BY <1>2, <1>3

(* All its passes.                                                         *)
LEMMA PassesServe ==
    ASSUME NEW s, NEW key, NEW n, NEW busy, NEW max, Given(s, key, n, busy, max),
           NEW E, E = Eligible(s, key, busy), NEW G, G = Granted(E, key, n, max),
           NEW L \in Nat, NEW g, Passes(g, s, n, busy, max, L), NEW k \in 0 .. L
    PROVE  Served(g[k], s, k, key, E, G, n, busy, max)
<1> DEFINE Bad == {m \in 0 .. L : ~Served(g[m], s, m, key, E, G, n, busy, max)}
           same == [m \in Bad |-> m]
<1> SUFFICES ASSUME Bad # {} PROVE FALSE
    OBVIOUS
<1>1. PICK m \in Bad : \A i \in Bad : m <= i
    <2>1. \A i \in Bad : same[i] \in Nat
        OBVIOUS
    <2>2. PICK m \in Bad : \A i \in Bad : same[m] <= same[i]
        <3> HIDE DEF Bad, same
        <3> QED
            BY <2>1, LeastKey
    <2> QED
        BY <2>2
<1>2. m \in 0 .. L /\ ~Served(g[m], s, m, key, E, G, n, busy, max)
    OBVIOUS
<1>3. CASE m = 0
    <2>1. g[0] = LoopStart(s, n, busy)
        BY DEF Passes
    <2>2. Served(LoopStart(s, n, busy), s, 0, key, E, G, n, busy, max)
        BY StartServes
    <2> QED
        BY <1>2, <1>3, <2>1, <2>2
<1>4. CASE m # 0
    <2> DEFINE p == m - 1
    <2>1. p \in Nat /\ p \in 0 .. L /\ ~(m <= p) /\ p + 1 = m
        BY <1>2, <1>4
    <2>2. g[m] = Pass(g[p], max)
        BY <1>2, <1>4 DEF Passes
    <2> HIDE DEF p
    <2>3. Served(g[p], s, p, key, E, G, n, busy, max)
        BY <1>1, <2>1
    <2>4. Served(Pass(g[p], max), s, p + 1, key, E, G, n, busy, max)
        BY <2>1, <2>3, PassServes
    <2> QED
        BY <1>2, <2>1, <2>2, <2>4
<1> QED
    BY <1>3, <1>4

(* What the loop leaves is what the closed form of the dispatch says.      *)
LEMMA LoopServed ==
    ASSUME NEW s, NEW key, NEW n, NEW busy, NEW max, Given(s, key, n, busy, max),
           NEW E, E = Eligible(s, key, busy), NEW G, G = Granted(E, key, n, max),
           NEW st, st = Loop(s, n, busy, max)
    PROVE  /\ st.granted = G /\ st.n = n + Cardinality(G) /\ st.busy = busy \cup SourcesOf(G)
           /\ st.list \in Sorted(Range(s) \ G, key)
<1> DEFINE L == Len(s)
           c == Cardinality(st.granted)
           l == Len(st.list)
<1>1. L \in Nat /\ n \in Nat /\ max \in Nat /\ \A d \in Range(s) : key[d] \in Nat
    BY DEF Given
<1>2. Served(st, s, L, key, E, G, n, busy, max)
    <2>1. PICK g : Passes(g, s, n, busy, max, L) /\ Loop(s, n, busy, max) = g[L]
        BY <1>1, LoopPasses
    <2>2. L \in 0 .. L
        BY <1>1
    <2> HIDE DEF L
    <2>3. Served(g[L], s, L, key, E, G, n, busy, max)
        BY <1>1, <2>1, <2>2, PassesServe
    <2> QED
        BY <2>1, <2>3
<1>3. /\ st.list \in Seq(Downloads) /\ st.granted \subseteq Downloads /\ st.at \in Nat
      /\ Ordered(st.list, key) /\ Range(st.list) = Range(s) \ st.granted
      /\ st.granted \subseteq E \cap G /\ E \subseteq Range(s)
      /\ st.n = n + c /\ st.busy = busy \cup SourcesOf(st.granted)
    BY <1>2 DEF Served, States, Eligible
<1>4. DOMAIN st.list = 1 .. l /\ l \in Nat
    BY <1>3
<1>5. l + c = L /\ st.at \in 1 .. l + 1
    BY <1>2 DEF Served
<1>6. \A e \in st.granted : \A j \in st.at .. l : key[e] < key[st.list[j]]
    BY <1>2 DEF Served, GrantedFirst
<1>7. \A j \in 1 .. st.at - 1 : st.list[j] \notin E
    BY <1>2 DEF Served, NonePassed
<1>8. IsFiniteSet(st.granted) /\ IsFiniteSet(Range(st.list)) /\ c \in Nat
    <2>1. Range(st.list) \subseteq Downloads
        BY <1>3 DEF Range
    <2> QED
        BY <1>3, <2>1, FS_Subset, FS_CardinalityType, DownloadsAssumption
<1>9. st.n >= max \/ st.at > l
    <2>1. st.n >= max \/ st.at > l \/ st.at + c = L + 1
        BY <1>2 DEF Served, Progressed
    <2> HIDE DEF L, c, l
    <2>2. st.at + c = L + 1 => st.at > l
        BY <1>1, <1>3, <1>4, <1>5, <1>8
    <2> QED
        BY <2>1, <2>2
<1>10. ASSUME NEW x \in G, x \notin st.granted PROVE FALSE
    <2>1. x \in E /\ x \in Range(s) /\ x \in Range(st.list)
        BY <1>3, <1>10 DEF Granted
    <2>2. PICK j \in 1 .. l : x = st.list[j]
        BY <1>4, <2>1 DEF Range
    <2>3. ~(j < st.at)
        <3>1. SUFFICES ASSUME j < st.at PROVE FALSE
            OBVIOUS
        <3>2. j \in 1 .. st.at - 1
            BY <1>3, <2>2, <3>1
        <3> QED
            BY <1>7, <2>1, <2>2, <3>2
    <2> HIDE DEF l
    <2>4. j \in st.at .. l /\ ~(st.at > l)
        BY <1>3, <1>4, <2>2, <2>3
    <2> DEFINE B == {e \in E : key[e] < key[x]}
    <2>5. st.granted \subseteq B
        BY <1>3, <1>6, <2>2, <2>4
    <2>6. IsFiniteSet(B) /\ Cardinality(B) \in Nat /\ c <= Cardinality(B)
        <3>1. B \subseteq Downloads
            <4>1. Range(s) \subseteq Range(st.list) \cup st.granted
                BY <1>3
            <4>2. Range(st.list) \subseteq Downloads
                BY <1>3 DEF Range
            <4> QED
                BY <1>3, <4>1, <4>2
        <3> HIDE DEF B
        <3>2. IsFiniteSet(B)
            BY <3>1, FS_Subset, DownloadsAssumption
        <3> QED
            BY <2>5, <3>2, FS_Subset, FS_CardinalityType
    <2>7. n + Cardinality(B) < max
        BY DEF Granted
    <2>8. n + c >= max
        BY <1>3, <1>9, <2>4
    <2> HIDE DEF B, c
    <2> QED
        BY <1>1, <1>8, <2>6, <2>7, <2>8
<1>11. st.granted = G
    BY <1>3, <1>10
<1>12. st.list \in Sorted(Range(s) \ G, key)
    <2> DEFINE S == Range(s) \ G
    <2>1. Range(st.list) = S /\ IsFiniteSet(S) /\ \A x \in S : key[x] \in Int
        BY <1>1, <1>3, <1>8, <1>11
    <2>2. \A i \in 1 .. Len(st.list) : st.list[i] \in S
        <3> HIDE DEF S
        <3> QED
            BY <1>4, <2>1 DEF Range
    <2> HIDE DEF S
    <2>3. st.list \in Seq(S)
        BY <1>3, <2>2, ListOfIts
    <2>4. st.list \in Sorted(S, key)
        BY <1>3, <2>1, <2>3, IsSorted
    <2> QED
        BY <2>4 DEF S
<1> QED
    BY <1>3, <1>11, <1>12

(* The list the loop starts from: in the order of the keys of the dispatch,*)
(* whether or not a slot is free for it to have been put into that order.  *)
LEMMA ReorderedIsGiven ==
    ASSUME NEW q, NEW n, NEW busy, NEW max, NEW ph, DispatchPre(q, n, busy, max, ph),
           \A i, j \in DOMAIN q : q[i] = q[j] => i = j,
           NEW ord, ord = IF n < max THEN order ELSE << >>,
           NEW key, key = [d \in Range(q) |-> QueueKey(ord, q, d)],
           NEW s, s = Reordered(q, n, max)
    PROVE  Given(s, key, n, busy, max) /\ Range(s) = Range(q)
<1> DEFINE bound == Len(ord) + Len(q)
<1> USE DownloadsAssumption, OrdersAssumption
<1>1. /\ q \in Seq(Downloads) /\ ord \in Seq(Downloads) /\ bound \in Nat
      /\ n \in Nat /\ max \in Nat /\ IsFiniteSet(Range(q))
    <2>1. q \in Seq(Downloads) /\ ord \in Seq(Downloads) /\ n \in Nat /\ max \in Nat
        BY DEF DispatchPre
    <2>2. Range(q) \subseteq Downloads
        BY DEF DispatchPre
    <2> QED
        BY <2>1, <2>2, FS_Subset
<1>2. \A d \in Range(q) : key[d] \in 0..bound
    BY <1>1, KeysBounded
<1>3. \A d, e \in Range(q) : key[d] = key[e] => d = e
    BY <1>1, KeysDiffer
<1> HIDE DEF bound
<1>4. \A d \in Range(q) : key[d] \in Nat /\ key[d] \in Int
    BY <1>1, <1>2
<1>5. CASE n < max
    <2>1. s = CHOOSE f \in Sorted(Range(q), key) : TRUE
        BY <1>5 DEF Reordered
    <2> DEFINE S == Range(q)
    <2> HIDE DEF S
    <2>2. Sorted(S, key) # {}
        BY <1>1, <1>2, <1>3, ArrangementExists DEF S
    <2>3. s \in Sorted(S, key)
        BY <2>1, <2>2 DEF S
    <2>4. s \in Seq(S) /\ Len(s) \in Nat /\ Range(s) = S /\ Ordered(s, key)
        BY <1>1, <1>4, <2>3, SortedIs DEF S
    <2>5. s \in Seq(Downloads)
        <3>1. S \subseteq Downloads
            BY DEF S, DispatchPre
        <3> QED
            BY <2>4, <3>1
    <2> QED
        BY <1>1, <1>3, <1>4, <2>4, <2>5 DEF Given, S
<1>6. CASE ~(n < max)
    <2>1. s = q /\ ord = << >>
        BY <1>6 DEF Reordered
    <2>2. ASSUME NEW i \in 1 .. Len(q) PROVE key[q[i]] = i
        <3>1. q[i] \in Range(q) /\ i \in DOMAIN q
            BY <1>1 DEF Range
        <3>2. PlaceIn(q, q[i]) \in 1 .. Len(q) /\ q[PlaceIn(q, q[i])] = q[i]
            BY <1>1, <3>1, PlaceIsPosition
        <3>3. PlaceIn(q, q[i]) = i
            BY <1>1, <3>1, <3>2
        <3>4. Range(ord) = {} /\ Len(ord) = 0
            BY <2>1 DEF Range
        <3>5. key[q[i]] = QueueKey(ord, q, q[i])
            BY <3>1
        <3> QED
            BY <3>3, <3>4, <3>5 DEF QueueKey
    <2>3. Ordered(s, key) /\ Len(s) \in Nat
        BY <1>1, <2>1, <2>2 DEF Ordered
    <2> QED
        BY <1>1, <1>3, <1>4, <2>1, <2>3 DEF Given
<1> QED
    BY <1>5, <1>6

(* A dispatch leaves what the loop leaves.                                 *)
LEMMA DispatchRunsLoop ==
    ASSUME NEW q, NEW n, NEW busy, NEW ph,
           DispatchPre(q, n, busy, maxConcurrent', ph),
           \A i, j \in DOMAIN q : q[i] = q[j] => i = j,
           Dispatch(q, n, busy, maxConcurrent', ph)
    PROVE  LoopServes(q, n, busy, HeldIn(ph))
<1> DEFINE max == maxConcurrent'
           ord == IF n < max THEN order ELSE << >>
           key == [d \in Range(q) |-> QueueKey(ord, q, d)]
           s == Reordered(q, n, max)
           E == Eligible(s, key, busy)
           G == Granted(E, key, n, max)
           st == Loop(s, n, busy, max)
<1>1. Given(s, key, n, busy, max) /\ Range(s) = Range(q)
    <2> HIDE DEF max
    <2> QED
        BY ReorderedIsGiven DEF max
<1>2. Eligible(q, key, busy) = E
    <2> HIDE DEF key, s
    <2> QED
        BY <1>1 DEF Eligible
<1>3. /\ waiters' \in Sorted(Range(q) \ G, key) /\ active' = n + Cardinality(G)
      /\ activeSources' = busy \cup SourcesOf(G)
      /\ phase' = [d \in Downloads |-> IF d \in G THEN "launching" ELSE ph[d]]
    <2> HIDE DEF E
    <2> QED
        BY <1>2 DEF Dispatch
<1>4. \A d \in Range(q) : key[d] \in Int
    <2> HIDE DEF key
    <2> QED
        BY <1>1 DEF Given
<1>5. /\ q \in Seq(Downloads) /\ ph \in [Downloads -> Phases] /\ IsFiniteSet(Range(q))
      /\ Range(q) = {d \in Downloads : ph[d] = "waiting"}
    <2>1. Range(q) = {d \in Downloads : ph[d] = "waiting"}
        BY DEF DispatchPre
    <2> QED
        BY <2>1, FS_Subset, DownloadsAssumption DEF DispatchPre
<1> HIDE DEF ord, key, s
<1>6. /\ st.granted = G /\ st.n = n + Cardinality(G) /\ st.busy = busy \cup SourcesOf(G)
      /\ st.list \in Sorted(Range(s) \ G, key)
    <2> DEFINE m == max
    <2>1. Given(s, key, n, busy, m)
        BY <1>1
    <2>2. E = Eligible(s, key, busy) /\ G = Granted(E, key, n, m) /\ st = Loop(s, n, busy, m)
        OBVIOUS
    <2> HIDE DEF max, m, E, G, st
    <2> QED
        BY <2>1, <2>2, LoopServed
<1>7. G \subseteq Range(q)
    BY <1>1 DEF Eligible, Granted
<1> HIDE DEF E, G, st
<1>8. waiters' = st.list
    <2> DEFINE S == Range(q) \ G
    <2>1. IsFiniteSet(S) /\ \A d \in S : key[d] \in Int
        BY <1>4, <1>5, FS_Subset
    <2>2. waiters' \in Sorted(S, key) /\ st.list \in Sorted(S, key)
        BY <1>1, <1>3, <1>6
    <2> HIDE DEF S
    <2> QED
        BY <2>1, <2>2, OneArrangement
<1>9. Held' = HeldIn(ph) \cup G
    BY <1>3, <1>5, <1>7 DEF Held, In, HeldIn
<1>10. /\ waiters' = st.list /\ Held' = HeldIn(ph) \cup st.granted
       /\ active' = st.n /\ activeSources' = st.busy
    BY <1>3, <1>6, <1>8, <1>9
<1> QED
    BY <1>10 DEF LoopServes, st, s, max

(* Only an acquire takes a download in, and only a release lets it go.     *)
LEMMA AcquireRunsLoop ==
    ASSUME GateInv, NEW d \in Downloads, NEW l \in Limits, Acquire(d, l)
    PROVE  LoopServes(Append(waiters, d), active, activeSources, Held)
<1> DEFINE ph == [phase EXCEPT ![d] = "waiting"]
           q == Append(waiters, d)
<1>1. DispatchPre(q, active, activeSources, maxConcurrent', ph)
    BY AcquireOwes
<1>2. Dispatch(q, active, activeSources, maxConcurrent', ph)
    BY DEF Acquire
<1>3. HeldIn(ph) = Held
    BY DEF Acquire, GateInv, TypeOK, HeldIn, Held, In, Phases
<1>4. \A i, j \in DOMAIN q : q[i] = q[j] => i = j
    <2>1. waiters \in Seq(Downloads) /\ \A i, j \in DOMAIN waiters : waiters[i] = waiters[j] => i = j
        BY DEF GateInv, TypeOK, ListIsWaiting
    <2>2. d \notin Range(waiters)
        BY DEF Acquire, GateInv, ListIsWaiting, Waiting, In
    <2>3. \A i \in DOMAIN waiters : waiters[i] # d
        BY <2>2 DEF Range
    <2> QED
        BY <2>1, <2>3
<1> HIDE DEF q, ph
<1>5. LoopServes(q, active, activeSources, HeldIn(ph))
    BY <1>1, <1>2, <1>4, DispatchRunsLoop
<1> QED
    BY <1>3, <1>5 DEF q

LEMMA ReleaseRunsLoop ==
    ASSUME GateInv, NEW d \in Downloads, Release(d)
    PROVE  LoopServes(waiters, active - 1, activeSources \ {SourceOf[d]}, Held \ {d})
<1> DEFINE ph == [phase EXCEPT ![d] = "out"]
           n == IF active > 0 THEN active - 1 ELSE active
           busy == activeSources \ {SourceOf[d]}
<1>1. DispatchPre(waiters, n, busy, maxConcurrent, ph)
    BY ReleaseOwes
<1>2. Dispatch(waiters, n, busy, maxConcurrent, ph) /\ maxConcurrent' = maxConcurrent
    BY DEF Release
<1>3. HeldIn(ph) = Held \ {d}
    BY DEF Release, GateInv, TypeOK, HeldIn, Held, In, Phases
<1>4. n = active - 1
    <2>1. active = Cardinality(Held) /\ d \in Held /\ IsFiniteSet(Held)
        <3>1. Held \subseteq Downloads /\ d \in Held
            BY DEF Held, In, Release
        <3> QED
            BY <3>1, FS_Subset, DownloadsAssumption DEF GateInv, SlotsMatchHolders
    <2>2. Cardinality(Held) \in Nat /\ Cardinality(Held) # 0
        BY <2>1, FS_EmptySet, FS_CardinalityType
    <2> QED
        BY <2>1, <2>2
<1>5. \A i, j \in DOMAIN waiters : waiters[i] = waiters[j] => i = j
    BY DEF GateInv, ListIsWaiting
<1> HIDE DEF n, busy, ph
<1>6. LoopServes(waiters, n, busy, HeldIn(ph))
    BY <1>1, <1>2, <1>5, DispatchRunsLoop
<1> QED
    BY <1>3, <1>4, <1>6 DEF busy

(* A step in which d leaves "out", or goes there, is its acquire, or its   *)
(* release.                                                                *)
LEMMA ComesByAcquire ==
    ASSUME GateInv, [Next]_gateVars, NEW d \in Downloads, phase[d] = "out", phase'[d] # "out"
    PROVE  \E l \in Limits : Acquire(d, l)
<1>1. phase \in [Downloads -> Phases]
    BY DEF GateInv, TypeOK
<1>2. ASSUME NEW q, NEW n, NEW busy, NEW max, NEW ph, Dispatch(q, n, busy, max, ph),
             DispatchPre(q, n, busy, max, ph), ph[d] = "out"
      PROVE  FALSE
    <2> DEFINE ord == IF n < max THEN order ELSE << >>
               key == [x \in Range(q) |-> QueueKey(ord, q, x)]
               G == Granted(Eligible(q, key, busy), key, n, max)
    <2>1. phase' = [x \in Downloads |-> IF x \in G THEN "launching" ELSE ph[x]]
        BY <1>2 DEF Dispatch
    <2>2. G \subseteq Range(q)
        BY DEF Granted, Eligible
    <2> HIDE DEF G
    <2>3. d \notin G
        BY <1>2, <2>2 DEF DispatchPre
    <2> QED
        BY <1>2, <2>1, <2>3
<1>3. ASSUME NEW x \in Downloads, NEW l \in Limits, Acquire(x, l), x # d PROVE FALSE
    <2> DEFINE ph == [phase EXCEPT ![x] = "waiting"]
               q == Append(waiters, x)
    <2>1. DispatchPre(q, active, activeSources, maxConcurrent', ph) /\ ph[d] = "out"
        BY <1>1, <1>3, AcquireOwes
    <2>2. Dispatch(q, active, activeSources, maxConcurrent', ph)
        BY <1>3 DEF Acquire
    <2> HIDE DEF ph, q
    <2> QED
        BY <1>2, <2>1, <2>2
<1>4. ASSUME NEW x \in Downloads, Release(x) PROVE FALSE
    <2> DEFINE ph == [phase EXCEPT ![x] = "out"]
               n == IF active > 0 THEN active - 1 ELSE active
               busy == activeSources \ {SourceOf[x]}
    <2>1. DispatchPre(waiters, n, busy, maxConcurrent, ph)
        BY <1>4, ReleaseOwes
    <2>2. Dispatch(waiters, n, busy, maxConcurrent, ph)
        BY <1>4 DEF Release
    <2>3. ph[d] = "out"
        BY <1>1
    <2> HIDE DEF ph, n, busy
    <2> QED
        BY <1>2, <2>1, <2>2, <2>3
<1>5. ASSUME NEW x \in Downloads, Launch(x) PROVE FALSE
    BY <1>1, <1>5 DEF Launch
<1>6. ASSUME NEW o \in Orders, SetOrder(o) PROVE FALSE
    BY <1>6 DEF SetOrder
<1>7. ASSUME UNCHANGED gateVars PROVE FALSE
    BY <1>7 DEF gateVars
<1> QED
    BY <1>3, <1>4, <1>5, <1>6, <1>7 DEF Next

LEMMA GoesByRelease ==
    ASSUME GateInv, [Next]_gateVars, NEW d \in Downloads, phase[d] = "running", phase'[d] = "out"
    PROVE  Release(d)
<1>1. phase \in [Downloads -> Phases]
    BY DEF GateInv, TypeOK
<1>2. ASSUME NEW q, NEW n, NEW busy, NEW max, NEW ph, Dispatch(q, n, busy, max, ph),
             ph[d] = "running"
      PROVE  FALSE
    <2> DEFINE ord == IF n < max THEN order ELSE << >>
               key == [x \in Range(q) |-> QueueKey(ord, q, x)]
               G == Granted(Eligible(q, key, busy), key, n, max)
    <2>1. phase' = [x \in Downloads |-> IF x \in G THEN "launching" ELSE ph[x]]
        BY <1>2 DEF Dispatch
    <2> HIDE DEF G
    <2> QED
        BY <1>2, <2>1
<1>3. ASSUME NEW x \in Downloads, NEW l \in Limits, Acquire(x, l) PROVE FALSE
    <2> DEFINE ph == [phase EXCEPT ![x] = "waiting"]
               q == Append(waiters, x)
    <2>1. Dispatch(q, active, activeSources, maxConcurrent', ph) /\ phase[x] = "out"
        BY <1>3 DEF Acquire
    <2>2. ph[d] = "running"
        BY <1>1, <2>1
    <2> HIDE DEF ph, q
    <2> QED
        BY <1>2, <2>1, <2>2
<1>4. ASSUME NEW x \in Downloads, Release(x), x # d PROVE FALSE
    <2> DEFINE ph == [phase EXCEPT ![x] = "out"]
               n == IF active > 0 THEN active - 1 ELSE active
               busy == activeSources \ {SourceOf[x]}
    <2>1. Dispatch(waiters, n, busy, maxConcurrent, ph)
        BY <1>4 DEF Release
    <2>2. ph[d] = "running"
        BY <1>1, <1>4
    <2> HIDE DEF ph, n, busy
    <2> QED
        BY <1>2, <2>1, <2>2
<1>5. ASSUME NEW x \in Downloads, Launch(x) PROVE FALSE
    BY <1>1, <1>5 DEF Launch
<1>6. ASSUME NEW o \in Orders, SetOrder(o) PROVE FALSE
    BY <1>6 DEF SetOrder
<1>7. ASSUME UNCHANGED gateVars PROVE FALSE
    BY <1>7 DEF gateVars
<1> QED
    BY <1>3, <1>4, <1>5, <1>6, <1>7 DEF Next

(* Every acquire and every release leaves exactly what the loop of         *)
(* _dispatch leaves: the list, the holders, the counter and the sources.   *)
THEOREM DispatchLoops == Spec => DispatchIsTheLoop
<1> DEFINE Loops(d) ==
        /\ phase[d] = "out" /\ phase'[d] # "out" =>
              LoopServes(Append(waiters, d), active, activeSources, Held)
        /\ phase[d] = "running" /\ phase'[d] = "out" =>
              LoopServes(waiters, active - 1, activeSources \ {SourceOf[d]}, Held \ {d})
<1>1. ASSUME GateInv, [Next]_gateVars, NEW d \in Downloads PROVE Loops(d)
    <2>1. ASSUME phase[d] = "out", phase'[d] # "out"
          PROVE  LoopServes(Append(waiters, d), active, activeSources, Held)
        <3>1. PICK l \in Limits : Acquire(d, l)
            BY <1>1, <2>1, ComesByAcquire
        <3> QED
            BY <1>1, <3>1, AcquireRunsLoop
    <2>2. ASSUME phase[d] = "running", phase'[d] = "out"
          PROVE  LoopServes(waiters, active - 1, activeSources \ {SourceOf[d]}, Held \ {d})
        <3>1. Release(d)
            BY <1>1, <2>2, GoesByRelease
        <3> QED
            BY <1>1, <3>1, ReleaseRunsLoop
    <2> QED
        BY <2>1, <2>2
<1>2. GateInv /\ [Next]_gateVars => [\A d \in Downloads : Loops(d)]_gateVars
    BY <1>1
<1> QED
    BY <1>2, GateInvariant, PTL DEF Spec, DispatchIsTheLoop

=============================================================================
