-------------------------- MODULE HtmlHost_proofs --------------------------
(*****************************************************************************)
(* A proof that the imports of `html` keep every document a tree, that       *)
(* the nodes the guest holds exist, that no edit moves a node, and that a    *)
(* fragment is placed whole, for any pages and fragments, any queries and    *)
(* selector engine, and any number of imports.                               *)
(*                                                                           *)
(* Each edit is three: to detach a node, to empty one, to put a new one      *)
(* among the children of another.  Each of these is shown, node by node,     *)
(* to keep the tree sound and its nodes in place; so does a fragment put     *)
(* node after node (by induction on how many of them were copied), since     *)
(* to stay in place twice is to stay in place.  What the guest is given is   *)
(* taken from a list of children, a parent, or the nodes below another:      *)
(* that the latter are nodes of the same tree is an induction from its       *)
(* last node down, as children are numbered after their parent.              *)
(*                                                                           *)
(* That a fragment is placed whole is shown for its nodes one by one: the    *)
(* copy of its x-th node is the (x-1)-th of the new ones and has as          *)
(* children the copies of those copied so far.  Two trees whose nodes        *)
(* correspond like this have the same shape, from the last node down.        *)
(*****************************************************************************)
EXTENDS HtmlHost, SequenceTheorems, WellFoundedInduction, TLAPS

-----------------------------------------------------------------------------
(* Nodes, lists of children, and arenas.                                   *)

(* y is the node x with the parent p and the children k.                   *)
Same(x, y) == /\ x.kind = y.kind /\ x.name = y.name
              /\ x.given = y.given /\ x.put = y.put
Moved(y, x, p, k) == IsNode(y) /\ Same(y, x) /\ y.parent = p /\ y.kids = k

LEMMA ParentEdited ==
    ASSUME NEW x, IsNode(x), NEW p
    PROVE  Moved([x EXCEPT !.parent = p], x, p, x.kids)
BY DEF IsNode, Moved, Same

LEMMA KidsEdited ==
    ASSUME NEW x, IsNode(x), NEW k
    PROVE  Moved([x EXCEPT !.kids = k], x, x.parent, k)
BY DEF IsNode, Moved, Same

LEMMA NodeEdited ==
    ASSUME NEW x, IsNode(x), NEW p, NEW k
    PROVE  Moved([x EXCEPT !.parent = p, !.kids = k], x, p, k)
<1> DEFINE z == [x EXCEPT !.parent = p]
           y == [z EXCEPT !.kids = k]
<1>1. [x EXCEPT !.parent = p, !.kids = k] = y
    OBVIOUS
<1>2. Moved(z, x, p, x.kids)
    BY ParentEdited
<1> HIDE DEF z
<1>3. Moved(y, z, z.parent, k)
    BY <1>2, KidsEdited DEF Moved
<1> HIDE DEF y
<1>4. Moved(y, x, p, k)
    BY <1>2, <1>3 DEF Moved, Same
<1> QED
    BY <1>1, <1>4

LEMMA OneRemoved ==
    ASSUME NEW S, NEW s \in Seq(S), NEW i \in 1 .. Len(s)
    PROVE  LET r == Seqs!RemoveAt(s, i) IN
           /\ r \in Seq(S) /\ Len(r) = Len(s) - 1
           /\ \A j \in 1 .. Len(r) : r[j] = IF j < i THEN s[j] ELSE s[j + 1]
<1> DEFINE a == SubSeq(s, 1, i - 1)
           b == SubSeq(s, i + 1, Len(s))
<1>1. /\ a \in Seq(S) /\ Len(a) = i - 1 /\ \A j \in 1 .. i - 1 : a[j] = s[j]
    <2>1. \A j \in 1 .. i - 1 : s[j] \in S
        BY ElementOfSeq
    <2> QED
        BY <2>1, SubSeqProperties
<1>2. /\ b \in Seq(S) /\ Len(b) = Len(s) - i
      /\ \A j \in 1 .. Len(s) - i : b[j] = s[j + i]
    <2>1. \A j \in i + 1 .. Len(s) : s[j] \in S
        BY ElementOfSeq
    <2> QED
        BY <2>1, SubSeqProperties
<1> HIDE DEF a, b
<1>3. /\ a \o b \in Seq(S) /\ Len(a \o b) = Len(s) - 1
      /\ \A j \in 1 .. Len(s) - 1 : (a \o b)[j] = IF j <= i - 1 THEN a[j] ELSE b[j - (i - 1)]
    <2>1. /\ a \o b \in Seq(S) /\ Len(a \o b) = Len(a) + Len(b)
          /\ \A j \in 1 .. Len(a) + Len(b) :
               (a \o b)[j] = IF j <= Len(a) THEN a[j] ELSE b[j - Len(a)]
        BY <1>1, <1>2, ConcatProperties
    <2>2. Len(s) \in Nat /\ Len(a) = i - 1 /\ Len(a) + Len(b) = Len(s) - 1
        BY <1>1, <1>2
    <2> QED
        BY <2>1, <2>2
<1>4. \A j \in 1 .. Len(s) - 1 : (a \o b)[j] = IF j < i THEN s[j] ELSE s[j + 1]
    BY <1>1, <1>2, <1>3
<1>5. Seqs!RemoveAt(s, i) = a \o b
    BY DEF Seqs!RemoveAt, a, b
<1> QED
    BY <1>3, <1>4, <1>5

LEMMA OneInserted ==
    ASSUME NEW S, NEW s \in Seq(S), NEW i \in 1 .. Len(s) + 1, NEW e \in S
    PROVE  LET r == Seqs!InsertAt(s, i, e) IN
           /\ r \in Seq(S) /\ Len(r) = Len(s) + 1
           /\ \A j \in 1 .. Len(r) :
                r[j] = IF j < i THEN s[j] ELSE IF j = i THEN e ELSE s[j - 1]
<1> DEFINE a == SubSeq(s, 1, i - 1)
           b == SubSeq(s, i, Len(s))
<1>1. /\ a \in Seq(S) /\ Len(a) = i - 1 /\ \A j \in 1 .. i - 1 : a[j] = s[j]
    <2>1. \A j \in 1 .. i - 1 : s[j] \in S
        BY ElementOfSeq
    <2> QED
        BY <2>1, SubSeqProperties
<1>2. /\ b \in Seq(S) /\ Len(b) = Len(s) - i + 1
      /\ \A j \in 1 .. Len(s) - i + 1 : b[j] = s[j + i - 1]
    <2>1. \A j \in i .. Len(s) : s[j] \in S
        BY ElementOfSeq
    <2> QED
        BY <2>1, SubSeqProperties
<1> HIDE DEF a, b
<1>3. /\ a \o <<e>> \in Seq(S) /\ Len(a \o <<e>>) = i
      /\ \A j \in 1 .. i : (a \o <<e>>)[j] = IF j < i THEN s[j] ELSE e
    BY <1>1, ConcatProperties
<1> DEFINE c == a \o <<e>>
<1> HIDE DEF c
<1>4. /\ c \o b \in Seq(S) /\ Len(c \o b) = Len(s) + 1
      /\ \A j \in 1 .. Len(s) + 1 : (c \o b)[j] = IF j <= i THEN c[j] ELSE b[j - i]
    <2>0. c \in Seq(S) /\ Len(c) = i
        BY <1>3 DEF c
    <2>1. /\ c \o b \in Seq(S) /\ Len(c \o b) = Len(c) + Len(b)
          /\ \A j \in 1 .. Len(c) + Len(b) :
               (c \o b)[j] = IF j <= Len(c) THEN c[j] ELSE b[j - Len(c)]
        BY <2>0, <1>2, ConcatProperties
    <2>2. Len(s) \in Nat /\ Len(c) + Len(b) = Len(s) + 1
        BY <2>0, <1>2
    <2> QED
        BY <2>0, <2>1, <2>2
<1>5. \A j \in 1 .. Len(s) + 1 :
          (c \o b)[j] = IF j < i THEN s[j] ELSE IF j = i THEN e ELSE s[j - 1]
    <2>1. \A j \in 1 .. i : c[j] = IF j < i THEN s[j] ELSE e
        BY <1>3 DEF c
    <2>2. Len(s) \in Nat /\ i \in 1 .. Len(s) + 1
        OBVIOUS
    <2> SUFFICES ASSUME NEW j \in 1 .. Len(s) + 1
                 PROVE  (c \o b)[j] = IF j < i THEN s[j] ELSE IF j = i THEN e ELSE s[j - 1]
        OBVIOUS
    <2>3. CASE j <= i
        <3>1. j \in 1 .. i
            BY <2>2, <2>3
        <3>2. (c \o b)[j] = c[j]
            BY <2>3, <1>4
        <3> QED
            BY <2>1, <2>2, <2>3, <3>1, <3>2
    <2>4. CASE ~(j <= i)
        <3>1. j - i \in 1 .. Len(s) - i + 1 /\ (j - i) + i - 1 = j - 1
            BY <2>2, <2>4
        <3>2. (c \o b)[j] = b[j - i]
            BY <2>4, <1>4
        <3>3. b[j - i] = s[j - 1]
            BY <3>1, <1>2
        <3> QED
            BY <2>2, <2>4, <3>2, <3>3
    <2> QED
        BY <2>3, <2>4
<1>6. Seqs!InsertAt(s, i, e) = c \o b
    BY DEF Seqs!InsertAt, a, b, c
<1> QED
    BY <1>4, <1>5, <1>6

(* r is s with e inserted at i, a sequence over S. *)
Inserted(r, s, i, e, S) ==
    /\ r \in Seq(S) /\ Len(r) = Len(s) + 1
    /\ \A j \in 1 .. Len(r) : r[j] = IF j < i THEN s[j] ELSE IF j = i THEN e ELSE s[j - 1]

LEMMA InsertAtInserts ==
    ASSUME NEW S, NEW s \in Seq(S), NEW i \in 1 .. Len(s) + 1, NEW e \in S
    PROVE  Inserted(Seqs!InsertAt(s, i, e), s, i, e, S)
BY OneInserted DEF Inserted

OnNodes(u, N) == u = [m \in 1 .. N |-> u[m]]

LEMMA Numbered ==
    ASSUME NEW N \in Nat, NEW u, OnNodes(u, N)
    PROVE  /\ u \in Seq({u[n] : n \in DOMAIN u}) /\ Len(u) = N /\ DOMAIN u = 1 .. N
           /\ N > 0 => u # <<>>
BY DEF OnNodes

(* What a sound tree says of its nodes.                                    *)
LEMMA SoundFacts ==
    ASSUME NEW t, SoundTree(t)
    PROVE  /\ Len(t) \in Nat /\ Len(t) >= 1 /\ DOMAIN t = 1 .. Len(t)
           /\ t = [m \in 1 .. Len(t) |-> t[m]]
           /\ \A n \in DOMAIN t :
                /\ IsNode(t[n]) /\ t[n].kind \in Kinds
                /\ t[n].parent \in Nat /\ t[n].parent < n
                /\ t[n].parent # 0 => t[n].parent \in DOMAIN t
                /\ t[n].kids \in Seq(DOMAIN t)
                /\ Len(t[n].kids) \in Nat /\ DOMAIN t[n].kids = 1 .. Len(t[n].kids)
                /\ \A i \in 1 .. Len(t[n].kids) : t[n].kids[i] \in DOMAIN t
<1>1. /\ t # <<>> /\ t \in Seq({t[n] : n \in DOMAIN t})
    BY DEF SoundTree, Arena
<1> DEFINE S == {t[n] : n \in DOMAIN t}
<1> HIDE DEF S
<1>2. t \in Seq(S)
    BY <1>1 DEF S
<1>3. Len(t) \in Nat /\ Len(t) >= 1 /\ DOMAIN t = 1 .. Len(t) /\ t = [m \in 1 .. Len(t) |-> t[m]]
    BY <1>1, <1>2
<1>4. ASSUME NEW n \in DOMAIN t
      PROVE /\ IsNode(t[n]) /\ t[n].kind \in Kinds
            /\ t[n].parent \in Nat /\ t[n].parent < n
            /\ t[n].parent # 0 => t[n].parent \in DOMAIN t
            /\ t[n].kids \in Seq(DOMAIN t)
    <2>1. /\ IsNode(t[n]) /\ t[n].kind \in Kinds
          /\ t[n].parent \in 0 .. n - 1 /\ t[n].kids \in Seq(DOMAIN t)
        BY DEF SoundTree, Arena
    <2>2. n \in 1 .. Len(t) /\ Len(t) \in Nat
        BY <1>3
    <2>3. /\ t[n].parent \in Nat /\ t[n].parent < n
          /\ t[n].parent # 0 => t[n].parent \in 1 .. Len(t)
        BY <2>1, <2>2
    <2> QED
        BY <1>3, <2>1, <2>3
<1>5. ASSUME NEW n \in DOMAIN t
      PROVE /\ Len(t[n].kids) \in Nat /\ DOMAIN t[n].kids = 1 .. Len(t[n].kids)
            /\ \A i \in 1 .. Len(t[n].kids) : t[n].kids[i] \in DOMAIN t
    BY <1>4, LenProperties, ElementOfSeq
<1> QED
    BY <1>3, <1>4, <1>5

(* A child is where Position says.                                         *)
LEMMA Positioned ==
    ASSUME NEW t, SoundTree(t), NEW n \in DOMAIN t, t[n].parent # 0
    PROVE  /\ Position(t, n) \in 1 .. Len(t[t[n].parent].kids)
           /\ t[t[n].parent].kids[Position(t, n)] = n
<1>1. \E i \in DOMAIN t[t[n].parent].kids : t[t[n].parent].kids[i] = n
    BY DEF SoundTree, Linked
<1>2. DOMAIN t[t[n].parent].kids = 1 .. Len(t[t[n].parent].kids)
    BY SoundFacts
<1> QED
    BY <1>1, <1>2 DEF Position

-----------------------------------------------------------------------------
(* What the edits do, node by node.                                        *)
LEMMA Detached ==
    ASSUME NEW t, SoundTree(t), NEW n \in DOMAIN t, t[n].parent # 0
    PROVE  LET u == Detach(t, n)
               p == t[n].parent IN
           /\ u = [m \in 1 .. Len(t) |-> u[m]]
           /\ \A m \in DOMAIN t :
                /\ IsNode(u[m]) /\ Same(u[m], t[m])
                /\ u[m].parent = IF m = n THEN 0 ELSE t[m].parent
                /\ u[m].kids = IF m = p THEN Seqs!RemoveAt(t[p].kids, Position(t, n)) ELSE t[m].kids
<1> DEFINE p == t[n].parent
           r == Seqs!RemoveAt(t[p].kids, Position(t, n))
           v == [t EXCEPT ![n].parent = 0]
<1> HIDE DEF r
<1>1. /\ DOMAIN t = 1 .. Len(t) /\ p \in DOMAIN t /\ p # n
      /\ t = [m \in 1 .. Len(t) |-> t[m]]
      /\ \A m \in DOMAIN t : IsNode(t[m])
    BY SoundFacts
<1>2. v = [m \in 1 .. Len(t) |-> IF m = n THEN [t[n] EXCEPT !.parent = 0] ELSE t[m]]
    BY <1>1
<1>3. v[p].kids = t[p].kids
    BY <1>1, <1>2
<1>4. Detach(t, n) = [v EXCEPT ![p].kids = r]
    BY <1>1, <1>2, <1>3 DEF Detach, r
<1> HIDE DEF v, p
<1>5. Detach(t, n) = [m \in 1 .. Len(t) |-> IF m = p THEN [v[p] EXCEPT !.kids = r] ELSE v[m]]
    BY <1>1, <1>2, <1>4
<1>6. ASSUME NEW m \in DOMAIN t
      PROVE  LET u == Detach(t, n) IN
             /\ IsNode(u[m]) /\ Same(u[m], t[m])
             /\ u[m].parent = IF m = n THEN 0 ELSE t[m].parent
             /\ u[m].kids = IF m = p THEN r ELSE t[m].kids
    <2>1. CASE m = n
        <3>1. Detach(t, n)[m] = [t[m] EXCEPT !.parent = 0]
            BY <2>1, <1>1, <1>2, <1>5
        <3>2. Moved([t[m] EXCEPT !.parent = 0], t[m], 0, t[m].kids)
            BY <1>1, ParentEdited
        <3> QED
            BY <2>1, <3>1, <3>2, <1>1 DEF Moved
    <2>2. CASE m = p
        <3>1. Detach(t, n)[m] = [t[m] EXCEPT !.kids = r]
            BY <2>2, <1>1, <1>2, <1>5
        <3>2. Moved([t[m] EXCEPT !.kids = r], t[m], t[m].parent, r)
            BY <1>1, KidsEdited
        <3> QED
            BY <2>2, <3>1, <3>2, <1>1 DEF Moved
    <2>3. CASE m # n /\ m # p
        BY <2>3, <1>1, <1>2, <1>5 DEF Same
    <2> QED
        BY <2>1, <2>2, <2>3
<1>7. Detach(t, n) = [m \in 1 .. Len(t) |-> Detach(t, n)[m]]
    BY <1>5
<1> QED
    BY <1>6, <1>7 DEF p, r

LEMMA ChildrenDetached ==
    ASSUME NEW t, SoundTree(t), NEW n \in DOMAIN t
    PROVE  LET u == DetachChildren(t, n) IN
           /\ u = [m \in 1 .. Len(t) |-> u[m]]
           /\ \A m \in DOMAIN t :
                /\ IsNode(u[m]) /\ Same(u[m], t[m])
                /\ u[m].parent = IF t[m].parent = n THEN 0 ELSE t[m].parent
                /\ u[m].kids = IF m = n THEN <<>> ELSE t[m].kids
<1>1. /\ DOMAIN t = 1 .. Len(t)
      /\ \A m \in DOMAIN t : IsNode(t[m])
    BY SoundFacts
<1>2. DetachChildren(t, n) =
        [m \in 1 .. Len(t) |-> [t[m] EXCEPT !.parent = IF t[m].parent = n THEN 0 ELSE t[m].parent,
                                            !.kids = IF m = n THEN <<>> ELSE t[m].kids]]
    BY <1>1 DEF DetachChildren
<1>3. ASSUME NEW m \in DOMAIN t
      PROVE  LET u == DetachChildren(t, n) IN
             /\ IsNode(u[m]) /\ Same(u[m], t[m])
             /\ u[m].parent = IF t[m].parent = n THEN 0 ELSE t[m].parent
             /\ u[m].kids = IF m = n THEN <<>> ELSE t[m].kids
    <2> DEFINE a == IF t[m].parent = n THEN 0 ELSE t[m].parent
               b == IF m = n THEN <<>> ELSE t[m].kids
               y == [t[m] EXCEPT !.parent = a, !.kids = b]
    <2> HIDE DEF a, b
    <2>1. DetachChildren(t, n)[m] = y
        BY <1>1, <1>2 DEF a, b
    <2>2. Moved(y, t[m], a, b)
        BY <1>1, NodeEdited, Zenon
    <2> HIDE DEF y
    <2> QED
        BY <2>1, <2>2 DEF Moved, a, b
<1>4. DetachChildren(t, n) = [m \in 1 .. Len(t) |-> DetachChildren(t, n)[m]]
    BY <1>2
<1> QED
    BY <1>3, <1>4

(* The child before which a new one goes, or 0.                            *)
Before(t, p, b) == b = 0 \/ (b \in DOMAIN t /\ t[b].parent = p)

(* Where in the list k that is: before b, or last.                         *)
PlaceOf(k, b) == IF b = 0 THEN Len(k) + 1 ELSE CHOOSE i \in DOMAIN k : k[i] = b

(* u is t with the node x, its N-th, put among the children of p.          *)
WithNode(u, t, p, x, b, N) ==
    /\ OnNodes(u, N)
    /\ IsNode(u[N]) /\ Same(u[N], x) /\ u[N].parent = p /\ u[N].kids = <<>>
    /\ \A m \in DOMAIN t :
         /\ IsNode(u[m]) /\ Same(u[m], t[m]) /\ u[m].parent = t[m].parent
         /\ m # p => u[m].kids = t[m].kids
    /\ PlaceOf(t[p].kids, b) \in 1 .. Len(t[p].kids) + 1
    /\ u[p].kids = Seqs!InsertAt(t[p].kids, PlaceOf(t[p].kids, b), N)

LEMMA PutThere ==
    ASSUME NEW t, SoundTree(t), NEW p \in DOMAIN t, NEW x, IsNode(x),
           NEW b, Before(t, p, b)
    PROVE  WithNode(Put(t, p, x, b), t, p, x, b, Len(t) + 1)
<1> DEFINE N == Len(t) + 1
           k == t[p].kids
           at == PlaceOf(k, b)
           y == [x EXCEPT !.parent = p, !.kids = <<>>]
           v == Append(t, y)
           u == Put(t, p, x, b)
<1>1. /\ Len(t) \in Nat /\ DOMAIN t = 1 .. Len(t) /\ p \in 1 .. Len(t)
      /\ \A m \in DOMAIN t : IsNode(t[m])
      /\ Len(k) \in Nat /\ DOMAIN k = 1 .. Len(k)
    BY SoundFacts
<1>2. at \in 1 .. Len(k) + 1
    <2>1. CASE b = 0
        BY <2>1, <1>1 DEF PlaceOf
    <2>2. CASE b # 0
        <3>1. b \in DOMAIN t /\ t[b].parent = p /\ p # 0
            BY <2>2, <1>1 DEF Before
        <3>2. \E i \in DOMAIN k : k[i] = b
            BY <3>1 DEF SoundTree, Linked
        <3>3. (CHOOSE i \in DOMAIN k : k[i] = b) \in DOMAIN k
            BY <3>2
        <3> QED
            BY <2>2, <3>3, <1>1 DEF PlaceOf
    <2> QED
        BY <2>1, <2>2
<1>3. u = [v EXCEPT ![p].kids = Seqs!InsertAt(v[p].kids, at, N)]
    BY DEF Put, PlaceOf
<1> HIDE DEF at, y, k
<1>4. v = [m \in 1 .. N |-> IF m = N THEN y ELSE t[m]]
    <2>1. t \in Seq({t[m] : m \in DOMAIN t})
        BY DEF SoundTree, Arena
    <2> DEFINE S == {t[m] : m \in DOMAIN t} \cup {y}
    <2>2. t \in Seq(S) /\ y \in S
        BY <2>1, SeqMonotonic
    <2> HIDE DEF S
    <2>3. /\ v \in Seq(S) /\ Len(v) = N
          /\ \A m \in 1 .. N : v[m] = IF m = N THEN y ELSE t[m]
        BY <2>2, <1>1, AppendProperties
    <2> HIDE DEF v
    <2>4. v = [m \in 1 .. N |-> v[m]]
        BY <2>3
    <2> QED
        BY <2>3, <2>4
<1> HIDE DEF v
<1>5. v[p].kids = k /\ N \in Nat /\ p # N /\ N \in 1 .. N /\ p \in 1 .. N
      /\ \A m \in DOMAIN t : m \in 1 .. N /\ m # N
    BY <1>1, <1>4 DEF k
<1> DEFINE r == Seqs!InsertAt(k, at, N)
<1>6. u = [m \in 1 .. N |-> IF m = p THEN [v[p] EXCEPT !.kids = r] ELSE v[m]]
    BY <1>3, <1>4, <1>5
<1> HIDE DEF r, u
<1>7. IsNode(u[N]) /\ Same(u[N], x) /\ u[N].parent = p /\ u[N].kids = <<>>
    <2>1. u[N] = y
        BY <1>4, <1>5, <1>6
    <2>2. Moved(y, x, p, <<>>)
        BY NodeEdited, Zenon DEF y
    <2> QED
        BY <2>1, <2>2 DEF Moved
<1>8. ASSUME NEW m \in DOMAIN t
      PROVE  /\ IsNode(u[m]) /\ Same(u[m], t[m]) /\ u[m].parent = t[m].parent
             /\ u[m].kids = IF m = p THEN r ELSE t[m].kids
    <2>1. v[m] = t[m]
        BY <1>4, <1>5
    <2>2. CASE m = p
        <3>1. u[m] = [t[m] EXCEPT !.kids = r]
            BY <2>1, <2>2, <1>5, <1>6
        <3>2. Moved([t[m] EXCEPT !.kids = r], t[m], t[m].parent, r)
            BY <1>1, KidsEdited
        <3> QED
            BY <3>1, <3>2, <2>2 DEF Moved
    <2>3. CASE m # p
        BY <2>1, <2>3, <1>1, <1>5, <1>6 DEF Same
    <2> QED
        BY <2>2, <2>3
<1>9. u = [m \in 1 .. N |-> u[m]]
    BY <1>6
<1>10. at \in 1 .. Len(k) + 1 /\ u[p].kids = Seqs!InsertAt(k, at, N)
    BY <1>2, <1>8 DEF r
<1> HIDE DEF N
<1>11. WithNode(u, t, p, x, b, N)
    BY <1>7, <1>8, <1>9, <1>10 DEF WithNode, OnNodes, k, at
<1> QED
    BY <1>11 DEF u, N

-----------------------------------------------------------------------------
(* Every edit of one node keeps the tree sound, and moves no node.         *)

(* SoundTree in the form in which the proofs use it: N nodes; the children *)
(* of each are distinct nodes that name it as their parent; and a node     *)
(* with a parent is among its children.                                    *)
NodesOf(u, N) ==
    \A m \in 1 .. N :
        /\ IsNode(u[m]) /\ u[m].kind \in Kinds
        /\ u[m].parent \in 0 .. m - 1 /\ u[m].kids \in Seq(1 .. N)
Listing(u, m, k, N) ==
    \A i \in 1 .. Len(k) :
        /\ k[i] \in 1 .. N /\ u[k[i]].parent = m
        /\ \A j \in 1 .. Len(k) : k[i] = k[j] => i = j
Has(k, c) == \E i \in 1 .. Len(k) : k[i] = c
Plain(u, N) ==
    /\ N \in Nat /\ N >= 1 /\ OnNodes(u, N) /\ NodesOf(u, N)
    /\ \A m \in 1 .. N : Listing(u, m, u[m].kids, N)
    /\ \A c \in 1 .. N : u[c].parent # 0 => Has(u[u[c].parent].kids, c)
    /\ u[Root].kind = "root"

LEMMA PlainIsSound ==
    ASSUME NEW u, NEW N, Plain(u, N)
    PROVE  SoundTree(u) /\ DOMAIN u = 1 .. N /\ Len(u) = N
<1>1. /\ N \in Nat /\ N >= 1 /\ OnNodes(u, N) /\ NodesOf(u, N)
      /\ u[Root].kind = "root"
    BY DEF Plain
<1>2. /\ u \in Seq({u[n] : n \in DOMAIN u}) /\ Len(u) = N /\ DOMAIN u = 1 .. N /\ u # <<>>
    BY <1>1, Numbered
<1>3. \A m \in 1 .. N : DOMAIN u[m].kids = 1 .. Len(u[m].kids)
    BY <1>1, LenProperties DEF NodesOf
<1>4. Arena(u)
    BY <1>1, <1>2 DEF Arena, NodesOf
<1>5. ASSUME NEW n \in 1 .. N
      PROVE  /\ \A i \in DOMAIN u[n].kids :
                  /\ u[u[n].kids[i]].parent = n
                  /\ \A j \in DOMAIN u[n].kids : u[n].kids[i] = u[n].kids[j] => i = j
             /\ u[n].parent # 0 => \E i \in DOMAIN u[u[n].parent].kids : u[u[n].parent].kids[i] = n
    <2>1. Listing(u, n, u[n].kids, N)
        BY DEF Plain
    <2>2. u[n].parent \in 0 .. n - 1
        BY <1>1 DEF NodesOf
    <2>3. u[n].parent # 0 => u[n].parent \in 1 .. N
        BY <1>1, <2>2
    <2>4. u[n].parent # 0 => Has(u[u[n].parent].kids, n)
        BY DEF Plain
    <2> QED
        BY <2>1, <2>3, <2>4, <1>3 DEF Listing, Has
<1>6. Linked(u)
    BY <1>2, <1>5 DEF Linked
<1> QED
    BY <1>1, <1>2, <1>4, <1>6 DEF SoundTree

LEMMA SoundIsPlain ==
    ASSUME NEW t, SoundTree(t)
    PROVE  Plain(t, Len(t)) /\ DOMAIN t = 1 .. Len(t)
<1> DEFINE N == Len(t)
<1>1. /\ N \in Nat /\ N >= 1 /\ DOMAIN t = 1 .. N /\ OnNodes(t, N)
      /\ \A n \in 1 .. N : /\ IsNode(t[n]) /\ t[n].kind \in Kinds
                           /\ t[n].parent \in Nat /\ t[n].parent < n
                           /\ t[n].parent # 0 => t[n].parent \in 1 .. N
                           /\ t[n].kids \in Seq(1 .. N)
                           /\ DOMAIN t[n].kids = 1 .. Len(t[n].kids)
                           /\ \A i \in 1 .. Len(t[n].kids) : t[n].kids[i] \in 1 .. N
    BY SoundFacts DEF OnNodes
<1> HIDE DEF N
<1>2. NodesOf(t, N)
    BY <1>1 DEF NodesOf
<1>3. ASSUME NEW m \in 1 .. N PROVE Listing(t, m, t[m].kids, N)
    <2>1. /\ \A i \in DOMAIN t[m].kids :
             /\ t[t[m].kids[i]].parent = m
             /\ \A j \in DOMAIN t[m].kids : t[m].kids[i] = t[m].kids[j] => i = j
        BY <1>1 DEF SoundTree, Linked
    <2> QED
        BY <1>1, <2>1 DEF Listing
<1>4. ASSUME NEW c \in 1 .. N, t[c].parent # 0 PROVE Has(t[t[c].parent].kids, c)
    <2>1. t[c].parent \in 1 .. N /\ \E i \in DOMAIN t[t[c].parent].kids : t[t[c].parent].kids[i] = c
        BY <1>1, <1>4 DEF SoundTree, Linked
    <2> QED
        BY <1>1, <2>1 DEF Has
<1>5. t[Root].kind = "root"
    BY DEF SoundTree
<1> QED
    BY <1>1, <1>2, <1>3, <1>4, <1>5 DEF Plain, N

(* Where the others are once one of a list is removed, or one inserted.    *)
LEMMA RemovedPlaces ==
    ASSUME NEW S, NEW s \in Seq(S), NEW i \in 1 .. Len(s), NEW j \in 1 .. Len(s), j # i
    PROVE  LET k == IF j < i THEN j ELSE j - 1 IN
           k \in 1 .. Len(Seqs!RemoveAt(s, i)) /\ Seqs!RemoveAt(s, i)[k] = s[j]
<1> DEFINE r == Seqs!RemoveAt(s, i)
           k == IF j < i THEN j ELSE j - 1
<1>1. /\ Len(s) \in Nat /\ Len(r) = Len(s) - 1
      /\ \A m \in 1 .. Len(r) : r[m] = IF m < i THEN s[m] ELSE s[m + 1]
    BY OneRemoved
<1> HIDE DEF r
<1>2. k \in 1 .. Len(r) /\ (IF k < i THEN k = j ELSE k + 1 = j)
    BY <1>1
<1> HIDE DEF k
<1>3. r[k] = s[j]
    BY <1>1, <1>2
<1> QED
    BY <1>2, <1>3 DEF r, k

LEMMA InsertedPlaces ==
    ASSUME NEW S, NEW s \in Seq(S), NEW i \in 1 .. Len(s) + 1, NEW e \in S,
           NEW j \in 1 .. Len(s)
    PROVE  LET k == IF j < i THEN j ELSE j + 1 IN
           k \in 1 .. Len(Seqs!InsertAt(s, i, e)) /\ Seqs!InsertAt(s, i, e)[k] = s[j]
<1> DEFINE r == Seqs!InsertAt(s, i, e)
           k == IF j < i THEN j ELSE j + 1
<1>1. /\ Len(s) \in Nat /\ Len(r) = Len(s) + 1
      /\ \A m \in 1 .. Len(r) : r[m] = IF m < i THEN s[m] ELSE IF m = i THEN e ELSE s[m - 1]
    BY OneInserted
<1> HIDE DEF r
<1>2. k \in 1 .. Len(r) /\ k # i /\ (IF k < i THEN k = j ELSE k - 1 = j)
    BY <1>1
<1> HIDE DEF k
<1>3. r[k] = s[j]
    BY <1>1, <1>2
<1> QED
    BY <1>2, <1>3 DEF r, k

(* The children s of n that still name it are in r, in the same order.     *)
OrderKept(u, n, s, r) ==
    \A i, j \in 1 .. Len(s) :
        i < j /\ u[s[i]].parent = n /\ u[s[j]].parent = n =>
            \E k, l \in 1 .. Len(r) : k < l /\ r[k] = s[i] /\ r[l] = s[j]

(* A node of u is what it was in t, but for its parent and what was put.   *)
Kept(y, x) == /\ y.kind = x.kind /\ y.name = x.name /\ y.given = x.given
              /\ y.parent \in {x.parent, 0}

Stays(t, u, N) ==
    \A n \in 1 .. N : Kept(u[n], t[n]) /\ OrderKept(u, n, t[n].kids, u[n].kids)

LEMMA PlainStaysPut ==
    ASSUME NEW t, NEW N, Plain(t, N), NEW u, NEW M, Plain(u, M), N <= M,
           \A n \in 1 .. N : Kept(u[n], t[n]) /\ OrderKept(u, n, t[n].kids, u[n].kids)
    PROVE  StaysPut(t, u)
<1>1. DOMAIN t = 1 .. N /\ DOMAIN u = 1 .. M /\ N \in Nat /\ M \in Nat
    BY PlainIsSound DEF Plain
<1>2. /\ \A n \in 1 .. N : DOMAIN t[n].kids = 1 .. Len(t[n].kids)
      /\ \A n \in 1 .. M : DOMAIN u[n].kids = 1 .. Len(u[n].kids)
    BY LenProperties DEF Plain, NodesOf
<1> SUFFICES ASSUME NEW n \in 1 .. N
             PROVE  /\ n \in DOMAIN u
                    /\ <<u[n].kind, u[n].name, u[n].given>> = <<t[n].kind, t[n].name, t[n].given>>
                    /\ u[n].parent \in {t[n].parent, 0}
                    /\ \A i, j \in DOMAIN t[n].kids :
                         i < j /\ u[t[n].kids[i]].parent = n /\ u[t[n].kids[j]].parent = n =>
                             \E k, l \in DOMAIN u[n].kids :
                                 k < l /\ u[n].kids[k] = t[n].kids[i] /\ u[n].kids[l] = t[n].kids[j]
    BY <1>1 DEF StaysPut
<1>3. n \in 1 .. M
    BY <1>1
<1>4. Kept(u[n], t[n]) /\ OrderKept(u, n, t[n].kids, u[n].kids)
    OBVIOUS
<1>5. /\ u[n].kind = t[n].kind /\ u[n].name = t[n].name /\ u[n].given = t[n].given
      /\ u[n].parent \in {t[n].parent, 0}
    BY <1>4 DEF Kept
<1>6. /\ DOMAIN t[n].kids = 1 .. Len(t[n].kids)
      /\ DOMAIN u[n].kids = 1 .. Len(u[n].kids)
    BY <1>2, <1>3
<1> DEFINE s == t[n].kids
           r == u[n].kids
<1>7. DOMAIN s = 1 .. Len(s) /\ DOMAIN r = 1 .. Len(r) /\ OrderKept(u, n, s, r)
    BY <1>4, <1>6
<1> HIDE DEF s, r
<1>8. \A i, j \in DOMAIN s :
          i < j /\ u[s[i]].parent = n /\ u[s[j]].parent = n =>
              \E k, l \in DOMAIN r : k < l /\ r[k] = s[i] /\ r[l] = s[j]
    BY <1>7 DEF OrderKept
<1> QED
    BY <1>1, <1>3, <1>5, <1>8 DEF s, r

LEMMA SameOrder == ASSUME NEW u, NEW n, NEW s PROVE OrderKept(u, n, s, s)
BY DEF OrderKept

LEMMA RemovedOrder ==
    ASSUME NEW S, NEW s \in Seq(S), NEW at \in 1 .. Len(s), NEW u, NEW n,
           u[s[at]].parent # n
    PROVE  OrderKept(u, n, s, Seqs!RemoveAt(s, at))
<1> DEFINE New(k) == IF k < at THEN k ELSE k - 1
           r == Seqs!RemoveAt(s, at)
<1> SUFFICES ASSUME NEW i \in 1 .. Len(s), NEW j \in 1 .. Len(s), i < j,
                    u[s[i]].parent = n, u[s[j]].parent = n
             PROVE  \E k, l \in 1 .. Len(r) : k < l /\ r[k] = s[i] /\ r[l] = s[j]
    BY DEF OrderKept
<1>1. i # at /\ j # at /\ Len(s) \in Nat
    OBVIOUS
<1>2. New(i) \in 1 .. Len(r) /\ r[New(i)] = s[i] /\ New(j) \in 1 .. Len(r) /\ r[New(j)] = s[j]
    BY <1>1, RemovedPlaces
<1>3. New(i) < New(j)
    BY <1>1
<1> HIDE DEF New, r
<1> QED
    BY <1>2, <1>3

LEMMA InsertedOrder ==
    ASSUME NEW S, NEW s \in Seq(S), NEW at \in 1 .. Len(s) + 1, NEW e \in S, NEW u, NEW n
    PROVE  OrderKept(u, n, s, Seqs!InsertAt(s, at, e))
<1> DEFINE New(k) == IF k < at THEN k ELSE k + 1
           r == Seqs!InsertAt(s, at, e)
<1> SUFFICES ASSUME NEW i \in 1 .. Len(s), NEW j \in 1 .. Len(s), i < j
             PROVE  \E k, l \in 1 .. Len(r) : k < l /\ r[k] = s[i] /\ r[l] = s[j]
    BY DEF OrderKept
<1>1. Len(s) \in Nat
    OBVIOUS
<1>2. New(i) \in 1 .. Len(r) /\ r[New(i)] = s[i] /\ New(j) \in 1 .. Len(r) /\ r[New(j)] = s[j]
    BY <1>1, InsertedPlaces
<1>3. New(i) < New(j)
    BY <1>1
<1> HIDE DEF New, r
<1> QED
    BY <1>2, <1>3

-----------------------------------------------------------------------------
(* Removing a node *)
LEMMA DetachSound ==
    ASSUME NEW t, NEW N, Plain(t, N), DOMAIN t = 1 .. N, Len(t) = N,
           NEW n \in 1 .. N, t[n].parent # 0
    PROVE  Plain(Detach(t, n), N) /\ Stays(t, Detach(t, n), N)
<1> DEFINE p == t[n].parent
           at == Position(t, n)
           s == t[p].kids
           r == Seqs!RemoveAt(s, at)
           u == Detach(t, n)
<1>0. SoundTree(t)
    BY PlainIsSound
<1>1. /\ N \in Nat /\ N >= 1 /\ p \in 1 .. N /\ p # n /\ p # 0 /\ NodesOf(t, N)
      /\ s \in Seq(1 .. N) /\ Len(s) \in Nat
    <2>1. NodesOf(t, N) /\ N \in Nat /\ N >= 1
        BY DEF Plain
    <2>2. p \in 0 .. n - 1
        BY <2>1 DEF NodesOf
    <2>3. p \in 1 .. N /\ p # n /\ p # 0
        BY <2>1, <2>2
    <2> HIDE DEF p, at, r, u
    <2>4. s \in Seq(1 .. N)
        BY <2>1, <2>3 DEF NodesOf
    <2>5. Len(s) \in Nat
        BY <2>4
    <2> QED
        BY <2>1, <2>3, <2>4, <2>5
<1>2. at \in 1 .. Len(s) /\ s[at] = n
    BY <1>0, Positioned
<1>3. /\ OnNodes(u, N)
      /\ \A m \in 1 .. N :
           /\ IsNode(u[m]) /\ Same(u[m], t[m])
           /\ u[m].parent = IF m = n THEN 0 ELSE t[m].parent
           /\ u[m].kids = IF m = p THEN r ELSE t[m].kids
    BY <1>0, Detached DEF OnNodes
<1>4. /\ r \in Seq(1 .. N) /\ Len(r) = Len(s) - 1
      /\ \A j \in 1 .. Len(r) : r[j] = IF j < at THEN s[j] ELSE s[j + 1]
    BY <1>1, <1>2, OneRemoved
<1>5. \A j \in 1 .. Len(s) : j # at => Has(r, s[j])
    BY <1>1, <1>2, RemovedPlaces DEF Has
<1>6. Listing(t, p, s, N)
    BY <1>1 DEF Plain
<1>7. OrderKept(u, p, s, r)
    <2>1. u[s[at]].parent # p
        BY <1>1, <1>2, <1>3
    <2> QED
        BY <1>1, <1>2, <2>1, RemovedOrder
<1> HIDE DEF u, r, at, s, p
<1>8. NodesOf(u, N)
    <2> SUFFICES ASSUME NEW m \in 1 .. N
                 PROVE  /\ IsNode(u[m]) /\ u[m].kind \in Kinds
                        /\ u[m].parent \in 0 .. m - 1 /\ u[m].kids \in Seq(1 .. N)
        BY DEF NodesOf
    <2>1. /\ t[m].kind \in Kinds /\ t[m].parent \in 0 .. m - 1 /\ t[m].kids \in Seq(1 .. N)
        BY <1>1 DEF NodesOf
    <2>2. 0 \in 0 .. m - 1
        BY <1>1
    <2> QED
        BY <2>1, <2>2, <1>3, <1>4 DEF Same
<1>9. ASSUME NEW m \in 1 .. N PROVE Listing(u, m, u[m].kids, N)
    <2>1. CASE m # p
        <3>1. u[m].kids = t[m].kids /\ Listing(t, m, t[m].kids, N)
            BY <2>1, <1>3 DEF Plain
        <3> DEFINE k == t[m].kids
        <3>2. ASSUME NEW i \in 1 .. Len(k) PROVE u[k[i]].parent = m
            <4>1. k[i] \in 1 .. N /\ t[k[i]].parent = m
                BY <3>1 DEF Listing
            <4> QED
                BY <4>1, <2>1, <1>3 DEF p
        <3> HIDE DEF k
        <3>3. Listing(u, m, k, N)
            BY <3>1, <3>2 DEF Listing, k
        <3> QED
            BY <3>1, <3>3 DEF k
    <2>2. CASE m = p
        <3> DEFINE Old(j) == IF j < at THEN j ELSE j + 1
        <3>0. Len(s) \in Nat /\ at \in 1 .. Len(s) /\ Len(r) = Len(s) - 1
            BY <1>1, <1>2, <1>4
        <3>1. ASSUME NEW j \in 1 .. Len(r)
              PROVE  Old(j) \in 1 .. Len(s) /\ Old(j) # at /\ r[j] = s[Old(j)]
            <4>1. Old(j) \in 1 .. Len(s) /\ Old(j) # at
                BY <3>0
            <4>2. r[j] = s[Old(j)]
                BY <1>4
            <4> QED
                BY <4>1, <4>2
        <3>2. \A i, j \in 1 .. Len(r) : Old(i) = Old(j) => i = j
            BY <3>0
        <3> HIDE DEF Old
        <3>3. \A i \in 1 .. Len(r) :
                 /\ s[Old(i)] # n /\ s[Old(i)] \in 1 .. N /\ t[s[Old(i)]].parent = p
            BY <3>1, <1>2, <1>6 DEF Listing
        <3>4. \A i \in 1 .. Len(r) : r[i] \in 1 .. N /\ u[r[i]].parent = p
            BY <3>1, <3>3, <1>3
        <3>5. ASSUME NEW i \in 1 .. Len(r), NEW j \in 1 .. Len(r), r[i] = r[j]
              PROVE  i = j
            <4>1. Old(i) \in 1 .. Len(s) /\ Old(j) \in 1 .. Len(s)
                BY <3>1
            <4>2. s[Old(i)] = s[Old(j)]
                BY <3>1, <3>5
            <4>3. \A a, b \in 1 .. Len(s) : s[a] = s[b] => a = b
                BY <1>6 DEF Listing
            <4>4. Old(i) = Old(j)
                BY <4>1, <4>2, <4>3
            <4> QED
                BY <3>2, <4>4
        <3>6. Listing(u, p, r, N)
            BY <3>4, <3>5 DEF Listing
        <3> QED
            BY <2>2, <3>6, <1>1, <1>3
    <2> QED
        BY <2>1, <2>2
<1>10. ASSUME NEW c \in 1 .. N, u[c].parent # 0 PROVE Has(u[u[c].parent].kids, c)
    <2>1. /\ c # n /\ u[c].parent = t[c].parent /\ t[c].parent # 0
        BY <1>10, <1>3
    <2> DEFINE q == t[c].parent
    <2>2. Has(t[q].kids, c)
        BY <2>1 DEF Plain
    <2>3. q \in 1 .. N
        <3>1. q \in 0 .. c - 1
            BY <1>1 DEF NodesOf
        <3> QED
            BY <2>1, <3>1, <1>1
    <2>4. CASE q # p
        BY <2>1, <2>2, <2>3, <2>4, <1>3
    <2>5. CASE q = p
        <3>1. PICK i \in 1 .. Len(s) : s[i] = c
            BY <2>2, <2>5 DEF Has, s
        <3>2. Has(r, c)
            BY <2>1, <3>1, <1>2, <1>5
        <3> QED
            BY <2>1, <2>3, <2>5, <3>2, <1>3
    <2> QED
        BY <2>4, <2>5
<1>11. u[Root].kind = "root"
    <2>1. 1 \in 1 .. N /\ t[Root].kind = "root"
        BY <1>1 DEF Plain
    <2>2. Same(u[1], t[1])
        BY <2>1, <1>3
    <2> QED
        BY <2>1, <2>2 DEF Same, Root
<1>12. Plain(u, N)
    BY <1>1, <1>3, <1>8, <1>9, <1>10, <1>11 DEF Plain
<1>13. ASSUME NEW m \in 1 .. N
       PROVE  Kept(u[m], t[m]) /\ OrderKept(u, m, t[m].kids, u[m].kids)
    <2>1. Kept(u[m], t[m])
        BY <1>3 DEF Kept, Same
    <2>2. CASE m # p
        BY <2>1, <2>2, <1>3, SameOrder
    <2>3. CASE m = p
        BY <2>1, <2>3, <1>3, <1>7 DEF s
    <2> QED
        BY <2>2, <2>3
<1>14. Stays(t, u, N)
    BY <1>13 DEF Stays
<1> QED
    BY <1>12, <1>14 DEF u

(* Emptying a node *)
LEMMA ChildrenSound ==
    ASSUME NEW t, NEW N, Plain(t, N), DOMAIN t = 1 .. N, Len(t) = N, NEW n \in 1 .. N
    PROVE  Plain(DetachChildren(t, n), N) /\ Stays(t, DetachChildren(t, n), N)
<1> DEFINE u == DetachChildren(t, n)
<1>0. SoundTree(t)
    BY PlainIsSound
<1>1. N \in Nat /\ N >= 1 /\ NodesOf(t, N)
    BY DEF Plain
<1>2. /\ OnNodes(u, N)
      /\ \A m \in 1 .. N :
           /\ IsNode(u[m]) /\ Same(u[m], t[m])
           /\ u[m].parent = IF t[m].parent = n THEN 0 ELSE t[m].parent
           /\ u[m].kids = IF m = n THEN <<>> ELSE t[m].kids
    BY <1>0, ChildrenDetached DEF OnNodes
<1> HIDE DEF u
<1>3. NodesOf(u, N)
    <2> SUFFICES ASSUME NEW m \in 1 .. N
                 PROVE  /\ IsNode(u[m]) /\ u[m].kind \in Kinds
                        /\ u[m].parent \in 0 .. m - 1 /\ u[m].kids \in Seq(1 .. N)
        BY DEF NodesOf
    <2>1. /\ t[m].kind \in Kinds /\ t[m].parent \in 0 .. m - 1 /\ t[m].kids \in Seq(1 .. N)
        BY <1>1 DEF NodesOf
    <2>2. 0 \in 0 .. m - 1 /\ <<>> \in Seq(1 .. N)
        BY <1>1
    <2> QED
        BY <2>1, <2>2, <1>2 DEF Same
<1>4. ASSUME NEW m \in 1 .. N PROVE Listing(u, m, u[m].kids, N)
    <2>1. CASE m = n
        BY <2>1, <1>2 DEF Listing
    <2>2. CASE m # n
        <3> DEFINE k == t[m].kids
        <3>1. u[m].kids = k /\ Listing(t, m, k, N)
            BY <2>2, <1>2 DEF Plain
        <3>2. ASSUME NEW i \in 1 .. Len(k) PROVE u[k[i]].parent = m
            <4>1. k[i] \in 1 .. N /\ t[k[i]].parent = m
                BY <3>1 DEF Listing
            <4> QED
                BY <4>1, <2>2, <1>2
        <3> HIDE DEF k
        <3>3. Listing(u, m, k, N)
            BY <3>1, <3>2 DEF Listing
        <3> QED
            BY <3>1, <3>3
    <2> QED
        BY <2>1, <2>2
<1>5. ASSUME NEW c \in 1 .. N, u[c].parent # 0 PROVE Has(u[u[c].parent].kids, c)
    <2>1. /\ t[c].parent # n /\ u[c].parent = t[c].parent /\ t[c].parent # 0
        BY <1>5, <1>2
    <2>2. Has(t[t[c].parent].kids, c)
        BY <2>1 DEF Plain
    <2>3. t[c].parent \in 1 .. N
        <3>1. t[c].parent \in 0 .. c - 1
            BY <1>1 DEF NodesOf
        <3> QED
            BY <2>1, <3>1, <1>1
    <2> QED
        BY <2>1, <2>2, <2>3, <1>2
<1>6. u[Root].kind = "root"
    <2>1. 1 \in 1 .. N /\ t[Root].kind = "root"
        BY <1>1 DEF Plain
    <2>2. Same(u[1], t[1])
        BY <2>1, <1>2
    <2> QED
        BY <2>1, <2>2 DEF Same, Root
<1>7. Plain(u, N)
    BY <1>1, <1>2, <1>3, <1>4, <1>5, <1>6 DEF Plain
<1>8. ASSUME NEW m \in 1 .. N
      PROVE  Kept(u[m], t[m]) /\ OrderKept(u, m, t[m].kids, u[m].kids)
    <2>1. Kept(u[m], t[m])
        BY <1>2 DEF Kept, Same
    <2>2. CASE m # n
        BY <2>1, <2>2, <1>2, SameOrder
    <2>3. CASE m = n
        <3> DEFINE k == t[m].kids
        <3>1. Listing(t, m, k, N)
            BY DEF Plain
        <3>2. ASSUME NEW i \in 1 .. Len(k) PROVE u[k[i]].parent # m
            <4>1. k[i] \in 1 .. N /\ t[k[i]].parent = m
                BY <3>1 DEF Listing
            <4> QED
                BY <4>1, <2>3, <1>1, <1>2
        <3> HIDE DEF k
        <3>3. OrderKept(u, m, k, u[m].kids)
            BY <3>2 DEF OrderKept
        <3> QED
            BY <2>1, <3>3 DEF k
    <2> QED
        BY <2>2, <2>3
<1>9. Stays(t, u, N)
    BY <1>8 DEF Stays
<1> QED
    BY <1>7, <1>9 DEF u

(* Putting a node *)
SameParents(t, u, N) == \A m \in 1 .. N : u[m].parent = t[m].parent

LEMMA PutSound ==
    ASSUME NEW t, NEW N, Plain(t, N), DOMAIN t = 1 .. N, Len(t) = N, NEW p \in 1 .. N,
           NEW x, IsNode(x), x.kind \in Kinds, NEW b, Before(t, p, b)
    PROVE  /\ Plain(Put(t, p, x, b), N + 1)
           /\ Stays(t, Put(t, p, x, b), N) /\ SameParents(t, Put(t, p, x, b), N)
<1> DEFINE u == Put(t, p, x, b)
           M == N + 1
           s == t[p].kids
<1>0. SoundTree(t)
    BY PlainIsSound
<1>1. /\ N \in Nat /\ N >= 1 /\ M \in Nat /\ M >= 1 /\ M \in 1 .. M /\ M \notin 1 .. N
      /\ \A m \in 1 .. M : m \in 1 .. N \/ m = M
      /\ \A m \in 1 .. N : m \in 1 .. M
      /\ NodesOf(t, N) /\ s \in Seq(1 .. N) /\ Len(s) \in Nat
    <2>1. NodesOf(t, N) /\ N \in Nat /\ N >= 1
        BY DEF Plain
    <2>2. s \in Seq(1 .. N)
        BY <2>1 DEF NodesOf
    <2>3. Len(s) \in Nat
        BY <2>2
    <2> HIDE DEF s, u
    <2> QED
        BY <2>1, <2>2, <2>3
<1>2. /\ OnNodes(u, M)
      /\ IsNode(u[M]) /\ Same(u[M], x) /\ u[M].parent = p /\ u[M].kids = <<>>
      /\ \A m \in 1 .. N :
           IsNode(u[m]) /\ Same(u[m], t[m]) /\ u[m].parent = t[m].parent
      /\ \A m \in 1 .. N : m # p => u[m].kids = t[m].kids
      /\ \E i \in 1 .. Len(s) + 1 : u[p].kids = Seqs!InsertAt(s, i, M)
    <2>1. p \in DOMAIN t /\ Len(t) + 1 = M
        OBVIOUS
    <2>2. WithNode(u, t, p, x, b, M)
        BY <1>0, <2>1, PutThere
    <2> HIDE DEF u, M
    <2>3. \E i \in 1 .. Len(s) + 1 : u[p].kids = Seqs!InsertAt(s, i, M)
        BY <2>2 DEF WithNode
    <2> HIDE DEF s
    <2> QED
        BY <2>2, <2>3 DEF WithNode
<1> HIDE DEF u, M, s
<1>3. PICK at \in 1 .. Len(s) + 1 : u[p].kids = Seqs!InsertAt(s, at, M)
    BY <1>2
<1> DEFINE r == Seqs!InsertAt(s, at, M)
<1> DEFINE S == 1 .. M
<1>4. s \in Seq(S) /\ at \in 1 .. Len(s) + 1 /\ M \in S
    <2>1. s \in Seq(1 .. M)
        BY <1>1, SeqMonotonic
    <2> QED
        BY <2>1, <1>1, <1>3
<1> HIDE DEF S
<1>5. /\ r \in Seq(1 .. M) /\ Len(r) = Len(s) + 1
      /\ \A j \in 1 .. Len(r) : r[j] = IF j < at THEN s[j] ELSE IF j = at THEN M ELSE s[j - 1]
    <2>1. s \in Seq(S)
        BY <1>4
    <2>2. at \in 1 .. Len(s) + 1
        BY <1>4
    <2>3. M \in S
        BY <1>4
    <2>4. Inserted(Seqs!InsertAt(s, at, M), s, at, M, S)
        BY <2>1, <2>2, <2>3, InsertAtInserts
    <2> HIDE DEF r
    <2>5. Inserted(r, s, at, M, S)
        BY <2>4 DEF r
    <2> QED
        BY <2>5 DEF S, Inserted
<1>6. ASSUME NEW j \in 1 .. Len(s) PROVE Has(r, s[j])
    <2> DEFINE k == IF j < at THEN j ELSE j + 1
    <2> HIDE DEF r
    <2>1. k \in 1 .. Len(r)
        BY <1>1, <1>4, <1>5
    <2>2. r[k] = s[j]
        <3>1. CASE j < at
            BY <2>1, <3>1, <1>5
        <3>2. CASE ~(j < at)
            <4>1. ~(j + 1 < at) /\ j + 1 # at /\ (j + 1) - 1 = j
                BY <3>2, <1>1, <1>4
            <4> QED
                BY <2>1, <3>2, <4>1, <1>5
        <3> QED
            BY <3>1, <3>2
    <2> HIDE DEF k
    <2> QED
        BY <2>1, <2>2 DEF Has
<1>7. Listing(t, p, s, N)
    BY DEF Plain, s
<1>8. OrderKept(u, p, s, r)
    BY <1>4, InsertedOrder
<1> HIDE DEF r
<1>9. NodesOf(u, M)
    <2> SUFFICES ASSUME NEW m \in 1 .. M
                 PROVE  /\ IsNode(u[m]) /\ u[m].kind \in Kinds
                        /\ u[m].parent \in 0 .. m - 1 /\ u[m].kids \in Seq(1 .. M)
        BY DEF NodesOf
    <2>1. CASE m = M
        <3>1. p \in 0 .. M - 1 /\ <<>> \in Seq(1 .. M)
            BY <1>1 DEF M
        <3> QED
            BY <2>1, <3>1, <1>2 DEF Same
    <2>2. CASE m \in 1 .. N
        <3>1. /\ t[m].kind \in Kinds /\ t[m].parent \in 0 .. m - 1 /\ t[m].kids \in Seq(1 .. N)
            BY <2>2, <1>1 DEF NodesOf
        <3>2. t[m].kids \in Seq(1 .. M)
            BY <3>1, <1>1, SeqMonotonic
        <3>3. u[m].kids \in Seq(1 .. M)
            BY <2>2, <3>2, <1>2, <1>3, <1>5 DEF r
        <3> QED
            BY <2>2, <3>1, <3>3, <1>2 DEF Same
    <2> QED
        BY <2>1, <2>2, <1>1
<1>10. ASSUME NEW m \in 1 .. M PROVE Listing(u, m, u[m].kids, M)
    <2>1. CASE m = M
        BY <2>1, <1>2 DEF Listing
    <2>2. CASE m \in 1 .. N /\ m # p
        <3> DEFINE k == t[m].kids
        <3>1. u[m].kids = k /\ Listing(t, m, k, N)
            BY <2>2, <1>2 DEF Plain
        <3>2. ASSUME NEW i \in 1 .. Len(k) PROVE k[i] \in 1 .. M /\ u[k[i]].parent = m
            <4>1. k[i] \in 1 .. N /\ t[k[i]].parent = m
                BY <3>1 DEF Listing
            <4> QED
                BY <4>1, <1>1, <1>2
        <3> HIDE DEF k
        <3>3. Listing(u, m, k, M)
            BY <3>1, <3>2 DEF Listing
        <3> QED
            BY <3>1, <3>3
    <2>3. CASE m = p
        <3> DEFINE Old(j) == IF j < at THEN j ELSE j - 1
        <3>1. ASSUME NEW j \in 1 .. Len(r), j # at
              PROVE  Old(j) \in 1 .. Len(s) /\ r[j] = s[Old(j)]
            <4>1. Len(s) \in Nat /\ Len(r) = Len(s) + 1 /\ at \in 1 .. Len(s) + 1
                BY <1>1, <1>4, <1>5
            <4>2. Old(j) \in 1 .. Len(s)
                BY <3>1, <4>1
            <4>3. r[j] = s[Old(j)]
                BY <3>1, <1>5
            <4> QED
                BY <4>2, <4>3
        <3>2. \A i, j \in 1 .. Len(r) : i # at /\ j # at /\ Old(i) = Old(j) => i = j
            <4> SUFFICES ASSUME NEW i \in 1 .. Len(r), NEW j \in 1 .. Len(r),
                                i # at, j # at, Old(i) = Old(j)
                         PROVE  i = j
                OBVIOUS
            <4>1. at \in Int /\ i \in Int /\ j \in Int
                BY <1>1, <1>4, <1>5
            <4> QED
                BY <4>1
        <3>3. at \in 1 .. Len(r) /\ r[at] = M
            BY <1>1, <1>4, <1>5
        <3> HIDE DEF Old
        <3>4. \A i \in 1 .. Len(s) : s[i] \in 1 .. N /\ u[s[i]].parent = p /\ s[i] # M
            BY <1>1, <1>2, <1>7 DEF Listing
        <3>5. ASSUME NEW i \in 1 .. Len(r) PROVE r[i] \in 1 .. M /\ u[r[i]].parent = p
            <4>1. CASE i = at
                BY <4>1, <3>3, <1>1, <1>2
            <4>2. CASE i # at
                <5>1. r[i] \in 1 .. N /\ u[r[i]].parent = p
                    BY <4>2, <3>1, <3>4
                <5> QED
                    BY <5>1, <1>1
            <4> QED
                BY <4>1, <4>2
        <3>6. ASSUME NEW i \in 1 .. Len(r), NEW j \in 1 .. Len(r), r[i] = r[j] PROVE i = j
            <4>1. CASE i # at /\ j # at
                BY <4>1, <3>1, <3>2, <3>6, <1>7 DEF Listing
            <4>2. CASE i = at \/ j = at
                BY <4>2, <3>1, <3>3, <3>4, <3>6
            <4> QED
                BY <4>1, <4>2
        <3>7. Listing(u, p, r, M)
            BY <3>5, <3>6 DEF Listing
        <3> QED
            BY <2>3, <3>7, <1>3 DEF r
    <2> QED
        BY <2>1, <2>2, <2>3, <1>1
<1>11. ASSUME NEW c \in 1 .. M, u[c].parent # 0 PROVE Has(u[u[c].parent].kids, c)
    <2>1. CASE c = M
        <3>1. at \in 1 .. Len(r) /\ r[at] = M
            BY <1>1, <1>4, <1>5
        <3> QED
            BY <2>1, <3>1, <1>2, <1>3 DEF Has, r
    <2>2. CASE c \in 1 .. N
        <3> DEFINE q == t[c].parent
        <3>1. u[c].parent = q /\ q # 0 /\ Has(t[q].kids, c)
            BY <2>2, <1>2, <1>11 DEF Plain
        <3>2. q \in 1 .. N
            <4>1. q \in 0 .. c - 1
                BY <2>2, <1>1 DEF NodesOf
            <4> QED
                BY <2>2, <3>1, <4>1, <1>1
        <3>3. CASE q # p
            BY <3>1, <3>2, <3>3, <1>2
        <3>4. CASE q = p
            <4>1. PICK i \in 1 .. Len(s) : s[i] = c
                BY <3>1, <3>4 DEF Has, s
            <4> QED
                BY <3>1, <3>4, <4>1, <1>3, <1>6 DEF r
        <3> QED
            BY <3>3, <3>4
    <2> QED
        BY <2>1, <2>2, <1>1
<1>12. u[Root].kind = "root"
    <2>1. 1 \in 1 .. N /\ t[Root].kind = "root"
        BY <1>1 DEF Plain
    <2>2. Same(u[1], t[1])
        BY <2>1, <1>2
    <2> QED
        BY <2>1, <2>2 DEF Same, Root
<1>13. Plain(u, M)
    BY <1>1, <1>2, <1>9, <1>10, <1>11, <1>12 DEF Plain
<1>14. ASSUME NEW m \in 1 .. N
       PROVE  /\ Kept(u[m], t[m]) /\ u[m].parent = t[m].parent
              /\ OrderKept(u, m, t[m].kids, u[m].kids)
    <2>1. Kept(u[m], t[m]) /\ u[m].parent = t[m].parent
        BY <1>2 DEF Kept, Same
    <2>2. CASE m # p
        BY <2>1, <2>2, <1>2, SameOrder
    <2>3. CASE m = p
        BY <2>1, <2>3, <1>3, <1>8 DEF s, r
    <2> QED
        BY <2>2, <2>3
<1>15. Stays(t, u, N) /\ SameParents(t, u, N)
    BY <1>14 DEF Stays, SameParents
<1> QED
    BY <1>13, <1>15 DEF u, M

(* Writing an attribute *)
LEMMA PutEdited ==
    ASSUME NEW x, IsNode(x), NEW v
    PROVE  LET y == [x EXCEPT !.put = v] IN
           /\ IsNode(y) /\ y.kind = x.kind /\ y.name = x.name /\ y.given = x.given
           /\ y.parent = x.parent /\ y.kids = x.kids
BY DEF IsNode

LEMMA AttrSound ==
    ASSUME NEW t, NEW N, Plain(t, N), DOMAIN t = 1 .. N, NEW n \in 1 .. N, NEW v
    PROVE  LET u == [t EXCEPT ![n].put = v] IN Plain(u, N) /\ Stays(t, u, N)
<1> DEFINE u == [t EXCEPT ![n].put = v]
           y == [t[n] EXCEPT !.put = v]
<1>1. OnNodes(t, N) /\ N \in Nat /\ N >= 1 /\ NodesOf(t, N)
    BY DEF Plain
<1>2. u = [m \in 1 .. N |-> IF m = n THEN y ELSE t[m]]
    BY <1>1
<1>3. /\ IsNode(y) /\ y.kind = t[n].kind /\ y.name = t[n].name /\ y.given = t[n].given
      /\ y.parent = t[n].parent /\ y.kids = t[n].kids
    BY <1>1, PutEdited DEF NodesOf
<1> HIDE DEF u, y
<1>4. \A m \in 1 .. N :
        /\ IsNode(u[m]) /\ u[m].kind = t[m].kind /\ u[m].name = t[m].name
        /\ u[m].given = t[m].given /\ u[m].parent = t[m].parent /\ u[m].kids = t[m].kids
    BY <1>1, <1>2, <1>3 DEF NodesOf
<1>5. OnNodes(u, N)
    BY <1>2 DEF OnNodes
<1>6. NodesOf(u, N)
    BY <1>1, <1>4 DEF NodesOf
<1>7. ASSUME NEW m \in 1 .. N PROVE Listing(u, m, u[m].kids, N)
    <2> DEFINE k == t[m].kids
    <2>1. Listing(t, m, k, N) /\ u[m].kids = k
        BY <1>4 DEF Plain
    <2> HIDE DEF k
    <2>2. Listing(u, m, k, N)
        BY <2>1, <1>4 DEF Listing
    <2> QED
        BY <2>1, <2>2
<1>8. ASSUME NEW c \in 1 .. N, u[c].parent # 0 PROVE Has(u[u[c].parent].kids, c)
    <2>1. u[c].parent = t[c].parent /\ t[c].parent \in 0 .. c - 1 /\ Has(t[t[c].parent].kids, c)
        BY <1>1, <1>4, <1>8 DEF Plain, NodesOf
    <2>2. t[c].parent \in 1 .. N
        BY <2>1, <1>1, <1>8
    <2> QED
        BY <2>1, <2>2, <1>4
<1>9. u[Root].kind = "root"
    BY <1>1, <1>4 DEF Plain, Root
<1>10. Plain(u, N)
    BY <1>1, <1>5, <1>6, <1>7, <1>8, <1>9 DEF Plain
<1>11. ASSUME NEW m \in 1 .. N
       PROVE  Kept(u[m], t[m]) /\ OrderKept(u, m, t[m].kids, u[m].kids)
    BY <1>4, SameOrder DEF Kept
<1> QED
    BY <1>10, <1>11 DEF u, Stays

-----------------------------------------------------------------------------
(* Copying a fragment.                                                     *)

(* Induction up to a number, without a predicate.                          *)
LEMMA LeastOne ==
    ASSUME NEW K, K \subseteq Nat, K # {}
    PROVE  \E x \in K : \A y \in K : x <= y
<1> DEFINE R == OpToRel(<, Nat)
<1>1. \A x, y \in Nat : x < y => <<x, y>> \in R
    BY DEF OpToRel
<1>2. IsWellFoundedOn(R, Nat)
    BY NatLessThanWellFounded DEF OpToRel
<1> HIDE DEF R
<1>3. PICK x \in K : \A y \in K : ~(<<y, x>> \in R)
    BY <1>2, WFMin
<1>4. \A y \in K : ~(y < x)
    BY <1>1, <1>3
<1> QED
    BY <1>4

LEMMA Climb ==
    ASSUME NEW L \in Nat, NEW G, 1 \in G, \A m \in 1 .. L : m \in G /\ m < L => m + 1 \in G
    PROVE  \A m \in 1 .. L : m \in G
<1> DEFINE K == {m \in 1 .. L : m \notin G}
<1> SUFFICES K = {}
    OBVIOUS
<1> SUFFICES ASSUME K # {} PROVE FALSE
    OBVIOUS
<1>1. K \subseteq Nat
    OBVIOUS
<1> HIDE DEF K
<1>2. PICK x \in K : \A y \in K : x <= y
    BY <1>1, LeastOne
<1>3. x \in 1 .. L /\ x \notin G /\ x # 1
    BY <1>2 DEF K
<1>4. x - 1 \in 1 .. L /\ x - 1 < L /\ ~(x <= x - 1) /\ (x - 1) + 1 = x
    BY <1>3
<1>5. x - 1 \in G
    BY <1>2, <1>4 DEF K
<1> QED
    BY <1>3, <1>4, <1>5

(* Induction down from a number.                                           *)
LEMMA Downward ==
    ASSUME NEW N \in Nat, NEW G, \A m \in 1 .. N : (\A c \in m + 1 .. N : c \in G) => m \in G
    PROVE  \A m \in 1 .. N : m \in G
<1> DEFINE H == {k \in 1 .. N : \A c \in N + 1 - k .. N : c \in G}
<1> SUFFICES ASSUME N # 0 PROVE \A m \in 1 .. N : m \in G
    OBVIOUS
<1>1. 1 \in H
    <2>1. N \in 1 .. N /\ N + 1 .. N = {} /\ \A c \in N + 1 - 1 .. N : c = N
        OBVIOUS
    <2>2. N \in G
        BY <2>1
    <2> QED
        BY <2>1, <2>2
<1>2. ASSUME NEW k \in 1 .. N, k \in H, k < N PROVE k + 1 \in H
    <2> DEFINE m == N - k
    <2>1. /\ m \in 1 .. N /\ m + 1 = N + 1 - k /\ k + 1 \in 1 .. N /\ N + 1 - (k + 1) = m
          /\ \A c \in m .. N : c = m \/ c \in m + 1 .. N
        BY <1>2
    <2>2. \A c \in m + 1 .. N : c \in G
        BY <1>2, <2>1
    <2> HIDE DEF m
    <2>3. m \in G
        BY <2>1, <2>2
    <2> QED
        BY <2>1, <2>2, <2>3
<1>3. \A k \in 1 .. N : k \in H
    <2> HIDE DEF H
    <2> QED
        BY <1>1, <1>2, Climb
<1>4. N \in 1 .. N /\ N + 1 - N = 1
    OBVIOUS
<1> QED
    BY <1>3, <1>4

(* The tree in which m of the nodes of f have been looked at.              *)
Copied(a, n, f, b, base, m) ==
    IF f[m].parent = Root THEN Put(a, n, f[m], b)
    ELSE Put(a, base + f[m].parent, f[m], 0)
Copies(g, t, n, f, b, base, L) ==
    g = [m \in 1 .. L |-> IF m = 1 THEN t ELSE Copied(g[m - 1], n, f, b, base, m)]

LEMMA CopiesExist ==
    ASSUME NEW t, NEW n, NEW f, NEW b, NEW base, NEW L \in Nat
    PROVE  \E g : Copies(g, t, n, f, b, base, L)
<1> DEFINE Step(a, m) == Copied(a, n, f, b, base, m)
           C(g, k) == g = [m \in 1 .. k |-> IF m = 1 THEN t ELSE Step(g[m - 1], m)]
           G == {k \in 1 .. L + 1 : \E g : C(g, k)}
<1> HIDE DEF Step
<1>1. 1 \in G
    <2> DEFINE g == [m \in 1 .. 1 |-> t]
    <2>1. C(g, 1)
        OBVIOUS
    <2> HIDE DEF g
    <2>2. \E h : C(h, 1)
        BY <2>1
    <2> QED
        BY <2>2
<1>2. ASSUME NEW k \in 1 .. L, k \in G PROVE k + 1 \in G
    <2>1. PICK g : C(g, k)
        BY <1>2
    <2> DEFINE h == [m \in 1 .. k + 1 |-> IF m = k + 1 THEN Step(g[k], k + 1) ELSE g[m]]
    <2>2. \A m \in 1 .. k : h[m] = g[m]
        OBVIOUS
    <2>3. h[k + 1] = Step(g[k], k + 1)
        OBVIOUS
    <2>4. ASSUME NEW m \in 1 .. k + 1
          PROVE  h[m] = IF m = 1 THEN t ELSE Step(h[m - 1], m)
        <3>1. CASE m = 1
            BY <3>1, <2>1, <2>2
        <3>2. CASE m # 1 /\ m # k + 1
            <4>1. m \in 1 .. k /\ m - 1 \in 1 .. k
                BY <3>2
            <4>2. g[m] = Step(g[m - 1], m)
                BY <4>1, <2>1, <3>2
            <4> QED
                BY <3>2, <4>1, <4>2, <2>2
        <3>3. CASE m # 1 /\ m = k + 1
            <4>1. k \in 1 .. k /\ m - 1 = k
                BY <3>3
            <4> QED
                BY <3>3, <4>1, <2>2, <2>3
        <3> QED
            BY <3>1, <3>2, <3>3
    <2>5. h = [m \in 1 .. k + 1 |-> h[m]]
        OBVIOUS
    <2> HIDE DEF h
    <2>6. C(h, k + 1)
        BY <2>4, <2>5
    <2> QED
        BY <2>6
<1>3. CASE L = 0
    <2> DEFINE g == [m \in 1 .. 0 |-> t]
    <2>1. C(g, 0)
        OBVIOUS
    <2> QED
        BY <2>1, <1>3 DEF Copies, Step
<1>4. CASE L # 0
    <2>1. \A m \in 1 .. L : m \in G
        <3> HIDE DEF G
        <3> QED
            BY <1>1, <1>2, Climb
    <2>2. \E g : C(g, L)
        BY <2>1, <1>4
    <2> QED
        BY <2>2 DEF Copies, Step
<1> QED
    BY <1>3, <1>4

LEMMA StaysTwice ==
    ASSUME NEW t, NEW N, Plain(t, N), NEW u, NEW M \in Nat, NEW v, N <= M,
           Stays(t, u, N), Stays(u, v, M)
    PROVE  Stays(t, v, N)
<1> SUFFICES ASSUME NEW n \in 1 .. N
             PROVE  Kept(v[n], t[n]) /\ OrderKept(v, n, t[n].kids, v[n].kids)
    BY DEF Stays
<1> DEFINE s == t[n].kids
           k == u[n].kids
           r == v[n].kids
<1>1. N \in Nat /\ n \in 1 .. M /\ n # 0 /\ \A m \in 1 .. N : m \in 1 .. M
    BY DEF Plain
<1>2. Kept(u[n], t[n]) /\ OrderKept(u, n, s, k)
    BY DEF Stays
<1>3. Kept(v[n], u[n]) /\ OrderKept(v, n, k, r)
    BY <1>1 DEF Stays
<1>4. Listing(t, n, s, N)
    BY DEF Plain
<1> HIDE DEF s, k, r
<1>5. ASSUME NEW i \in 1 .. Len(s), NEW j \in 1 .. Len(s), i < j,
             v[s[i]].parent = n, v[s[j]].parent = n
      PROVE  \E a, c \in 1 .. Len(r) : a < c /\ r[a] = s[i] /\ r[c] = s[j]
    <2>1. s[i] \in 1 .. M /\ s[j] \in 1 .. M
        BY <1>1, <1>4 DEF Listing
    <2>2. u[s[i]].parent = n /\ u[s[j]].parent = n
        BY <1>1, <1>5, <2>1 DEF Stays, Kept
    <2>3. PICK a \in 1 .. Len(k), c \in 1 .. Len(k) : a < c /\ k[a] = s[i] /\ k[c] = s[j]
        BY <1>2, <1>5, <2>2 DEF OrderKept
    <2>4. v[k[a]].parent = n /\ v[k[c]].parent = n
        BY <1>5, <2>3
    <2>5. PICK d \in 1 .. Len(r), e \in 1 .. Len(r) : d < e /\ r[d] = k[a] /\ r[e] = k[c]
        BY <1>3, <2>3, <2>4 DEF OrderKept
    <2> QED
        BY <2>3, <2>5
<1>6. OrderKept(v, n, s, r)
    BY <1>5 DEF OrderKept
<1>7. Kept(v[n], t[n])
    BY <1>2, <1>3 DEF Kept
<1> QED
    BY <1>6, <1>7 DEF s, r

LEMMA StaysPlain == ASSUME NEW t, NEW N PROVE Stays(t, t, N)
BY SameOrder DEF Stays, Kept

(* After each node of the fragment: one node more, and nothing moved. The  *)
(* copy of m is node N - 1 + m, so the copy of its parent is there.        *)
LEMMA CopiesSound ==
    ASSUME NEW t, NEW N, Plain(t, N), NEW n \in 1 .. N, NEW b, Before(t, n, b),
           NEW f, NEW L, Plain(f, L), \A m \in 1 .. L : m # 1 => f[m].parent # 0,
           NEW g, Copies(g, t, n, f, b, N - 1, L)
    PROVE  \A m \in 1 .. L : /\ Plain(g[m], N + m - 1)
                             /\ Stays(t, g[m], N) /\ SameParents(t, g[m], N)
<1> DEFINE G == {m \in 1 .. L : /\ Plain(g[m], N + m - 1)
                                /\ Stays(t, g[m], N) /\ SameParents(t, g[m], N)}
<1>1. /\ N \in Nat /\ N >= 1 /\ L \in Nat /\ L >= 1 /\ NodesOf(f, L)
      /\ DOMAIN t = 1 .. N
    BY PlainIsSound DEF Plain
<1>2. 1 \in G
    <2>1. g[1] = t /\ 1 \in 1 .. L
        BY <1>1 DEF Copies
    <2>2. N + 1 - 1 = N
        BY <1>1
    <2> QED
        BY <2>1, <2>2, StaysPlain DEF SameParents
<1>3. ASSUME NEW m \in 1 .. L, m \in G, m < L PROVE m + 1 \in G
    <2> DEFINE a == g[m]
               A == N + m - 1
               k == m + 1
    <2>1. Plain(a, A) /\ Stays(t, a, N) /\ SameParents(t, a, N)
        BY <1>3
    <2>2. /\ k \in 1 .. L /\ k # 1 /\ k - 1 = m /\ A \in Nat /\ N <= A /\ N + k - 1 = A + 1
          /\ \A c \in 1 .. N : c \in 1 .. A
        BY <1>1, <1>3
    <2> HIDE DEF k
    <2>3. g[k] = Copied(a, n, f, b, N - 1, k)
        <3>1. g[k] = Copied(g[k - 1], n, f, b, N - 1, k)
            BY <2>2 DEF Copies
        <3> QED
            BY <3>1, <2>2
    <2> HIDE DEF a, A
    <2>4. DOMAIN a = 1 .. A /\ Len(a) = A
        BY <2>1, PlainIsSound
    <2> DEFINE x == f[k]
    <2>5. /\ IsNode(x) /\ x.kind \in Kinds /\ x.parent \in 0 .. k - 1 /\ x.parent # 0
        BY <1>1, <2>2 DEF NodesOf
    <2> HIDE DEF x
    <2>6. CASE x.parent = Root
        <3>1. g[k] = Put(a, n, x, b)
            BY <2>3, <2>6 DEF Copied, x
        <3>2. Before(a, n, b)
            BY <1>1, <2>1, <2>2, <2>4 DEF Before, SameParents
        <3>3. n \in 1 .. A
            BY <2>2
        <3>4. /\ Plain(g[k], A + 1) /\ Stays(a, g[k], A) /\ SameParents(a, g[k], A)
            BY <2>1, <2>4, <2>5, <3>1, <3>2, <3>3, PutSound
        <3> QED
            BY <2>1, <2>2, <3>4, <1>1, StaysTwice DEF SameParents, k
    <2>7. CASE x.parent # Root
        <3> DEFINE p == N - 1 + x.parent
        <3>1. g[k] = Put(a, p, x, 0)
            BY <2>3, <2>7 DEF Copied, x
        <3>2. Before(a, p, 0)
            BY DEF Before
        <3>3. p \in 1 .. A
            <4>1. x.parent \in 0 .. m /\ x.parent # 0 /\ x.parent # 1
                BY <2>5, <2>7, <2>2 DEF Root
            <4>2. A = N + m - 1 /\ N \in Nat /\ N >= 1 /\ m \in Nat
                BY <1>1, <1>3 DEF A
            <4> HIDE DEF A
            <4> QED
                BY <4>1, <4>2
        <3> HIDE DEF p
        <3>4. /\ Plain(g[k], A + 1) /\ Stays(a, g[k], A) /\ SameParents(a, g[k], A)
            BY <2>1, <2>4, <2>5, <3>1, <3>2, <3>3, PutSound
        <3> QED
            BY <2>1, <2>2, <3>4, <1>1, StaysTwice DEF SameParents, k
    <2> QED
        BY <2>6, <2>7
<1>4. \A m \in 1 .. L : m \in G
    <2> HIDE DEF G
    <2> QED
        BY <1>1, <1>2, <1>3, Climb
<1> QED
    BY <1>4

(* Graft is the last of them.                                              *)
LEMMA GraftCopies ==
    ASSUME NEW t, NEW n, NEW b, NEW f, Len(f) \in Nat
    PROVE  \E g : /\ Copies(g, t, n, f, b, Len(t) - 1, Len(f))
                  /\ Graft(t, n, f, b) = g[Len(f)]
<1> DEFINE L == Len(f)
           base == Len(t) - 1
           After == CHOOSE g : g = [m \in 1 .. L |->
                        IF m = 1 THEN t
                        ELSE IF f[m].parent = Root THEN Put(g[m - 1], n, f[m], b)
                        ELSE Put(g[m - 1], base + f[m].parent, f[m], 0)]
<1>1. L \in Nat
    OBVIOUS
<1>2. Graft(t, n, f, b) = After[L]
    BY DEF Graft
<1> HIDE DEF L, base
<1>3. PICK g : Copies(g, t, n, f, b, base, L)
    BY <1>1, CopiesExist
<1>4. Copies(After, t, n, f, b, base, L)
    <2>1. g = [m \in 1 .. L |->
                IF m = 1 THEN t
                ELSE IF f[m].parent = Root THEN Put(g[m - 1], n, f[m], b)
                ELSE Put(g[m - 1], base + f[m].parent, f[m], 0)]
        BY <1>3 DEF Copies, Copied
    <2>2. After = [m \in 1 .. L |->
                IF m = 1 THEN t
                ELSE IF f[m].parent = Root THEN Put(After[m - 1], n, f[m], b)
                ELSE Put(After[m - 1], base + f[m].parent, f[m], 0)]
        BY <2>1
    <2> HIDE DEF After
    <2> QED
        BY <2>2 DEF Copies, Copied
<1> HIDE DEF After
<1>5. \E h : Copies(h, t, n, f, b, base, L) /\ Graft(t, n, f, b) = h[L]
    BY <1>2, <1>4
<1> QED
    BY <1>5 DEF L, base

LEMMA GraftSound ==
    ASSUME NEW t, NEW N, Plain(t, N), NEW n \in 1 .. N, NEW b, Before(t, n, b),
           NEW f, SoundTree(f), Ordered(f)
    PROVE  /\ Plain(Graft(t, n, f, b), N + Len(f) - 1) /\ Len(f) >= 1 /\ Len(f) \in Nat
           /\ Stays(t, Graft(t, n, f, b), N)
<1> DEFINE L == Len(f)
<1>1. Plain(f, L) /\ DOMAIN f = 1 .. L
    BY SoundIsPlain
<1>2. L \in Nat /\ L >= 1 /\ L \in 1 .. L
    BY <1>1 DEF Plain
<1>3. Len(t) = N
    BY PlainIsSound
<1>4. \A m \in 1 .. L : m # 1 => f[m].parent # 0
    BY <1>1 DEF Ordered, Root
<1>5. PICK g : Copies(g, t, n, f, b, N - 1, L) /\ Graft(t, n, f, b) = g[L]
    BY <1>2, <1>3, GraftCopies
<1> HIDE DEF L
<1>6. Plain(g[L], N + L - 1) /\ Stays(t, g[L], N)
    BY <1>1, <1>2, <1>4, <1>5, CopiesSound
<1> QED
    BY <1>2, <1>5, <1>6 DEF L

-----------------------------------------------------------------------------
(* Lists of nodes are lists of nodes of their tree.                        *)

FlatOn(g, parts, L) == g = [i \in 1 .. L |-> IF i = 1 THEN parts[i] ELSE g[i - 1] \o parts[i]]

LEMMA FlatExists ==
    ASSUME NEW parts, NEW L \in Nat, L >= 1
    PROVE  \E g : FlatOn(g, parts, L)
<1> DEFINE G == {k \in 1 .. L : \E g : FlatOn(g, parts, k)}
<1>1. 1 \in G
    <2> DEFINE g == [i \in 1 .. 1 |-> parts[1]]
    <2>1. FlatOn(g, parts, 1)
        BY DEF FlatOn
    <2> HIDE DEF g
    <2> QED
        BY <2>1
<1>2. ASSUME NEW k \in 1 .. L, k \in G, k < L PROVE k + 1 \in G
    <2>1. PICK g : FlatOn(g, parts, k)
        BY <1>2
    <2> DEFINE last == g[k] \o parts[k + 1]
               h == [i \in 1 .. k + 1 |-> IF i = k + 1 THEN last ELSE g[i]]
    <2> HIDE DEF last
    <2>2. \A i \in 1 .. k : h[i] = g[i]
        OBVIOUS
    <2>3. h[k + 1] = last /\ h = [i \in 1 .. k + 1 |-> h[i]]
        OBVIOUS
    <2> HIDE DEF h
    <2>4. ASSUME NEW i \in 1 .. k + 1
          PROVE  h[i] = IF i = 1 THEN parts[i] ELSE h[i - 1] \o parts[i]
        <3>1. CASE i = k + 1
            <4>1. i # 1 /\ i - 1 = k /\ k \in 1 .. k
                BY <3>1
            <4> QED
                BY <3>1, <4>1, <2>2, <2>3 DEF last
        <3>2. CASE i # k + 1
            <4>1. i \in 1 .. k /\ (i # 1 => i - 1 \in 1 .. k)
                BY <3>2
            <4>2. g[i] = IF i = 1 THEN parts[i] ELSE g[i - 1] \o parts[i]
                BY <4>1, <2>1 DEF FlatOn
            <4> QED
                BY <4>1, <4>2, <2>2
        <3> QED
            BY <3>1, <3>2
    <2>5. FlatOn(h, parts, k + 1)
        BY <2>3, <2>4 DEF FlatOn
    <2>6. k + 1 \in 1 .. L
        BY <1>2
    <2> QED
        BY <2>5, <2>6
<1>3. \A k \in 1 .. L : k \in G
    <2> HIDE DEF G
    <2> QED
        BY <1>1, <1>2, Climb
<1> QED
    BY <1>3

LEMMA Flattened ==
    ASSUME NEW S, NEW parts \in Seq(Seq(S))
    PROVE  Seqs!FlattenSeq(parts) \in Seq(S)
<1> DEFINE L == Len(parts)
           flat == CHOOSE g : g = [i \in 1 .. L |->
                                    IF i = 1 THEN parts[i] ELSE g[i - 1] \o parts[i]]
<1>1. L \in Nat /\ \A i \in 1 .. L : parts[i] \in Seq(S)
    BY ElementOfSeq
<1>2. CASE L = 0
    <2>1. parts = <<>>
        BY <1>2, EmptySeq
    <2>2. Seqs!FlattenSeq(parts) = parts
        BY <1>2 DEF Seqs!FlattenSeq
    <2>3. <<>> \in Seq(S)
        OBVIOUS
    <2> HIDE DEF L, flat
    <2> QED
        BY <2>1, <2>2, <2>3
<1>3. CASE L # 0
    <2>1. Seqs!FlattenSeq(parts) = flat[L]
        BY <1>3 DEF Seqs!FlattenSeq
    <2> HIDE DEF L
    <2>2. L >= 1 /\ L \in 1 .. L
        BY <1>1, <1>3
    <2>3. FlatOn(flat, parts, L)
        <3>1. PICK g : FlatOn(g, parts, L)
            BY <1>1, <2>2, FlatExists
        <3>2. g = [i \in 1 .. L |-> IF i = 1 THEN parts[i] ELSE g[i - 1] \o parts[i]]
            BY <3>1 DEF FlatOn
        <3>3. flat = [i \in 1 .. L |-> IF i = 1 THEN parts[i] ELSE flat[i - 1] \o parts[i]]
            BY <3>2
        <3> HIDE DEF flat
        <3> QED
            BY <3>3 DEF FlatOn
    <2> HIDE DEF flat
    <2> DEFINE G == {i \in 1 .. L : flat[i] \in Seq(S)}
    <2>4. 1 \in G
        BY <1>1, <2>2, <2>3 DEF FlatOn
    <2>5. ASSUME NEW i \in 1 .. L, i \in G, i < L PROVE i + 1 \in G
        <3>1. i + 1 \in 1 .. L /\ i + 1 # 1 /\ (i + 1) - 1 = i
            BY <1>1, <2>5
        <3>2. flat[i + 1] = flat[i] \o parts[i + 1]
            BY <3>1, <2>3 DEF FlatOn
        <3>3. flat[i] \in Seq(S) /\ parts[i + 1] \in Seq(S)
            BY <3>1, <2>5, <1>1
        <3>4. flat[i + 1] \in Seq(S)
            BY <3>2, <3>3, ConcatProperties
        <3> QED
            BY <3>1, <3>4
    <2>6. \A i \in 1 .. L : i \in G
        <3> HIDE DEF G
        <3> QED
            BY <1>1, <2>4, <2>5, Climb
    <2> QED
        BY <2>1, <2>2, <2>6
<1> QED
    BY <1>2, <1>3

(* What each element of a list gives, one after the other.                 *)
LEMMA FlattenedEach ==
    ASSUME NEW S, NEW R, NEW s \in Seq(R), NEW parts,
           parts = [i \in DOMAIN s |-> parts[i]], \A i \in DOMAIN s : parts[i] \in Seq(S)
    PROVE  Seqs!FlattenSeq(parts) \in Seq(S)
<1>1. DOMAIN s = 1 .. Len(s) /\ Len(s) \in Nat
    OBVIOUS
<1> DEFINE P == Seq(S)
<1> HIDE DEF P
<1>2. \A i \in 1 .. Len(s) : parts[i] \in P
    BY <1>1 DEF P
<1>3. parts \in Seq(P)
    BY <1>1, <1>2
<1> QED
    BY <1>3, Flattened DEF P

LEMMA AmongThem ==
    ASSUME NEW R, NEW s \in Seq(R), NEW S
    PROVE  Among(s, S) \in Seq(R)
<1> DEFINE parts == [i \in DOMAIN s |-> IF s[i] \in S THEN <<s[i]>> ELSE <<>>]
<1>1. \A i \in DOMAIN s : s[i] \in R
    OBVIOUS
<1>2. \A i \in DOMAIN s : parts[i] \in Seq(R)
    BY <1>1
<1>3. parts = [i \in DOMAIN s |-> parts[i]]
    OBVIOUS
<1>4. Among(s, S) = Seqs!FlattenSeq(parts)
    BY DEF Among
<1> HIDE DEF parts
<1> QED
    BY <1>2, <1>3, <1>4, FlattenedEach

(* Children are numbered after their parent.                               *)
LEMMA KidsAbove ==
    ASSUME NEW t, NEW N, Plain(t, N), NEW m \in 1 .. N
    PROVE  /\ t[m].kids \in Seq(1 .. N)
           /\ \A i \in DOMAIN t[m].kids : t[m].kids[i] \in m + 1 .. N
<1> DEFINE k == t[m].kids
<1>1. NodesOf(t, N) /\ N \in Nat /\ Listing(t, m, k, N)
    BY DEF Plain
<1>2. k \in Seq(1 .. N)
    BY <1>1 DEF NodesOf
<1>3. DOMAIN k = 1 .. Len(k)
    BY <1>2
<1> HIDE DEF k
<1>4. ASSUME NEW i \in DOMAIN k PROVE k[i] \in m + 1 .. N
    <2> DEFINE c == k[i]
    <2>1. c \in 1 .. N /\ t[c].parent = m
        BY <1>1, <1>3 DEF Listing
    <2> HIDE DEF c
    <2>2. t[c].parent \in 0 .. c - 1
        BY <1>1, <2>1 DEF NodesOf
    <2>3. c \in m + 1 .. N
        BY <1>1, <2>1, <2>2
    <2> QED
        BY <2>3 DEF c
<1> QED
    BY <1>2, <1>4 DEF k

(* What two recursions give for the nodes from lo on: their subtrees, and  *)
(* their shapes.                                                           *)
Branches(g, t, m) == [i \in DOMAIN t[m].kids |-> g[t[m].kids[i]]]
Sprout(what, t, m, parts) ==
    IF what = "subtree" THEN <<m>> \o Seqs!FlattenSeq(parts)
    ELSE <<t[m].kind, t[m].name, t[m].given, t[m].put, parts>>
TreesFrom(what, g, t, lo, N) == g = [m \in lo .. N |-> Sprout(what, t, m, Branches(g, t, m))]

LEMMA SameBranches ==
    ASSUME NEW t, NEW m, NEW g, NEW h, \A i \in DOMAIN t[m].kids : g[t[m].kids[i]] = h[t[m].kids[i]]
    PROVE  Branches(g, t, m) = Branches(h, t, m)
BY DEF Branches

LEMMA TreesExist ==
    ASSUME NEW what, NEW t, NEW N, Plain(t, N)
    PROVE  \E g : TreesFrom(what, g, t, 1, N)
<1> DEFINE G == {k \in 1 .. N + 1 : \E g : TreesFrom(what, g, t, N + 2 - k, N)}
<1>1. N \in Nat /\ N >= 1 /\ N + 1 \in Nat
    BY DEF Plain
<1>2. 1 \in G
    <2> DEFINE g == [m \in N + 1 .. N |-> 0]
    <2>1. N + 1 .. N = {} /\ N + 2 - 1 = N + 1 /\ 1 \in 1 .. N + 1
        BY <1>1
    <2>2. TreesFrom(what, g, t, N + 1, N)
        BY <2>1 DEF TreesFrom
    <2> HIDE DEF g
    <2> QED
        BY <2>1, <2>2
<1>3. ASSUME NEW k \in 1 .. N + 1, k \in G, k < N + 1 PROVE k + 1 \in G
    <2> DEFINE lo == N + 2 - k
               m0 == lo - 1
    <2>1. /\ lo \in Nat /\ m0 \in 1 .. N /\ m0 + 1 = lo /\ m0 \notin lo .. N /\ m0 \in m0 .. N
          /\ N + 2 - (k + 1) = m0 /\ k + 1 \in 1 .. N + 1
          /\ \A m \in m0 .. N : m \in 1 .. N /\ (m = m0 \/ m \in lo .. N)
          /\ \A m \in lo .. N : m \in m0 .. N /\ m # m0
        BY <1>1, <1>3
    <2>2. PICK g : TreesFrom(what, g, t, lo, N)
        BY <1>3
    <2> HIDE DEF lo, m0
    <2> DEFINE new == Sprout(what, t, m0, Branches(g, t, m0))
               h == [m \in m0 .. N |-> IF m = m0 THEN new ELSE g[m]]
    <2> HIDE DEF new
    <2>3. h[m0] = new /\ \A m \in lo .. N : h[m] = g[m]
        BY <2>1
    <2>4. h = [m \in m0 .. N |-> h[m]]
        OBVIOUS
    <2> HIDE DEF h
    <2>5. ASSUME NEW m \in m0 .. N PROVE h[m] = Sprout(what, t, m, Branches(h, t, m))
        <3>1. \A i \in DOMAIN t[m].kids : t[m].kids[i] \in m + 1 .. N
            BY <2>1, KidsAbove
        <3>2. \A c \in m + 1 .. N : c \in lo .. N
            BY <2>1, <1>1
        <3>3. Branches(h, t, m) = Branches(g, t, m)
            BY <3>1, <3>2, <2>3, SameBranches
        <3>4. CASE m = m0
            BY <3>3, <3>4, <2>3 DEF new
        <3>5. CASE m \in lo .. N
            BY <3>3, <3>5, <2>2, <2>3 DEF TreesFrom
        <3> QED
            BY <2>1, <3>4, <3>5
    <2>6. TreesFrom(what, h, t, m0, N)
        BY <2>4, <2>5 DEF TreesFrom
    <2> QED
        BY <2>1, <2>6
<1>4. \A k \in 1 .. N + 1 : k \in G
    <2> HIDE DEF G
    <2> QED
        BY <1>1, <1>2, <1>3, Climb
<1>5. N + 1 \in 1 .. N + 1 /\ N + 2 - (N + 1) = 1
    BY <1>1
<1> QED
    BY <1>4, <1>5

LEMMA TreesWithin ==
    ASSUME NEW t, NEW N, Plain(t, N), NEW g, TreesFrom("subtree", g, t, 1, N)
    PROVE  \A m \in 1 .. N : g[m] \in Seq(1 .. N) /\ g[m] # <<>>
<1> DEFINE S == 1 .. N
           Good(m) == g[m] \in Seq(S) /\ g[m] # <<>>
<1>1. N \in Nat /\ N >= 1
    BY DEF Plain
<1>2. ASSUME NEW m \in 1 .. N, \A c \in m + 1 .. N : Good(c) PROVE Good(m)
    <2>1. g[m] = Sprout("subtree", t, m, Branches(g, t, m))
        BY DEF TreesFrom
    <2>2. /\ t[m].kids \in Seq(1 .. N)
          /\ \A i \in DOMAIN t[m].kids : t[m].kids[i] \in m + 1 .. N
        BY KidsAbove
    <2> DEFINE b == Branches(g, t, m)
               flat == Seqs!FlattenSeq(b)
    <2>3. /\ b = [i \in DOMAIN t[m].kids |-> b[i]]
          /\ \A i \in DOMAIN t[m].kids : b[i] \in Seq(S)
        BY <1>2, <2>2 DEF Branches
    <2>4. m \in S
        OBVIOUS
    <2> HIDE DEF b, S
    <2>5. flat \in Seq(S)
        BY <2>2, <2>3, FlattenedEach
    <2> HIDE DEF flat
    <2>6. <<m>> \o flat \in Seq(S) /\ Len(<<m>> \o flat) = 1 + Len(flat) /\ Len(flat) \in Nat
        BY <2>4, <2>5, ConcatProperties
    <2>7. <<m>> \o flat # <<>>
        BY <2>6
    <2>8. g[m] = <<m>> \o flat
        BY <2>1 DEF Sprout, b, flat
    <2> QED
        BY <2>6, <2>7, <2>8
<1> HIDE DEF S, Good
<1> DEFINE G == {m \in 1 .. N : Good(m)}
<1>3. \A m \in 1 .. N : (\A c \in m + 1 .. N : c \in G) => m \in G
    BY <1>2
<1> HIDE DEF G
<1>4. \A m \in 1 .. N : m \in G
    BY <1>1, <1>3, Downward
<1> QED
    BY <1>4 DEF G, Good, S

LEMMA SubtreeWithin ==
    ASSUME NEW t, SoundTree(t), NEW n \in DOMAIN t
    PROVE  Descendants(t, n) \in Seq(DOMAIN t)
<1> DEFINE N == Len(t)
           From == CHOOSE g : g = [m \in DOMAIN t |-> <<m>> \o Seqs!FlattenSeq(
                                      [i \in DOMAIN t[m].kids |-> g[t[m].kids[i]]])]
<1>1. Plain(t, N) /\ DOMAIN t = 1 .. N
    BY SoundIsPlain
<1>2. Subtree(t, n) = From[n]
    BY DEF Subtree
<1> HIDE DEF N
<1>3. TreesFrom("subtree", From, t, 1, N)
    <2>1. PICK g : TreesFrom("subtree", g, t, 1, N)
        BY <1>1, TreesExist
    <2>2. g = [m \in DOMAIN t |-> <<m>> \o Seqs!FlattenSeq(
                                      [i \in DOMAIN t[m].kids |-> g[t[m].kids[i]]])]
        BY <2>1, <1>1 DEF TreesFrom, Sprout, Branches
    <2>3. From = [m \in DOMAIN t |-> <<m>> \o Seqs!FlattenSeq(
                                      [i \in DOMAIN t[m].kids |-> From[t[m].kids[i]]])]
        BY <2>2
    <2> HIDE DEF From
    <2> QED
        BY <2>3, <1>1 DEF TreesFrom, Sprout, Branches
<1> HIDE DEF From
<1>4. From[n] \in Seq(DOMAIN t) /\ From[n] # <<>>
    BY <1>1, <1>3, TreesWithin
<1> DEFINE s == From[n]
<1>5. Descendants(t, n) = Tail(s)
    BY <1>2 DEF Descendants
<1> HIDE DEF s
<1>6. s \in Seq(DOMAIN t) /\ s # <<>>
    BY <1>4 DEF s
<1>7. Tail(s) \in Seq(DOMAIN t)
    BY <1>6, HeadTailProperties
<1> QED
    BY <1>5, <1>7

(* The other lists the imports make.                                       *)
LEMMA SidesWithin ==
    ASSUME NEW t, SoundTree(t), NEW n \in DOMAIN t
    PROVE  Following(t, n) \in Seq(DOMAIN t) /\ Preceding(t, n) \in Seq(DOMAIN t)
<1> DEFINE S == DOMAIN t
           s == t[t[n].parent].kids
           i == Position(t, n)
<1>1. CASE t[n].parent = 0
    BY <1>1 DEF Following, Preceding
<1>2. CASE t[n].parent # 0
    <2>1. s \in Seq(S) /\ i \in 1 .. Len(s)
        BY <1>2, SoundFacts, Positioned
    <2>2. /\ Following(t, n) = SubSeq(s, i + 1, Len(s))
          /\ Preceding(t, n) = Seqs!Reverse(SubSeq(s, 1, i - 1))
        BY <1>2 DEF Following, Preceding
    <2> HIDE DEF S, s, i
    <2>3. Len(s) \in Nat /\ \A j \in 1 .. Len(s) : s[j] \in S
        BY <2>1, ElementOfSeq
    <2>4. SubSeq(s, i + 1, Len(s)) \in Seq(S) /\ SubSeq(s, 1, i - 1) \in Seq(S)
        <3>1. \A j \in i + 1 .. Len(s) : s[j] \in S
            BY <2>1, <2>3
        <3>2. \A j \in 1 .. i - 1 : s[j] \in S
            BY <2>1, <2>3
        <3> QED
            BY <2>1, <2>3, <3>1, <3>2, SubSeqProperties
    <2> DEFINE r == SubSeq(s, 1, i - 1)
    <2>5. Seqs!Reverse(r) \in Seq(S)
        <3>1. r \in Seq(S)
            BY <2>4
        <3> HIDE DEF r
        <3>2. Len(r) \in Nat /\ \A j \in 1 .. Len(r) : r[j] \in S
            BY <3>1, ElementOfSeq
        <3>3. \A j \in 1 .. Len(r) : Len(r) - j + 1 \in 1 .. Len(r)
            BY <3>2
        <3> DEFINE q == [j \in 1 .. Len(r) |-> r[(Len(r) - j) + 1]]
        <3>4. \A j \in 1 .. Len(r) : q[j] \in S
            BY <3>2, <3>3
        <3>5. q \in Seq(S)
            BY <3>2, <3>4
        <3> QED
            BY <3>5 DEF Seqs!Reverse
    <2> QED
        BY <2>2, <2>4, <2>5 DEF S
<1> QED
    BY <1>1, <1>2

LEMMA ElementsWithin ==
    ASSUME NEW t, NEW R, NEW s \in Seq(R)
    PROVE  Elements(t, s) \in Seq(R)
BY AmongThem DEF Elements

LEMMA SiblingsWithin ==
    ASSUME NEW t, SoundTree(t), NEW n \in DOMAIN t, t[n].parent # 0
    PROVE  Seqs!RemoveAt(t[t[n].parent].kids, Position(t, n)) \in Seq(DOMAIN t)
<1> DEFINE s == t[t[n].parent].kids
           i == Position(t, n)
           S == DOMAIN t
<1>1. s \in Seq(S) /\ i \in 1 .. Len(s)
    BY SoundFacts, Positioned
<1> HIDE DEF s, i, S
<1>2. Seqs!RemoveAt(s, i) \in Seq(S)
    BY <1>1, OneRemoved
<1> QED
    BY <1>2 DEF s, i, S

LEMMA ChildrenWithin ==
    ASSUME NEW t, SoundTree(t), NEW roots \in Seq(DOMAIN t)
    PROVE  ElementChildren(t, roots) \in Seq(DOMAIN t)
<1> DEFINE parts == [i \in DOMAIN roots |-> Elements(t, t[roots[i]].kids)]
<1>1. ASSUME NEW i \in DOMAIN roots PROVE parts[i] \in Seq(DOMAIN t)
    <2>1. roots[i] \in DOMAIN t
        OBVIOUS
    <2>2. t[roots[i]].kids \in Seq(DOMAIN t)
        BY <2>1, SoundFacts
    <2> QED
        BY <2>2, ElementsWithin
<1>2. parts = [i \in DOMAIN roots |-> parts[i]]
    OBVIOUS
<1>3. ElementChildren(t, roots) = Seqs!FlattenSeq(parts)
    BY DEF ElementChildren
<1> HIDE DEF parts
<1> QED
    BY <1>1, <1>2, <1>3, FlattenedEach

LEMMA SelectedWithin ==
    ASSUME NEW t, SoundTree(t), NEW roots \in Seq(DOMAIN t), NEW query
    PROVE  SelectAll(t, roots, query) \in Seq(DOMAIN t)
<1> DEFINE parts == [i \in DOMAIN roots |-> Found(t, roots[i], query)]
<1>1. ASSUME NEW i \in DOMAIN roots PROVE parts[i] \in Seq(DOMAIN t)
    <2>1. roots[i] \in DOMAIN t
        OBVIOUS
    <2>2. Descendants(t, roots[i]) \in Seq(DOMAIN t)
        BY <2>1, SubtreeWithin
    <2> QED
        BY <2>2, AmongThem DEF Found
<1>2. parts = [i \in DOMAIN roots |-> parts[i]]
    OBVIOUS
<1>3. SelectAll(t, roots, query) = Seqs!FlattenSeq(parts)
    BY DEF SelectAll
<1> HIDE DEF parts
<1> QED
    BY <1>1, <1>2, <1>3, FlattenedEach

-----------------------------------------------------------------------------
(* What each edit makes of a tree.                                         *)
Edited(t, u) == /\ SoundTree(u) /\ StaysPut(t, u)
                /\ Len(t) \in Nat /\ Len(u) \in Nat /\ Len(t) <= Len(u)

LEMMA StaysIsEdited ==
    ASSUME NEW t, NEW N, Plain(t, N), NEW u, NEW M, Plain(u, M), N <= M, Stays(t, u, N)
    PROVE  Edited(t, u)
<1>1. SoundTree(u) /\ Len(u) = M /\ Len(t) = N /\ N \in Nat /\ M \in Nat
    BY PlainIsSound DEF Plain
<1>2. StaysPut(t, u)
    BY PlainStaysPut DEF Stays
<1> QED
    BY <1>1, <1>2 DEF Edited

LEMMA UneditedTree == ASSUME NEW t, SoundTree(t) PROVE Edited(t, t)
<1> DEFINE N == Len(t)
<1>1. Plain(t, N) /\ N <= N
    BY SoundIsPlain DEF Plain
<1> HIDE DEF N
<1> QED
    BY <1>1, StaysPlain, StaysIsEdited

LEMMA RemoveEdits ==
    ASSUME NEW t, SoundTree(t), NEW n \in DOMAIN t
    PROVE  Edited(t, Detach(t, n))
<1>1. CASE t[n].parent = 0
    BY <1>1, UneditedTree DEF Detach
<1>2. CASE t[n].parent # 0
    <2> DEFINE N == Len(t)
    <2>1. Plain(t, N) /\ DOMAIN t = 1 .. N /\ Len(t) = N /\ N <= N
        BY SoundIsPlain DEF Plain
    <2> HIDE DEF N
    <2>2. Plain(Detach(t, n), N) /\ Stays(t, Detach(t, n), N)
        BY <1>2, <2>1, DetachSound
    <2> QED
        BY <2>1, <2>2, StaysIsEdited
<1> QED
    BY <1>1, <1>2

(* A node is emptied, and then something is put into it.                   *)
LEMMA EmptiedFirst ==
    ASSUME NEW t, SoundTree(t), NEW n \in DOMAIN t, NEW v, NEW M \in Nat,
           Len(t) <= M, Plain(v, M), Stays(DetachChildren(t, n), v, Len(t))
    PROVE  Edited(t, v)
<1> DEFINE N == Len(t)
           u == DetachChildren(t, n)
<1>1. Plain(t, N) /\ DOMAIN t = 1 .. N /\ Len(t) = N /\ N \in Nat /\ N <= N
    BY SoundIsPlain DEF Plain
<1>2. N <= M /\ Stays(u, v, N)
    OBVIOUS
<1> HIDE DEF N
<1>3. Plain(u, N) /\ Stays(t, u, N)
    BY <1>1, ChildrenSound
<1> HIDE DEF u
<1>4. Stays(t, v, N)
    BY <1>1, <1>2, <1>3, StaysTwice
<1> QED
    BY <1>1, <1>2, <1>4, StaysIsEdited

LEMMA TextEdits ==
    ASSUME NEW t, SoundTree(t), NEW n \in DOMAIN t, NEW word
    PROVE  Edited(t, SetText(t, n, word))
<1> DEFINE N == Len(t)
           u == DetachChildren(t, n)
           x == [kind |-> "text", name |-> word, given |-> NoAttrs, put |-> NoAttrs,
                 parent |-> 0, kids |-> <<>>]
<1>1. Plain(t, N) /\ DOMAIN t = 1 .. N /\ Len(t) = N /\ N \in Nat
    BY SoundIsPlain DEF Plain
<1> HIDE DEF N
<1>2. Plain(u, N)
    BY <1>1, ChildrenSound
<1>3. DOMAIN u = 1 .. N /\ Len(u) = N
    BY <1>2, PlainIsSound
<1>4. IsNode(x) /\ x.kind \in Kinds
    BY DEF IsNode, Kinds
<1> DEFINE v == Put(u, n, x, 0)
<1>5. SetText(t, n, word) = v
    BY DEF SetText
<1> HIDE DEF u, x
<1>6. Before(u, n, 0)
    BY DEF Before
<1>7. Plain(v, N + 1) /\ Stays(u, v, N)
    BY <1>1, <1>2, <1>3, <1>4, <1>6, PutSound
<1> HIDE DEF v
<1>8. N + 1 \in Nat /\ Len(t) <= N + 1
    BY <1>1
<1>9. Stays(DetachChildren(t, n), v, Len(t))
    BY <1>1, <1>7 DEF u
<1> QED
    BY <1>5, <1>7, <1>8, <1>9, EmptiedFirst

LEMMA HtmlEdits ==
    ASSUME NEW t, SoundTree(t), NEW n \in DOMAIN t, NEW f, SoundTree(f), Ordered(f)
    PROVE  Edited(t, SetHtml(t, n, f))
<1> DEFINE N == Len(t)
           u == DetachChildren(t, n)
           v == Graft(u, n, f, 0)
           M == N + Len(f) - 1
<1>1. Plain(t, N) /\ DOMAIN t = 1 .. N /\ Len(t) = N /\ N \in Nat
    BY SoundIsPlain DEF Plain
<1> HIDE DEF N
<1>2. Plain(u, N)
    BY <1>1, ChildrenSound
<1>3. SetHtml(t, n, f) = v
    BY DEF SetHtml
<1> HIDE DEF u
<1>4. Before(u, n, 0)
    BY DEF Before
<1>5. Plain(v, M) /\ Len(f) >= 1 /\ Len(f) \in Nat /\ Stays(u, v, N)
    BY <1>1, <1>2, <1>4, GraftSound
<1>6. M \in Nat /\ Len(t) <= M
    BY <1>1, <1>5
<1> HIDE DEF v, M
<1>7. Stays(DetachChildren(t, n), v, Len(t))
    BY <1>1, <1>5 DEF u
<1> QED
    BY <1>3, <1>5, <1>6, <1>7, EmptiedFirst

LEMMA InsertEdits ==
    ASSUME NEW t, SoundTree(t), NEW n \in DOMAIN t, NEW f, SoundTree(f), Ordered(f),
           NEW prepend \in BOOLEAN
    PROVE  Edited(t, InsertHtml(t, n, f, prepend))
<1> DEFINE N == Len(t)
           b == IF prepend /\ t[n].kids # <<>> THEN Head(t[n].kids) ELSE 0
           v == Graft(t, n, f, b)
           M == N + Len(f) - 1
<1>1. Plain(t, N) /\ DOMAIN t = 1 .. N /\ Len(t) = N /\ N \in Nat
    BY SoundIsPlain DEF Plain
<1>2. InsertHtml(t, n, f, prepend) = v
    BY DEF InsertHtml
<1> HIDE DEF N
<1>3. Before(t, n, b)
    <2>1. CASE prepend /\ t[n].kids # <<>>
        <3> DEFINE k == t[n].kids
        <3>1. k \in Seq(1 .. N) /\ Listing(t, n, k, N)
            BY <1>1 DEF Plain, NodesOf
        <3>2. k # <<>> /\ b = Head(k)
            BY <2>1
        <3> HIDE DEF k, b
        <3>3. b = k[1] /\ 1 \in 1 .. Len(k)
            BY <3>1, <3>2
        <3> QED
            BY <3>1, <3>3, <1>1 DEF Listing, Before
    <2>2. CASE ~(prepend /\ t[n].kids # <<>>)
        BY <2>2 DEF Before
    <2> QED
        BY <2>1, <2>2
<1> HIDE DEF b
<1>4. Plain(v, M) /\ Len(f) >= 1 /\ Len(f) \in Nat /\ Stays(t, v, N)
    BY <1>1, <1>3, GraftSound
<1>5. N <= M
    BY <1>1, <1>4
<1> HIDE DEF v, M
<1> QED
    BY <1>1, <1>2, <1>4, <1>5, StaysIsEdited

LEMMA AttrEdits ==
    ASSUME NEW t, SoundTree(t), NEW n \in DOMAIN t, NEW a, NEW value
    PROVE  Edited(t, SetAttr(t, n, a, value)) /\ Edited(t, RemoveAttr(t, n, a))
<1> DEFINE N == Len(t)
           old == t[n].put
           with == [c \in DOMAIN old \cup {a} |-> IF c = a THEN value ELSE old[c]]
           without == [c \in DOMAIN old \ {a} |-> old[c]]
<1>1. Plain(t, N) /\ DOMAIN t = 1 .. N /\ N \in Nat /\ N <= N
    BY SoundIsPlain DEF Plain
<1>2. /\ SetAttr(t, n, a, value) = [t EXCEPT ![n].put = with]
      /\ RemoveAttr(t, n, a) = [t EXCEPT ![n].put = without]
    BY DEF SetAttr, RemoveAttr
<1> HIDE DEF with, without, N
<1>3. /\ Plain([t EXCEPT ![n].put = with], N) /\ Stays(t, [t EXCEPT ![n].put = with], N)
      /\ Plain([t EXCEPT ![n].put = without], N) /\ Stays(t, [t EXCEPT ![n].put = without], N)
    BY <1>1, AttrSound
<1> QED
    BY <1>1, <1>2, <1>3, StaysIsEdited

-----------------------------------------------------------------------------
(* A fragment is placed whole.                                             *)

(* r is s with the first c of k, shifted by base, after its first `at`.    *)
Spliced(r, s, k, base, at, c) ==
    /\ r \in Seq(Nat) /\ Len(r) = Len(s) + c
    /\ \A j \in 1 .. Len(r) :
         r[j] = IF j <= at THEN s[j] ELSE IF j <= at + c THEN base + k[j - at] ELSE s[j - c]

LEMMA SpliceOneMore ==
    ASSUME NEW s, Len(s) \in Nat, NEW k, NEW base, NEW at \in 0 .. Len(s), NEW c \in Nat,
           NEW r, Spliced(r, s, k, base, at, c), NEW e \in Nat, e = base + k[c + 1]
    PROVE  Spliced(Seqs!InsertAt(r, at + c + 1, e), s, k, base, at, c + 1)
<1> DEFINE i == at + c + 1
           q == Seqs!InsertAt(r, i, e)
<1>1. r \in Seq(Nat) /\ Len(r) = Len(s) + c /\ i \in 1 .. Len(r) + 1 /\ i = at + c + 1
    BY DEF Spliced
<1> HIDE DEF i
<1>2. Inserted(q, r, i, e, Nat)
    BY <1>1, InsertAtInserts
<1> HIDE DEF q
<1>3. /\ q \in Seq(Nat) /\ Len(q) = Len(s) + (c + 1) /\ Len(q) = Len(r) + 1
      /\ \A j \in 1 .. Len(q) : q[j] = IF j < i THEN r[j] ELSE IF j = i THEN e ELSE r[j - 1]
    BY <1>1, <1>2 DEF Inserted
<1>4. ASSUME NEW j \in 1 .. Len(q)
      PROVE  q[j] = IF j <= at THEN s[j]
                    ELSE IF j <= at + (c + 1) THEN base + k[j - at] ELSE s[j - (c + 1)]
    <2>1. CASE j < i
        <3>1. j \in 1 .. Len(r) /\ q[j] = r[j]
            BY <2>1, <1>1, <1>3
        <3>2. j <= at + c /\ j <= at + (c + 1)
            BY <2>1, <1>1
        <3>3. r[j] = IF j <= at THEN s[j] ELSE IF j <= at + c THEN base + k[j - at] ELSE s[j - c]
            BY <3>1 DEF Spliced
        <3> QED
            BY <3>1, <3>2, <3>3
    <2>2. CASE j = i
        <3>1. q[j] = e /\ ~(j <= at) /\ j <= at + (c + 1) /\ j - at = c + 1
            BY <2>2, <1>1, <1>3
        <3> QED
            BY <3>1
    <2>3. CASE j > i
        <3>1. /\ j - 1 \in 1 .. Len(r) /\ q[j] = r[j - 1] /\ ~(j <= at) /\ ~(j <= at + (c + 1))
              /\ ~(j - 1 <= at) /\ ~(j - 1 <= at + c) /\ (j - 1) - c = j - (c + 1)
            BY <2>3, <1>1, <1>3
        <3>2. r[j - 1] = s[(j - 1) - c]
            BY <3>1 DEF Spliced
        <3> QED
            BY <3>1, <3>2
    <2> QED
        BY <2>1, <2>2, <2>3, <1>1
<1>5. Spliced(q, s, k, base, at, c + 1)
    BY <1>3, <1>4 DEF Spliced
<1> QED
    BY <1>5 DEF q, i

(* The first c of k are those up to m.                                     *)
UpTo(k, c, m) == c \in 0 .. Len(k) /\ \A i \in 1 .. Len(k) : i <= c <=> k[i] <= m

Advances(k, c, m) == c < Len(k) /\ k[c + 1] = m + 1 /\ UpTo(k, c + 1, m + 1)

LEMMA NextKid ==
    ASSUME NEW f, NEW L, Plain(f, L), Ordered(f), NEW q \in 1 .. L,
           NEW m \in Nat, m + 1 \in 1 .. L, NEW c, UpTo(f[q].kids, c, m)
    PROVE  IF f[m + 1].parent = q
           THEN Advances(f[q].kids, c, m)
           ELSE UpTo(f[q].kids, c, m + 1)
<1> DEFINE k == f[q].kids
           x == m + 1
<1>1. L \in Nat /\ DOMAIN f = 1 .. L
    BY PlainIsSound DEF Plain
<1>2. Listing(f, q, k, L) /\ k \in Seq(1 .. L) /\ Len(k) \in Nat
    <2>1. Listing(f, q, k, L) /\ NodesOf(f, L)
        BY DEF Plain
    <2>2. k \in Seq(1 .. L)
        BY <2>1 DEF NodesOf
    <2> HIDE DEF k
    <2> QED
        BY <2>1, <2>2
<1>3. \A i \in 2 .. Len(k) : k[i - 1] < k[i]
    BY <1>1 DEF Ordered
<1>4. q # 0 /\ f[x].parent = q => Has(k, x)
    BY DEF Plain
<1>5. UpTo(k, c, m)
    OBVIOUS
<1> HIDE DEF k
<1>6. ASSUME NEW i \in 1 .. Len(k) PROVE k[i] \in 1 .. L /\ (i <= c <=> k[i] <= m)
    <2>1. k[i] \in 1 .. L
        BY <1>2 DEF Listing
    <2>2. i <= c <=> k[i] <= m
        BY <1>5 DEF UpTo
    <2> QED
        BY <2>1, <2>2
<1>7. c \in 0 .. Len(k)
    BY <1>5 DEF UpTo
<1>8. CASE f[x].parent = q
    <2>1. PICK i \in 1 .. Len(k) : k[i] = x
        BY <1>4, <1>8, <1>1 DEF Has
    <2>2. ~(i <= c)
        BY <1>6, <2>1
    <2>3. i = c + 1
        <3> SUFFICES ASSUME i # c + 1 PROVE FALSE
            OBVIOUS
        <3>1. i - 1 \in 1 .. Len(k) /\ i \in 2 .. Len(k) /\ ~(i - 1 <= c)
            BY <2>1, <2>2, <1>2, <1>7
        <3>2. k[i - 1] < x
            BY <3>1, <1>3, <2>1
        <3>3. k[i - 1] \in 1 .. L /\ ~(k[i - 1] <= m)
            BY <3>1, <1>6
        <3> QED
            BY <3>2, <3>3, <1>1
    <2>4. ASSUME NEW j \in 1 .. Len(k) PROVE j <= c + 1 <=> k[j] <= m + 1
        <3>1. k[j] \in 1 .. L /\ (j <= c <=> k[j] <= m)
            BY <1>6
        <3>2. CASE j = i
            BY <3>2, <2>1, <2>3, <1>7
        <3>3. CASE j # i
            <4>1. k[j] # x
                BY <3>3, <1>2, <2>1 DEF Listing
            <4>2. j <= c + 1 <=> j <= c
                BY <3>3, <2>3, <1>7
            <4>3. k[j] <= m + 1 <=> k[j] <= m
                BY <3>1, <4>1, <1>1
            <4> QED
                BY <3>1, <4>2, <4>3
        <3> QED
            BY <3>2, <3>3
    <2>5. c < Len(k) /\ c + 1 \in 0 .. Len(k) /\ k[c + 1] = x
        BY <2>1, <2>3, <1>2, <1>7
    <2>6. UpTo(k, c + 1, m + 1)
        BY <2>4, <2>5 DEF UpTo
    <2> QED
        BY <1>8, <2>5, <2>6 DEF k, Advances
<1>9. CASE f[x].parent # q
    <2>1. ASSUME NEW j \in 1 .. Len(k) PROVE j <= c <=> k[j] <= m + 1
        <3>1. k[j] \in 1 .. L /\ (j <= c <=> k[j] <= m)
            BY <1>6
        <3>2. k[j] # x
            BY <1>2, <1>9 DEF Listing
        <3>3. k[j] <= m + 1 <=> k[j] <= m
            BY <3>1, <3>2, <1>1
        <3> QED
            BY <3>1, <3>3
    <2>2. UpTo(k, c, m + 1)
        BY <2>1, <1>7 DEF UpTo
    <2> QED
        BY <1>9, <2>2 DEF k
<1> QED
    BY <1>8, <1>9

(* Where the next one of the fragment's topmost nodes goes.                *)
PlacedNext(r, s, b, c) ==
    /\ PlaceOf(s, b) - 1 \in 0 .. Len(s) /\ Len(s) \in Nat
    /\ PlaceOf(r, b) = (PlaceOf(s, b) - 1) + c + 1

LEMMA PlaceMoves ==
    ASSUME NEW t, NEW N, Plain(t, N), DOMAIN t = 1 .. N, NEW n \in 1 .. N, NEW b, Before(t, n, b),
           NEW a, NEW A, Plain(a, A), n \in 1 .. A,
           NEW k, NEW base, NEW c \in Nat,
           Spliced(a[n].kids, t[n].kids, k, base, PlaceOf(t[n].kids, b) - 1, c)
    PROVE  PlacedNext(a[n].kids, t[n].kids, b, c)
<1> DEFINE s == t[n].kids
           r == a[n].kids
           at == PlaceOf(s, b) - 1
<1>1. Listing(t, n, s, N) /\ s \in Seq(1 .. N) /\ Listing(a, n, r, A) /\ r \in Seq(1 .. A)
    BY DEF Plain, NodesOf
<1>2. b # 0 => Has(s, b)
    BY DEF Before, Plain
<1>3. Spliced(r, s, k, base, at, c)
    OBVIOUS
<1> HIDE DEF s, r
<1>4. DOMAIN s = 1 .. Len(s) /\ DOMAIN r = 1 .. Len(r) /\ Len(s) \in Nat /\ Len(r) \in Nat
    BY <1>1
<1>5. Len(r) = Len(s) + c
    BY <1>3 DEF Spliced
<1>6. CASE b = 0
    BY <1>4, <1>5, <1>6 DEF PlaceOf, PlacedNext, s, r
<1>7. CASE b # 0
    <2>1. \E i \in DOMAIN s : s[i] = b
        BY <1>2, <1>4, <1>7 DEF Has
    <2>2. PlaceOf(s, b) \in DOMAIN s /\ s[PlaceOf(s, b)] = b
        BY <2>1, <1>7 DEF PlaceOf
    <2> DEFINE i == at + c + 1
    <2>3. /\ at \in 0 .. Len(s) /\ i \in 1 .. Len(r) /\ ~(i <= at) /\ ~(i <= at + c)
          /\ i - c = PlaceOf(s, b)
        BY <2>2, <1>4, <1>5
    <2> HIDE DEF i, at
    <2>4. r[i] = b
        BY <2>2, <2>3, <1>3 DEF Spliced
    <2>5. \A j \in DOMAIN r : r[j] = b => j = i
        BY <2>3, <2>4, <1>1, <1>4 DEF Listing
    <2>6. PlaceOf(r, b) = i
        BY <2>3, <2>4, <2>5, <1>4, <1>7 DEF PlaceOf
    <2> QED
        BY <2>3, <2>6, <1>4 DEF PlacedNext, i, at, s, r
<1> QED
    BY <1>6, <1>7

(* r is s with those of k that are numbered up to m, shifted by base.      *)
CopiedUpTo(r, s, k, base, at, m) == \E c \in Nat : UpTo(k, c, m) /\ Spliced(r, s, k, base, at, c)

LEMMA ListSame ==
    ASSUME NEW f, NEW L, Plain(f, L), Ordered(f), NEW q \in 1 .. L,
           NEW m \in Nat, m + 1 \in 1 .. L, f[m + 1].parent # q,
           NEW r, NEW s, NEW base, NEW at, CopiedUpTo(r, s, f[q].kids, base, at, m)
    PROVE  CopiedUpTo(r, s, f[q].kids, base, at, m + 1)
<1> DEFINE k == f[q].kids
<1>1. PICK c \in Nat : UpTo(k, c, m) /\ Spliced(r, s, k, base, at, c)
    BY DEF CopiedUpTo
<1>2. UpTo(k, c, m + 1)
    BY <1>1, NextKid
<1> HIDE DEF k
<1>3. CopiedUpTo(r, s, k, base, at, m + 1)
    BY <1>1, <1>2 DEF CopiedUpTo
<1> QED
    BY <1>3 DEF k

LEMMA ListGrows ==
    ASSUME NEW f, NEW L, Plain(f, L), Ordered(f), NEW q \in 1 .. L,
           NEW m \in Nat, m + 1 \in 1 .. L, f[m + 1].parent = q,
           NEW s, Len(s) \in Nat, NEW base \in Nat, NEW at \in 0 .. Len(s),
           NEW r, CopiedUpTo(r, s, f[q].kids, base, at, m),
           NEW p, \A c \in Nat : Spliced(r, s, f[q].kids, base, at, c) => p = at + c + 1
    PROVE  CopiedUpTo(Seqs!InsertAt(r, p, base + (m + 1)), s, f[q].kids, base, at, m + 1)
<1> DEFINE k == f[q].kids
           e == base + (m + 1)
<1>1. PICK c \in Nat : UpTo(k, c, m) /\ Spliced(r, s, k, base, at, c)
    BY DEF CopiedUpTo
<1>2. k[c + 1] = m + 1 /\ UpTo(k, c + 1, m + 1)
    <2>1. Advances(k, c, m)
        BY <1>1, NextKid
    <2> QED
        BY <2>1 DEF Advances
<1>3. p = at + c + 1
    BY <1>1
<1>4. e \in Nat /\ e = base + k[c + 1]
    BY <1>2
<1> HIDE DEF k, e
<1>5. Spliced(Seqs!InsertAt(r, at + c + 1, e), s, k, base, at, c + 1)
    BY <1>1, <1>4, SpliceOneMore
<1>6. c + 1 \in Nat /\ Spliced(Seqs!InsertAt(r, p, e), s, k, base, at, c + 1)
    BY <1>3, <1>5
<1>7. CopiedUpTo(Seqs!InsertAt(r, p, e), s, k, base, at, m + 1)
    BY <1>2, <1>6 DEF CopiedUpTo
<1> QED
    BY <1>7 DEF k, e

(* a is t when the nodes of f up to m have been copied under n: the copy   *)
(* of x is node N - 1 + x, and has those children of x.                    *)
WholeUpTo(a, t, n, f, at, N, m) ==
    /\ \A x \in 1 .. N : Same(a[x], t[x]) /\ (x # n => a[x].kids = t[x].kids)
    /\ \A x \in 2 .. m : /\ Same(a[N - 1 + x], f[x])
                         /\ CopiedUpTo(a[N - 1 + x].kids, <<>>, f[x].kids, N - 1, 0, m)
    /\ CopiedUpTo(a[n].kids, t[n].kids, f[Root].kids, N - 1, at, m)

(* Where the copy of a child of q goes.                                    *)
CopyUnder(q, n, N) == IF q = Root THEN n ELSE N - 1 + q
CopyBefore(q, b) == IF q = Root THEN b ELSE 0

LEMMA NoneUpTo ==
    ASSUME NEW f, NEW L, Plain(f, L), NEW x \in 1 .. L, NEW s, s \in Seq(Nat), NEW base,
           NEW at, at \in 0 .. Len(s)
    PROVE  CopiedUpTo(s, s, f[x].kids, base, at, x)
<1> DEFINE k == f[x].kids
<1>1. k \in Seq(1 .. L) /\ \A i \in DOMAIN k : k[i] \in x + 1 .. L
    BY KidsAbove
<1> HIDE DEF k
<1>2. L \in Nat /\ Len(k) \in Nat /\ DOMAIN k = 1 .. Len(k) /\ Len(s) \in Nat
    BY <1>1 DEF Plain
<1>3. UpTo(k, 0, x)
    <2>1. ASSUME NEW i \in 1 .. Len(k) PROVE i <= 0 <=> k[i] <= x
        <3>1. k[i] \in x + 1 .. L
            BY <1>1, <1>2
        <3> QED
            BY <3>1, <1>2
    <2> QED
        BY <2>1, <1>2 DEF UpTo
<1>4. Spliced(s, s, k, base, at, 0)
    BY <1>2 DEF Spliced
<1>5. CopiedUpTo(s, s, k, base, at, x)
    BY <1>3, <1>4 DEF CopiedUpTo
<1> QED
    BY <1>5 DEF k

LEMMA WholeStep ==
    ASSUME NEW t, NEW N, Plain(t, N), DOMAIN t = 1 .. N, NEW n \in 1 .. N, NEW b, Before(t, n, b),
           NEW f, NEW L, Plain(f, L), Ordered(f), NEW m \in Nat, m >= 1, m + 1 \in 1 .. L,
           NEW q, q = f[m + 1].parent, q # 0,
           NEW a, NEW A, A = N + m - 1, Plain(a, A), DOMAIN a = 1 .. A,
           WholeUpTo(a, t, n, f, PlaceOf(t[n].kids, b) - 1, N, m),
           NEW u, WithNode(u, a, CopyUnder(q, n, N), f[m + 1], CopyBefore(q, b), A + 1)
    PROVE  WholeUpTo(u, t, n, f, PlaceOf(t[n].kids, b) - 1, N, m + 1)
<1> DEFINE base == N - 1
           at == PlaceOf(t[n].kids, b) - 1
           p == CopyUnder(q, n, N)
           k == m + 1
<1>1. /\ N \in Nat /\ N >= 1 /\ L \in Nat /\ base \in Nat /\ A \in Nat
      /\ A + 1 = base + k /\ k \in 1 .. L /\ n \in 1 .. A /\ n \in DOMAIN a
      /\ \A y \in 1 .. N : y \in DOMAIN a
      /\ \A y \in 2 .. m : base + y \in DOMAIN a /\ base + y # n
    BY DEF Plain
<1>2. q \in 1 .. m /\ q \in 1 .. L
    <2>1. f[k].parent \in 0 .. k - 1
        BY <1>1 DEF Plain, NodesOf
    <2>2. q \in 0 .. m
        BY <2>1
    <2>3. \A y \in 0 .. m : y # 0 => y \in 1 .. m /\ y \in 1 .. L
        BY <1>1
    <2> QED
        BY <2>2, <2>3
<1>3. /\ q = Root => p = n /\ CopyBefore(q, b) = b
      /\ q # Root => /\ p = base + q /\ CopyBefore(q, b) = 0 /\ q \in 2 .. m
                     /\ p \in DOMAIN a /\ p # n /\ p \notin 1 .. N
    BY <1>1, <1>2 DEF CopyUnder, CopyBefore, Root
<1>4. /\ Same(u[A + 1], f[k]) /\ u[A + 1].kids = <<>>
      /\ \A y \in DOMAIN a : Same(u[y], a[y]) /\ (y # p => u[y].kids = a[y].kids)
      /\ u[p].kids = Seqs!InsertAt(a[p].kids, PlaceOf(a[p].kids, CopyBefore(q, b)), A + 1)
    BY DEF WithNode
<1>5. /\ \A y \in 1 .. N : Same(a[y], t[y]) /\ (y # n => a[y].kids = t[y].kids)
      /\ \A y \in 2 .. m : /\ Same(a[base + y], f[y])
                           /\ CopiedUpTo(a[base + y].kids, <<>>, f[y].kids, base, 0, m)
      /\ CopiedUpTo(a[n].kids, t[n].kids, f[Root].kids, base, at, m)
    BY DEF WholeUpTo
<1> HIDE DEF base, p, at
<1>6. ASSUME NEW y \in 1 .. N PROVE Same(u[y], t[y]) /\ (y # n => u[y].kids = t[y].kids)
    <2>1. Same(u[y], a[y]) /\ (y # p => u[y].kids = a[y].kids)
        BY <1>1, <1>4
    <2>2. y # n => y # p
        BY <1>3
    <2>3. Same(a[y], t[y]) /\ (y # n => a[y].kids = t[y].kids)
        BY <1>5
    <2> QED
        BY <2>1, <2>2, <2>3 DEF Same
<1>7. ASSUME NEW y \in 2 .. k
      PROVE  Same(u[base + y], f[y]) /\ CopiedUpTo(u[base + y].kids, <<>>, f[y].kids, base, 0, k)
    <2>1. CASE y = k
        <3>1. Same(u[base + y], f[y]) /\ u[base + y].kids = <<>>
            BY <2>1, <1>1, <1>4
        <3>2. y \in 1 .. L /\ <<>> \in Seq(Nat) /\ 0 \in 0 .. Len(<<>>)
            BY <2>1, <1>1
        <3>3. CopiedUpTo(<<>>, <<>>, f[y].kids, base, 0, y)
            BY <3>2, NoneUpTo
        <3> QED
            BY <2>1, <3>1, <3>3
    <2>2. CASE y # k
        <3>1. y \in 2 .. m /\ y \in 1 .. L /\ base + y \in DOMAIN a
            BY <2>2, <1>1
        <3>2. Same(u[base + y], f[y])
            <4>1. Same(u[base + y], a[base + y])
                BY <3>1, <1>4
            <4>2. Same(a[base + y], f[y])
                BY <3>1, <1>5
            <4> QED
                BY <4>1, <4>2 DEF Same
        <3> DEFINE r == a[base + y].kids
        <3>3. CopiedUpTo(r, <<>>, f[y].kids, base, 0, m)
            BY <3>1, <1>5
        <3>4. CASE y = q
            <4>1. p = base + y /\ CopyBefore(q, b) = 0
                BY <3>1, <3>4, <1>3 DEF Root
            <4>2. u[base + y].kids = Seqs!InsertAt(r, PlaceOf(r, 0), base + (m + 1))
                BY <4>1, <1>1, <1>4
            <4> HIDE DEF r
            <4>3. ASSUME NEW c \in Nat, Spliced(r, <<>>, f[y].kids, base, 0, c)
                  PROVE  PlaceOf(r, 0) = 0 + c + 1
                BY <4>3 DEF Spliced, PlaceOf
            <4>4. Len(<<>>) \in Nat /\ 0 \in 0 .. Len(<<>>)
                OBVIOUS
            <4>5. CopiedUpTo(Seqs!InsertAt(r, PlaceOf(r, 0), base + (m + 1)), <<>>, f[y].kids, base, 0, m + 1)
                BY <1>1, <3>1, <3>3, <3>4, <4>3, <4>4, ListGrows
            <4> QED
                BY <3>2, <4>2, <4>5
        <3>5. CASE y # q
            <4>1. base + y # p
                <5>1. CASE q = Root
                    BY <5>1, <3>1, <1>1, <1>3
                <5>2. CASE q # Root
                    BY <5>2, <3>1, <3>5, <1>1, <1>2, <1>3
                <5> QED
                    BY <5>1, <5>2
            <4>2. u[base + y].kids = r
                BY <4>1, <3>1, <1>4
            <4> HIDE DEF r
            <4>3. CopiedUpTo(r, <<>>, f[y].kids, base, 0, m + 1)
                BY <1>1, <3>1, <3>3, <3>5, ListSame
            <4> QED
                BY <3>2, <4>2, <4>3
        <3> QED
            BY <3>4, <3>5
    <2> QED
        BY <2>1, <2>2
<1>8. CopiedUpTo(u[n].kids, t[n].kids, f[Root].kids, base, at, k)
    <2> DEFINE r == a[n].kids
               s == t[n].kids
    <2>0. Root \in 1 .. L
        BY <1>1 DEF Root
    <2>1. CopiedUpTo(r, s, f[Root].kids, base, at, m)
        BY <1>5
    <2>2. CASE q = Root
        <3>1. u[n].kids = Seqs!InsertAt(r, PlaceOf(r, b), base + (m + 1))
            BY <2>2, <1>1, <1>3, <1>4
        <3>2. ASSUME NEW c \in Nat, Spliced(r, s, f[Root].kids, base, at, c)
              PROVE  /\ at \in 0 .. Len(s) /\ Len(s) \in Nat
                     /\ PlaceOf(r, b) = at + c + 1
            <4> DEFINE fs == f[Root].kids
            <4>1. Spliced(a[n].kids, t[n].kids, fs, base, PlaceOf(t[n].kids, b) - 1, c)
                BY <3>2 DEF at
            <4> HIDE DEF fs
            <4>2. PlacedNext(a[n].kids, t[n].kids, b, c)
                BY <4>1, <1>1, PlaceMoves
            <4> QED
                BY <4>2 DEF PlacedNext, at
        <3> HIDE DEF r, s
        <3>3. at \in 0 .. Len(s) /\ Len(s) \in Nat
            BY <2>1, <3>2 DEF CopiedUpTo
        <3>4. CopiedUpTo(Seqs!InsertAt(r, PlaceOf(r, b), base + (m + 1)), s, f[Root].kids, base, at, m + 1)
            BY <1>1, <2>0, <2>1, <2>2, <3>2, <3>3, ListGrows
        <3> QED
            BY <3>1, <3>4 DEF s
    <2>3. CASE q # Root
        <3>1. u[n].kids = r
            BY <2>3, <1>1, <1>3, <1>4
        <3> HIDE DEF r, s
        <3>2. CopiedUpTo(r, s, f[Root].kids, base, at, m + 1)
            BY <1>1, <2>0, <2>1, <2>3, ListSame
        <3> QED
            BY <3>1, <3>2 DEF s
    <2> QED
        BY <2>2, <2>3
<1> QED
    BY <1>6, <1>7, <1>8 DEF WholeUpTo, base, at

LEMMA PlaceFound ==
    ASSUME NEW t, NEW N, Plain(t, N), NEW n \in 1 .. N, NEW b, Before(t, n, b)
    PROVE  /\ PlaceOf(t[n].kids, b) - 1 \in 0 .. Len(t[n].kids)
           /\ t[n].kids \in Seq(Nat) /\ Len(t[n].kids) \in Nat
<1> DEFINE s == t[n].kids
<1>1. SoundTree(t) /\ DOMAIN t = 1 .. N /\ N \in Nat /\ NodesOf(t, N)
    BY PlainIsSound DEF Plain
<1>2. s \in Seq(1 .. N) /\ IsNode(t[n])
    BY <1>1 DEF NodesOf
<1>3. WithNode(Put(t, n, t[n], b), t, n, t[n], b, Len(t) + 1)
    BY <1>1, <1>2, PutThere
<1>4. PlaceOf(s, b) \in 1 .. Len(s) + 1
    BY <1>3 DEF WithNode
<1> HIDE DEF s
<1>5. Len(s) \in Nat /\ s \in Seq(Nat)
    <2>1. \A i \in 1 .. N : i \in Nat
        BY <1>1
    <2> DEFINE S == 1 .. N
    <2>2. s \in Seq(S) /\ \A i \in S : i \in Nat
        BY <1>2, <2>1
    <2> HIDE DEF S
    <2>3. s \in Seq(Nat)
        BY <2>2, SeqMonotonic
    <2> QED
        BY <2>3
<1>6. PlaceOf(s, b) - 1 \in 0 .. Len(s)
    BY <1>4, <1>5
<1> QED
    BY <1>5, <1>6 DEF s

LEMMA CopiesWhole ==
    ASSUME NEW t, NEW N, Plain(t, N), NEW n \in 1 .. N, NEW b, Before(t, n, b),
           NEW f, NEW L, Plain(f, L), Ordered(f), \A m \in 1 .. L : m # 1 => f[m].parent # 0,
           NEW g, Copies(g, t, n, f, b, N - 1, L)
    PROVE  \A m \in 1 .. L : WholeUpTo(g[m], t, n, f, PlaceOf(t[n].kids, b) - 1, N, m)
<1> DEFINE at == PlaceOf(t[n].kids, b) - 1
           G == {m \in 1 .. L : WholeUpTo(g[m], t, n, f, at, N, m)}
<1>1. N \in Nat /\ N >= 1 /\ L \in Nat /\ L >= 1 /\ NodesOf(f, L) /\ DOMAIN t = 1 .. N
    BY PlainIsSound DEF Plain
<1>2. \A m \in 1 .. L : Plain(g[m], N + m - 1) /\ SameParents(t, g[m], N)
    BY CopiesSound
<1>3. 1 \in G
    <2> DEFINE s == t[n].kids
    <2>1. g[1] = t /\ 1 \in 1 .. L
        BY <1>1 DEF Copies
    <2>2. at \in 0 .. Len(s) /\ s \in Seq(Nat)
        BY PlaceFound
    <2> HIDE DEF at, s
    <2>3. CopiedUpTo(s, s, f[Root].kids, N - 1, at, 1)
        BY <2>1, <2>2, NoneUpTo DEF Root
    <2>4. \A x \in 2 .. 1 : FALSE
        OBVIOUS
    <2>5. WholeUpTo(t, t, n, f, at, N, 1)
        BY <2>3, <2>4 DEF WholeUpTo, Same, s
    <2> QED
        BY <2>1, <2>5
<1>4. ASSUME NEW m \in 1 .. L, m \in G, m < L PROVE m + 1 \in G
    <2> DEFINE a == g[m]
               A == N + m - 1
               k == m + 1
               x == f[k]
               q == x.parent
    <2>1. /\ m \in Nat /\ m >= 1 /\ k \in 1 .. L /\ k # 1 /\ k - 1 = m /\ A \in Nat /\ N <= A
          /\ A = N + m - 1 /\ A + 1 = N + m
          /\ \A c \in 1 .. N : c \in 1 .. A
        BY <1>1, <1>4
    <2>2. Plain(a, A) /\ SameParents(t, a, N)
        BY <1>2
    <2>3. WholeUpTo(a, t, n, f, at, N, m)
        BY <1>4
    <2>4. g[k] = Copied(a, n, f, b, N - 1, k)
        <3>1. g[k] = Copied(g[k - 1], n, f, b, N - 1, k)
            BY <2>1 DEF Copies
        <3> QED
            BY <3>1, <2>1
    <2>5. IsNode(x) /\ q \in 0 .. k - 1 /\ q # 0
        BY <1>1, <2>1 DEF NodesOf
    <2> HIDE DEF a, A
    <2>6. SoundTree(a) /\ DOMAIN a = 1 .. A /\ Len(a) = A
        BY <2>2, PlainIsSound
    <2> DEFINE p == CopyUnder(q, n, N)
               c == CopyBefore(q, b)
    <2>7. g[k] = Put(a, p, x, c)
        BY <2>4 DEF Copied, CopyUnder, CopyBefore
    <2>8. p \in 1 .. A /\ Before(a, p, c)
        <3>1. CASE q = Root
            BY <3>1, <1>1, <2>1, <2>2, <2>6 DEF CopyUnder, CopyBefore, Before, SameParents
        <3>2. CASE q # Root
            BY <3>2, <2>1, <2>5, <1>1 DEF CopyUnder, CopyBefore, Before, Root
        <3> QED
            BY <3>1, <3>2
    <2> HIDE DEF p, c, x
    <2>9. WithNode(g[k], a, p, x, c, A + 1)
        BY <2>5, <2>6, <2>7, <2>8, PutThere
    <2>10. WithNode(g[k], a, CopyUnder(q, n, N), f[m + 1], CopyBefore(q, b), A + 1)
        BY <2>9 DEF p, c, x
    <2>11. q = f[m + 1].parent /\ q # 0 /\ m + 1 \in 1 .. L
        BY <2>1, <2>5 DEF x
    <2> HIDE DEF q, k
    <2>12. WholeUpTo(g[k], t, n, f, at, N, m + 1)
        BY <1>1, <2>1, <2>2, <2>3, <2>6, <2>10, <2>11, WholeStep
    <2> QED
        BY <2>1, <2>12 DEF k
<1>5. \A m \in 1 .. L : m \in G
    <2> HIDE DEF G
    <2> QED
        BY <1>1, <1>3, <1>4, Climb
<1> QED
    BY <1>5

(* In the end all of them are there.                                       *)
WholeCopy(u, t, n, f, at, N, L) ==
    /\ \A x \in 1 .. N : Same(u[x], t[x]) /\ (x # n => u[x].kids = t[x].kids)
    /\ \A x \in 2 .. L : /\ Same(u[N - 1 + x], f[x])
                         /\ Spliced(u[N - 1 + x].kids, <<>>, f[x].kids, N - 1, 0, Len(f[x].kids))
    /\ Spliced(u[n].kids, t[n].kids, f[Root].kids, N - 1, at, Len(f[Root].kids))

LEMMA AllCopied ==
    ASSUME NEW f, NEW L, Plain(f, L), NEW x \in 1 .. L, NEW r, NEW s, NEW base, NEW at,
           CopiedUpTo(r, s, f[x].kids, base, at, L)
    PROVE  Spliced(r, s, f[x].kids, base, at, Len(f[x].kids))
<1> DEFINE k == f[x].kids
<1>1. k \in Seq(1 .. L) /\ L \in Nat
    BY DEF Plain, NodesOf
<1>2. PICK c \in Nat : UpTo(k, c, L) /\ Spliced(r, s, k, base, at, c)
    BY DEF CopiedUpTo
<1> HIDE DEF k
<1>3. c = Len(k)
    <2>1. Len(k) \in Nat /\ \A i \in 1 .. Len(k) : k[i] <= L
        BY <1>1
    <2>2. c \in 0 .. Len(k) /\ \A i \in 1 .. Len(k) : i <= c
        BY <1>2, <2>1 DEF UpTo
    <2>3. Len(k) # 0 => Len(k) \in 1 .. Len(k)
        BY <2>1
    <2>4. Len(k) # 0 => Len(k) <= c
        BY <2>2, <2>3
    <2> QED
        BY <2>1, <2>2, <2>4
<1> QED
    BY <1>2, <1>3 DEF k

LEMMA GraftWhole ==
    ASSUME NEW t, NEW N, Plain(t, N), NEW n \in 1 .. N, NEW b, Before(t, n, b),
           NEW f, SoundTree(f), Ordered(f)
    PROVE  WholeCopy(Graft(t, n, f, b), t, n, f, PlaceOf(t[n].kids, b) - 1, N, Len(f))
<1> DEFINE L == Len(f)
           at == PlaceOf(t[n].kids, b) - 1
           u == Graft(t, n, f, b)
<1>1. Plain(f, L) /\ DOMAIN f = 1 .. L
    BY SoundIsPlain
<1>2. L \in Nat /\ L >= 1 /\ L \in 1 .. L /\ Root \in 1 .. L
    BY <1>1 DEF Plain, Root
<1>3. Len(t) = N
    BY PlainIsSound
<1>4. \A m \in 1 .. L : m # 1 => f[m].parent # 0
    BY <1>1 DEF Ordered, Root
<1>5. PICK g : Copies(g, t, n, f, b, N - 1, L) /\ u = g[L]
    BY <1>2, <1>3, GraftCopies
<1> HIDE DEF L, u
<1>6. WholeUpTo(u, t, n, f, at, N, L)
    BY <1>1, <1>2, <1>4, <1>5, CopiesWhole
<1> HIDE DEF at
<1>7. /\ \A x \in 1 .. N : Same(u[x], t[x]) /\ (x # n => u[x].kids = t[x].kids)
      /\ \A x \in 2 .. L : /\ Same(u[N - 1 + x], f[x])
                           /\ CopiedUpTo(u[N - 1 + x].kids, <<>>, f[x].kids, N - 1, 0, L)
      /\ CopiedUpTo(u[n].kids, t[n].kids, f[Root].kids, N - 1, at, L)
    BY <1>6 DEF WholeUpTo
<1>8. ASSUME NEW x \in 2 .. L
      PROVE  Spliced(u[N - 1 + x].kids, <<>>, f[x].kids, N - 1, 0, Len(f[x].kids))
    <2>1. x \in 1 .. L
        OBVIOUS
    <2> QED
        BY <1>1, <1>7, <2>1, AllCopied
<1>9. Spliced(u[n].kids, t[n].kids, f[Root].kids, N - 1, at, Len(f[Root].kids))
    BY <1>1, <1>2, <1>7, AllCopied
<1>10. WholeCopy(u, t, n, f, at, N, L)
    BY <1>7, <1>8, <1>9 DEF WholeCopy
<1> QED
    BY <1>10 DEF L, at, u

-----------------------------------------------------------------------------
(* What an edit makes of the shape of a tree.                              *)

Parts(t, n) == [i \in DOMAIN t[n].kids |-> Shape(t, t[n].kids[i])]

LEMMA ShapeUnfolds ==
    ASSUME NEW t, NEW N, Plain(t, N), NEW n \in 1 .. N
    PROVE  /\ Shape(t, n) = <<t[n].kind, t[n].name, t[n].given, t[n].put, Parts(t, n)>>
           /\ Content(t, n) = Parts(t, n)
<1> DEFINE Of == CHOOSE g : g = [m \in DOMAIN t |->
                    <<t[m].kind, t[m].name, t[m].given, t[m].put,
                      [i \in DOMAIN t[m].kids |-> g[t[m].kids[i]]]>>]
<1>1. DOMAIN t = 1 .. N
    BY PlainIsSound
<1>2. ASSUME NEW m PROVE Shape(t, m) = Of[m]
    BY DEF Shape
<1>3. TreesFrom("shape", Of, t, 1, N)
    <2>1. PICK g : TreesFrom("shape", g, t, 1, N)
        BY TreesExist
    <2>2. g = [m \in DOMAIN t |-> <<t[m].kind, t[m].name, t[m].given, t[m].put,
                                    [i \in DOMAIN t[m].kids |-> g[t[m].kids[i]]]>>]
        BY <2>1, <1>1 DEF TreesFrom, Sprout, Branches
    <2>3. Of = [m \in DOMAIN t |-> <<t[m].kind, t[m].name, t[m].given, t[m].put,
                                     [i \in DOMAIN t[m].kids |-> Of[t[m].kids[i]]]>>]
        BY <2>2
    <2> HIDE DEF Of
    <2> QED
        BY <2>3, <1>1 DEF TreesFrom, Sprout, Branches
<1> HIDE DEF Of
<1>4. Of[n] = <<t[n].kind, t[n].name, t[n].given, t[n].put, Branches(Of, t, n)>>
    BY <1>3 DEF TreesFrom, Sprout
<1>5. Branches(Of, t, n) = Parts(t, n)
    BY <1>2 DEF Branches, Parts
<1> HIDE DEF Parts
<1>6. Shape(t, n) = <<t[n].kind, t[n].name, t[n].given, t[n].put, Parts(t, n)>>
    BY <1>2, <1>4, <1>5
<1>7. Content(t, n) = Parts(t, n)
    BY <1>6 DEF Content
<1> QED
    BY <1>6, <1>7

LEMMA SameShape ==
    ASSUME NEW t, NEW N, Plain(t, N), NEW n \in 1 .. N, NEW u, NEW M, Plain(u, M), NEW m \in 1 .. M,
           Same(u[m], t[n]), Parts(u, m) = Parts(t, n)
    PROVE  Shape(u, m) = Shape(t, n)
<1>1. Shape(u, m) = <<u[m].kind, u[m].name, u[m].given, u[m].put, Parts(u, m)>>
    BY ShapeUnfolds
<1>2. Shape(t, n) = <<t[n].kind, t[n].name, t[n].given, t[n].put, Parts(t, n)>>
    BY ShapeUnfolds
<1> QED
    BY <1>1, <1>2 DEF Same

(* What is the same but for its number has the same shape.                 *)
ShiftedBy(u, t, base, m) ==
    /\ Same(u[base + m], t[m])
    /\ DOMAIN u[base + m].kids = DOMAIN t[m].kids
    /\ \A i \in DOMAIN t[m].kids : u[base + m].kids[i] = base + t[m].kids[i]

AllShifted(u, M, t, N, base, lo) ==
    \A m \in 1 .. N : m >= lo => base + m \in 1 .. M /\ ShiftedBy(u, t, base, m)
AllAgree(u, t, N, base, lo) ==
    \A m \in 1 .. N : m >= lo => Shape(u, base + m) = Shape(t, m)

LEMMA ShapesAgree ==
    ASSUME NEW t, NEW N, Plain(t, N), NEW u, NEW M, Plain(u, M), NEW base, NEW lo \in Nat,
           AllShifted(u, M, t, N, base, lo)
    PROVE  AllAgree(u, t, N, base, lo)
<1> DEFINE G == {m \in 1 .. N : m >= lo => Shape(u, base + m) = Shape(t, m)}
<1>1. N \in Nat
    BY DEF Plain
<1>2. ASSUME NEW m \in 1 .. N, \A c \in m + 1 .. N : c \in G PROVE m \in G
    <2> SUFFICES ASSUME m >= lo PROVE Shape(u, base + m) = Shape(t, m)
        OBVIOUS
    <2>1. base + m \in 1 .. M /\ ShiftedBy(u, t, base, m)
        BY DEF AllShifted
    <2>2. \A i \in DOMAIN t[m].kids : t[m].kids[i] \in m + 1 .. N
        BY KidsAbove
    <2>3. \A c \in m + 1 .. N : Shape(u, base + c) = Shape(t, c)
        BY <1>1, <1>2
    <2>4. \A i \in DOMAIN t[m].kids : Shape(u, u[base + m].kids[i]) = Shape(t, t[m].kids[i])
        BY <2>1, <2>2, <2>3 DEF ShiftedBy
    <2>5. Parts(u, base + m) = Parts(t, m)
        BY <2>1, <2>4 DEF Parts, ShiftedBy
    <2> DEFINE x == base + m
    <2>6. x \in 1 .. M /\ Same(u[x], t[m]) /\ Parts(u, x) = Parts(t, m)
        BY <2>1, <2>5 DEF ShiftedBy
    <2> HIDE DEF x
    <2>7. Shape(u, x) = Shape(t, m)
        BY <2>6, SameShape
    <2> QED
        BY <2>7 DEF x
<1>3. \A m \in 1 .. N : m \in G
    <2> HIDE DEF G
    <2> QED
        BY <1>1, <1>2, Downward
<1> QED
    BY <1>3 DEF AllAgree

(* q is w and then o, a and c long.                                        *)
Joined(q, w, o, a, c) == q = [j \in 1 .. a + c |-> IF j <= a THEN w[j] ELSE o[j - a]]

LEMMA Catenated ==
    ASSUME NEW w, NEW o, NEW a \in Nat, NEW c \in Nat, OnNodes(w, a), OnNodes(o, c)
    PROVE  Joined(w \o o, w, o, a, c)
<1> DEFINE S == {w[j] : j \in 1 .. a} \cup {o[j] : j \in 1 .. c}
<1>1. w \in Seq(S) /\ Len(w) = a
    BY DEF OnNodes
<1>2. o \in Seq(S) /\ Len(o) = c
    BY DEF OnNodes
<1> HIDE DEF S
<1>3. /\ w \o o \in Seq(S) /\ Len(w \o o) = a + c
      /\ \A j \in 1 .. a + c : (w \o o)[j] = IF j <= a THEN w[j] ELSE o[j - a]
    BY <1>1, <1>2, ConcatProperties
<1> DEFINE q == w \o o
<1>4. q \in Seq(S) /\ Len(q) = a + c
    BY <1>3
<1>5. \A j \in 1 .. a + c : q[j] = IF j <= a THEN w[j] ELSE o[j - a]
    BY <1>3
<1> HIDE DEF q
<1>6. q = [j \in 1 .. a + c |-> q[j]]
    BY <1>4
<1>7. Joined(q, w, o, a, c)
    BY <1>5, <1>6 DEF Joined
<1> QED
    BY <1>7 DEF q

(* The content of f comes first in n, or last, and nowhere else.           *)
Placed(u, t, n, f, at, N) ==
    /\ at = 0 => Content(u, n) = Content(f, Root) \o Content(t, n)
    /\ at = Len(t[n].kids) => Content(u, n) = Content(t, n) \o Content(f, Root)
    /\ \A m \in 1 .. N : m # n => u[m].kids = t[m].kids

LEMMA GraftShapes ==
    ASSUME NEW t, NEW N, Plain(t, N), NEW n \in 1 .. N, NEW b, Before(t, n, b),
           NEW f, SoundTree(f), Ordered(f)
    PROVE  Placed(Graft(t, n, f, b), t, n, f, PlaceOf(t[n].kids, b) - 1, N)
<1> DEFINE u == Graft(t, n, f, b)
           at == PlaceOf(t[n].kids, b) - 1
           L == Len(f)
           M == N + L - 1
           base == N - 1
           s == t[n].kids
           k == f[Root].kids
           r == u[n].kids
           O == Content(t, n)
           W == Content(f, Root)
           V == Content(u, n)
<1>1. /\ Plain(f, L) /\ L \in Nat /\ L >= 1 /\ Root \in 1 .. L /\ Plain(u, M)
      /\ N \in Nat /\ base \in Nat /\ n \in 1 .. M
    <2>1. Plain(f, L) /\ Plain(u, M) /\ L \in Nat /\ L >= 1
        BY SoundIsPlain, GraftSound
    <2>2. N \in Nat /\ N >= 1
        BY DEF Plain
    <2> HIDE DEF L, u
    <2> QED
        BY <2>1, <2>2 DEF Root
<1>2. WholeCopy(u, t, n, f, at, N, L)
    BY GraftWhole
<1>3. /\ at \in 0 .. Len(s) /\ s \in Seq(Nat) /\ Len(s) \in Nat
    BY PlaceFound
<1>4. O = Parts(t, n) /\ W = Parts(f, Root) /\ V = Parts(u, n)
    BY <1>1, ShapeUnfolds
<1>5. k \in Seq(1 .. L) /\ \A i \in DOMAIN k : k[i] \in 2 .. L
    <2>1. k \in Seq(1 .. L) /\ \A i \in DOMAIN k : k[i] \in Root + 1 .. L
        <3> HIDE DEF L
        <3> QED
            BY <1>1, KidsAbove
    <2>2. Root + 1 = 2
        BY DEF Root
    <2> QED
        BY <2>1, <2>2
<1>6. \A i \in DOMAIN s : s[i] \in n + 1 .. N
    BY KidsAbove
<1> HIDE DEF u, at, L
<1>7. ASSUME NEW m \in 1 .. N, m >= n + 1
      PROVE  0 + m \in 1 .. M /\ ShiftedBy(u, t, 0, m)
    <2>1. Same(u[m], t[m]) /\ u[m].kids = t[m].kids
        BY <1>1, <1>2, <1>7 DEF WholeCopy
    <2>2. 0 + m = m /\ m \in 1 .. M
        BY <1>1
    <2>3. \A i \in DOMAIN t[m].kids : 0 + t[m].kids[i] = t[m].kids[i]
        <3>1. t[m].kids \in Seq(1 .. N) /\ \A i \in DOMAIN t[m].kids : t[m].kids[i] \in m + 1 .. N
            BY KidsAbove
        <3> QED
            BY <3>1, <1>1
    <2> QED
        BY <2>1, <2>2, <2>3 DEF ShiftedBy
<1>8. AllAgree(u, t, N, 0, n + 1)
    <2>1. n + 1 \in Nat /\ AllShifted(u, M, t, N, 0, n + 1)
        BY <1>1, <1>7 DEF AllShifted
    <2> HIDE DEF M
    <2> QED
        BY <1>1, <2>1, ShapesAgree
<1>9. ASSUME NEW m \in 1 .. L, m >= 2
      PROVE  base + m \in 1 .. M /\ ShiftedBy(u, f, base, m)
    <2> DEFINE y == u[base + m].kids
               z == f[m].kids
    <2>1. m \in 2 .. L
        BY <1>1, <1>9
    <2>2. Same(u[base + m], f[m]) /\ Spliced(y, <<>>, z, base, 0, Len(z))
        BY <1>2, <2>1 DEF WholeCopy
    <2>3. z \in Seq(1 .. L)
        BY <1>1, KidsAbove
    <2>4. base + m \in 1 .. M
        BY <1>1, <2>1
    <2> HIDE DEF y, z
    <2>5. Len(z) \in Nat /\ DOMAIN z = 1 .. Len(z)
        BY <2>3
    <2>6. y \in Seq(Nat) /\ Len(y) = Len(z)
        BY <2>2, <2>5 DEF Spliced
    <2>7. DOMAIN y = DOMAIN z
        BY <2>5, <2>6
    <2>8. ASSUME NEW i \in 1 .. Len(z) PROVE y[i] = base + z[i]
        <3>1. i \in 1 .. Len(y) /\ ~(i <= 0) /\ i <= 0 + Len(z) /\ i - 0 = i
            BY <2>5, <2>6
        <3> QED
            BY <2>2, <3>1 DEF Spliced
    <2> QED
        BY <2>2, <2>4, <2>5, <2>7, <2>8 DEF ShiftedBy, y, z
<1>10. AllAgree(u, f, L, base, 2)
    <2>1. 2 \in Nat /\ AllShifted(u, M, f, L, base, 2)
        BY <1>1, <1>9 DEF AllShifted
    <2> HIDE DEF M, base
    <2> QED
        BY <1>1, <2>1, ShapesAgree
<1>11. /\ DOMAIN k = 1 .. Len(k) /\ Len(k) \in Nat /\ DOMAIN s = 1 .. Len(s)
       /\ Spliced(r, s, k, base, at, Len(k))
    <2>1. Spliced(r, s, k, base, at, Len(k))
        BY <1>2 DEF WholeCopy
    <2> HIDE DEF k, s, r
    <2> QED
        BY <2>1, <1>3, <1>5
<1> HIDE DEF k, s, r, base, M, O, W, V
<1>12. OnNodes(W, Len(k)) /\ \A j \in 1 .. Len(k) : W[j] = Shape(f, k[j])
    BY <1>4, <1>11 DEF Parts, OnNodes, k
<1>13. OnNodes(O, Len(s)) /\ \A j \in 1 .. Len(s) : O[j] = Shape(t, s[j])
    BY <1>4, <1>11 DEF Parts, OnNodes, s
<1>14. /\ Len(r) = Len(s) + Len(k) /\ DOMAIN r = 1 .. Len(r)
       /\ \A j \in 1 .. Len(r) :
            r[j] = IF j <= at THEN s[j] ELSE IF j <= at + Len(k) THEN base + k[j - at] ELSE s[j - Len(k)]
    BY <1>11 DEF Spliced
<1>15. V = [j \in 1 .. Len(r) |-> Shape(u, r[j])]
    BY <1>4, <1>14 DEF Parts, r
<1>16. ASSUME NEW j \in 1 .. Len(s) PROVE Shape(u, s[j]) = O[j]
    <2>1. s[j] \in n + 1 .. N
        BY <1>6, <1>11
    <2>2. s[j] \in 1 .. N /\ s[j] >= n + 1 /\ 0 + s[j] = s[j]
        BY <2>1, <1>1
    <2> QED
        BY <2>2, <1>8, <1>13 DEF AllAgree
<1>17. ASSUME NEW j \in 1 .. Len(k) PROVE Shape(u, base + k[j]) = W[j]
    <2>1. k[j] \in 2 .. L
        BY <1>5, <1>11 DEF k
    <2>2. k[j] \in 1 .. L /\ k[j] >= 2
        BY <2>1, <1>1
    <2> QED
        BY <2>2, <1>10, <1>12 DEF AllAgree
<1>18. ASSUME at = 0 PROVE V = W \o O
    <2>1. Joined(W \o O, W, O, Len(k), Len(s))
        BY <1>3, <1>11, <1>12, <1>13, Catenated
    <2>2. Len(r) = Len(k) + Len(s)
        BY <1>3, <1>11, <1>14
    <2>3. ASSUME NEW j \in 1 .. Len(r)
          PROVE  Shape(u, r[j]) = IF j <= Len(k) THEN W[j] ELSE O[j - Len(k)]
        <3>1. ~(j <= at) /\ at + Len(k) = Len(k) /\ j - at = j
            BY <1>11, <1>18, <2>2, <1>3
        <3>2. CASE j <= Len(k)
            <4>1. j \in 1 .. Len(k) /\ r[j] = base + k[j]
                BY <3>1, <3>2, <1>11, <1>14
            <4> QED
                BY <3>2, <4>1, <1>17
        <3>3. CASE ~(j <= Len(k))
            <4>1. j - Len(k) \in 1 .. Len(s) /\ r[j] = s[j - Len(k)]
                BY <3>1, <3>3, <2>2, <1>3, <1>11, <1>14
            <4> QED
                BY <3>3, <4>1, <1>16
        <3> QED
            BY <3>2, <3>3
    <2> QED
        BY <2>1, <2>2, <2>3, <1>15 DEF Joined
<1>19. ASSUME at = Len(s) PROVE V = O \o W
    <2>1. Joined(O \o W, O, W, Len(s), Len(k))
        BY <1>3, <1>11, <1>12, <1>13, Catenated
    <2>2. ASSUME NEW j \in 1 .. Len(r)
          PROVE  Shape(u, r[j]) = IF j <= Len(s) THEN O[j] ELSE W[j - Len(s)]
        <3>1. CASE j <= Len(s)
            <4>1. j \in 1 .. Len(s) /\ r[j] = s[j]
                BY <3>1, <1>3, <1>11, <1>14, <1>19
            <4> QED
                BY <3>1, <4>1, <1>16
        <3>2. CASE ~(j <= Len(s))
            <4>1. j - Len(s) \in 1 .. Len(k) /\ r[j] = base + k[j - Len(s)]
                BY <3>2, <1>3, <1>11, <1>14, <1>19
            <4> QED
                BY <3>2, <4>1, <1>17
        <3> QED
            BY <3>1, <3>2
    <2> QED
        BY <2>1, <2>2, <1>14, <1>15 DEF Joined
<1>20. \A m \in 1 .. N : m # n => u[m].kids = t[m].kids
    BY <1>2 DEF WholeCopy
<1> QED
    BY <1>18, <1>19, <1>20 DEF Placed, u, at, s, O, W, V

(* A node without children has no content.                                 *)
LEMMA NoContent ==
    ASSUME NEW t, NEW N, Plain(t, N), NEW n \in 1 .. N, t[n].kids = <<>>
    PROVE  Content(t, n) = <<>> /\ Parts(t, n) = <<>>
<1>1. Content(t, n) = Parts(t, n)
    BY ShapeUnfolds
<1>2. Parts(t, n) = <<>>
    BY DEF Parts
<1> QED
    BY <1>1, <1>2

LEMMA ContentOfFragment ==
    ASSUME NEW f, SoundTree(f)
    PROVE  Content(f, Root) \o <<>> = Content(f, Root)
<1> DEFINE L == Len(f)
           k == f[Root].kids
           W == Content(f, Root)
           a == Len(k)
<1>1. Plain(f, L) /\ L \in Nat /\ L >= 1
    BY SoundIsPlain DEF Plain
<1> HIDE DEF L
<1>2. Root \in 1 .. L
    BY <1>1 DEF Root
<1>3. k \in Seq(1 .. L)
    BY <1>1, <1>2 DEF Plain, NodesOf
<1>4. W = Parts(f, Root)
    BY <1>1, <1>2, ShapeUnfolds
<1>5. W = [i \in DOMAIN k |-> Shape(f, k[i])]
    BY <1>4 DEF Parts
<1> HIDE DEF k, W
<1>6. a \in Nat /\ DOMAIN k = 1 .. a
    BY <1>3
<1>7. W = [i \in 1 .. a |-> W[i]] /\ OnNodes(W, a)
    BY <1>5, <1>6 DEF OnNodes
<1>8. OnNodes(<<>>, 0)
    BY DEF OnNodes
<1> HIDE DEF a
<1>9. Joined(W \o <<>>, W, <<>>, a, 0)
    BY <1>6, <1>7, <1>8, Catenated
<1>10. a + 0 = a /\ \A j \in 1 .. a : j <= a
    BY <1>6
<1>11. W \o <<>> = [i \in 1 .. a |-> W[i]]
    BY <1>9, <1>10 DEF Joined
<1> QED
    BY <1>7, <1>11 DEF W

LEMMA InsertPlaces ==
    ASSUME NEW t, SoundTree(t), NEW n \in DOMAIN t, NEW f, SoundTree(f), Ordered(f)
    PROVE  /\ Holding(t, n, InsertHtml(t, n, f, TRUE), Content(f, Root) \o Content(t, n))
           /\ Holding(t, n, InsertHtml(t, n, f, FALSE), Content(t, n) \o Content(f, Root))
<1> DEFINE N == Len(t)
           s == t[n].kids
           b == IF s # <<>> THEN Head(s) ELSE 0
<1>1. Plain(t, N) /\ DOMAIN t = 1 .. N /\ n \in 1 .. N
    BY SoundIsPlain
<1>2. s \in Seq(1 .. N) /\ Listing(t, n, s, N)
    BY <1>1 DEF Plain, NodesOf
<1>3. InsertHtml(t, n, f, TRUE) = Graft(t, n, f, b) /\ InsertHtml(t, n, f, FALSE) = Graft(t, n, f, 0)
    BY DEF InsertHtml
<1>4. SoundTree(InsertHtml(t, n, f, TRUE)) /\ SoundTree(InsertHtml(t, n, f, FALSE))
    BY InsertEdits DEF Edited
<1> HIDE DEF N, s
<1>5. Len(s) \in Nat /\ DOMAIN s = 1 .. Len(s) /\ (s = <<>> <=> Len(s) = 0)
    BY <1>2
<1>6. Before(t, n, b) /\ PlaceOf(s, b) - 1 = 0
    <2>1. CASE s = <<>>
        BY <2>1, <1>5 DEF Before, PlaceOf
    <2>2. CASE s # <<>>
        <3>1. b = s[1] /\ 1 \in 1 .. Len(s)
            BY <2>2, <1>2, <1>5
        <3> HIDE DEF b
        <3>2. b \in 1 .. N /\ t[b].parent = n /\ b # 0
            BY <3>1, <1>2 DEF Listing
        <3>3. \A i \in DOMAIN s : s[i] = b => i = 1
            BY <3>1, <1>2, <1>5 DEF Listing
        <3>4. PlaceOf(s, b) = 1
            BY <3>1, <3>2, <3>3, <1>5 DEF PlaceOf
        <3> QED
            BY <3>2, <3>4, <1>1 DEF Before
    <2> QED
        BY <2>1, <2>2
<1>7. Before(t, n, 0) /\ PlaceOf(s, 0) - 1 = Len(s)
    BY <1>5 DEF Before, PlaceOf
<1> HIDE DEF b
<1>8. /\ Content(Graft(t, n, f, b), n) = Content(f, Root) \o Content(t, n)
      /\ \A m \in 1 .. N : m # n => Graft(t, n, f, b)[m].kids = t[m].kids
    <2>1. Placed(Graft(t, n, f, b), t, n, f, PlaceOf(t[n].kids, b) - 1, N)
        BY <1>1, <1>6, GraftShapes
    <2> QED
        BY <2>1, <1>6 DEF Placed, s
<1>9. /\ Content(Graft(t, n, f, 0), n) = Content(t, n) \o Content(f, Root)
      /\ \A m \in 1 .. N : m # n => Graft(t, n, f, 0)[m].kids = t[m].kids
    <2>1. Placed(Graft(t, n, f, 0), t, n, f, PlaceOf(t[n].kids, 0) - 1, N)
        BY <1>1, <1>7, GraftShapes
    <2> QED
        BY <2>1, <1>7 DEF Placed, s
<1> QED
    BY <1>1, <1>3, <1>4, <1>8, <1>9 DEF Holding

LEMMA SetHtmlPlaces ==
    ASSUME NEW t, SoundTree(t), NEW n \in DOMAIN t, NEW f, SoundTree(f), Ordered(f)
    PROVE  Holding(t, n, SetHtml(t, n, f), Content(f, Root))
<1> DEFINE N == Len(t)
           u == DetachChildren(t, n)
           v == Graft(u, n, f, 0)
<1>1. Plain(t, N) /\ DOMAIN t = 1 .. N /\ n \in 1 .. N /\ Len(t) = N
    BY SoundIsPlain
<1>2. SetHtml(t, n, f) = v /\ SoundTree(v)
    BY HtmlEdits DEF Edited, SetHtml
<1> HIDE DEF N
<1>3. Plain(u, N)
    BY <1>1, ChildrenSound
<1>4. u[n].kids = <<>> /\ \A m \in 1 .. N : m # n => u[m].kids = t[m].kids
    BY <1>1, ChildrenDetached
<1> HIDE DEF u
<1>5. Before(u, n, 0) /\ PlaceOf(u[n].kids, 0) - 1 = 0
    BY <1>4 DEF Before, PlaceOf
<1>6. /\ Content(v, n) = Content(f, Root) \o Content(u, n)
      /\ \A m \in 1 .. N : m # n => v[m].kids = u[m].kids
    <2>1. Placed(v, u, n, f, PlaceOf(u[n].kids, 0) - 1, N)
        BY <1>1, <1>3, <1>5, GraftShapes
    <2> QED
        BY <2>1, <1>5 DEF Placed
<1>7. Content(u, n) = <<>>
    BY <1>1, <1>3, <1>4, NoContent
<1> HIDE DEF v
<1>8. Content(v, n) = Content(f, Root)
    BY <1>6, <1>7, ContentOfFragment
<1> QED
    BY <1>1, <1>2, <1>4, <1>6, <1>8 DEF Holding

LEMMA SetTextPlaces ==
    ASSUME NEW t, SoundTree(t), NEW n \in DOMAIN t, NEW word
    PROVE  Holding(t, n, SetText(t, n, word), <<<<"text", word, NoAttrs, NoAttrs, <<>>>>>>)
<1> DEFINE N == Len(t)
           u == DetachChildren(t, n)
           x == [kind |-> "text", name |-> word, given |-> NoAttrs, put |-> NoAttrs,
                 parent |-> 0, kids |-> <<>>]
           v == Put(u, n, x, 0)
           e == N + 1
           q == Seqs!InsertAt(<<>>, 1, e)
<1>1. Plain(t, N) /\ DOMAIN t = 1 .. N /\ n \in 1 .. N /\ Len(t) = N /\ N \in Nat
    BY SoundIsPlain DEF Plain
<1>2. SetText(t, n, word) = v /\ SoundTree(v)
    BY TextEdits DEF Edited, SetText
<1> HIDE DEF N
<1>3. Plain(u, N)
    BY <1>1, ChildrenSound
<1>4. u[n].kids = <<>> /\ \A m \in 1 .. N : m # n => u[m].kids = t[m].kids
    BY <1>1, ChildrenDetached
<1> HIDE DEF u
<1>5. SoundTree(u) /\ DOMAIN u = 1 .. N /\ Len(u) = N
    BY <1>3, PlainIsSound
<1>6. IsNode(x) /\ x.kind \in Kinds
    BY DEF IsNode, Kinds
<1>7. Before(u, n, 0) /\ PlaceOf(<<>>, 0) = 1
    BY DEF Before, PlaceOf
<1>8. /\ x.kind = "text" /\ x.name = word /\ x.given = NoAttrs /\ x.put = NoAttrs
    OBVIOUS
<1> HIDE DEF x
<1>9. WithNode(v, u, n, x, 0, e)
    BY <1>1, <1>5, <1>6, <1>7, PutThere
<1>10. Plain(v, e)
    BY <1>1, <1>3, <1>5, <1>6, <1>7, PutSound
<1> HIDE DEF v
<1>11. /\ Same(v[e], x) /\ v[e].kids = <<>> /\ v[n].kids = q
       /\ \A m \in 1 .. N : m # n => v[m].kids = u[m].kids
    BY <1>4, <1>5, <1>7, <1>9 DEF WithNode
<1>12. e \in 1 .. e /\ n \in 1 .. e /\ e \in Nat
    BY <1>1
<1>13. q = <<e>>
    <2>1. <<>> \in Seq(Nat) /\ 1 \in 1 .. Len(<<>>) + 1 /\ e \in Nat
        BY <1>12
    <2> HIDE DEF e
    <2>2. Inserted(Seqs!InsertAt(<<>>, 1, e), <<>>, 1, e, Nat)
        BY <2>1, InsertAtInserts
    <2> HIDE DEF q
    <2>3. Inserted(q, <<>>, 1, e, Nat)
        BY <2>2 DEF q
    <2>4. q \in Seq(Nat) /\ Len(q) = 1 /\ q[1] = e
        BY <2>3 DEF Inserted
    <2> QED
        BY <2>4
<1> HIDE DEF q, e
<1>14. Shape(v, e) = <<"text", word, NoAttrs, NoAttrs, <<>>>>
    <2>1. Shape(v, e) = <<v[e].kind, v[e].name, v[e].given, v[e].put, Parts(v, e)>>
        BY <1>10, <1>12, ShapeUnfolds
    <2>2. Parts(v, e) = <<>>
        BY <1>10, <1>11, <1>12, NoContent
    <2> QED
        BY <2>1, <2>2, <1>8, <1>11 DEF Same
<1>15. Content(v, n) = <<Shape(v, e)>>
    <2>1. Content(v, n) = Parts(v, n)
        BY <1>10, <1>12, ShapeUnfolds
    <2>2. Parts(v, n) = [i \in 1 .. 1 |-> Shape(v, e)]
        BY <1>11, <1>13 DEF Parts
    <2> DEFINE y == Shape(v, e)
    <2> HIDE DEF y
    <2>3. [i \in 1 .. 1 |-> y] = <<y>>
        OBVIOUS
    <2> QED
        BY <2>1, <2>2, <2>3 DEF y
<1> QED
    BY <1>1, <1>2, <1>4, <1>11, <1>14, <1>15 DEF Holding

-----------------------------------------------------------------------------
(* The state.                                                              *)

(* What a descriptor may hold, when the documents are ds.                  *)
Holds(v, ds) ==
    v.kind # "Bytes" =>
        /\ v.doc \in DOMAIN ds /\ v.nodes \in Seq(DOMAIN ds[v.doc])
        /\ v.kind # "HtmlNodeList" => v.nodes # <<>>

IsStore(st) == st = [storage |-> st.storage, next |-> st.next] /\ WellNumbered(st)

HtmlInv ==
    /\ Len(docs) \in Nat /\ OnNodes(docs, Len(docs))
    /\ \A k \in DOMAIN docs : SoundTree(docs[k])
    /\ IsStore(store)
    /\ \A d \in Live(store) : Holds(store.storage[d], docs)
    /\ left \in 0 .. MaxEdits /\ panicked \in BOOLEAN

LEMMA InvGivesTypes == HtmlInv => HtmlTypeOK
<1> SUFFICES ASSUME HtmlInv PROVE HtmlTypeOK
    OBVIOUS
<1>1. ASSUME NEW d \in Handles
      PROVE  /\ store.storage[d].doc \in DOMAIN docs
             /\ ContextRoots(d) \in Seq(DOMAIN Tree(d))
             /\ d \notin Lists => HasNode(d)
    <2>1. d \in Live(store) /\ store.storage[d].kind # "Bytes"
        BY DEF Handles
    <2>2. Holds(store.storage[d], docs)
        BY <2>1 DEF HtmlInv
    <2> QED
        BY <2>1, <2>2 DEF Holds, Lists, KindAt, ContextRoots, Tree, HasNode
<1> QED
    BY <1>1 DEF HtmlInv, HtmlTypeOK, IsStore

LEMMA InitInv == Init => HtmlInv
<1> SUFFICES ASSUME Init PROVE HtmlInv
    OBVIOUS
<1>1. docs = <<>> /\ Len(docs) = 0 /\ DOMAIN docs = {} /\ OnNodes(docs, 0)
    BY DEF Init, OnNodes
<1>2. IsStore(store) /\ Live(store) = {}
    BY DEF Init, EmptyStore, IsStore, WellNumbered, Live
<1>3. left \in 0 .. MaxEdits /\ panicked \in BOOLEAN
    <2>1. MaxEdits \in 0 .. MaxEdits
        BY HtmlAssumption
    <2> QED
        BY <2>1 DEF Init
<1> QED
    BY <1>1, <1>2, <1>3 DEF HtmlInv

LEMMA StoreAdds ==
    ASSUME NEW st, IsStore(st), NEW v
    PROVE  LET u == StoreValue(st, v) IN
           /\ IsStore(u) /\ Live(u) = Live(st) \cup {st.next}
           /\ \A d \in Live(u) : u.storage[d] = v \/ (d \in Live(st) /\ u.storage[d] = st.storage[d])
<1> DEFINE f == [x \in Live(st) \cup {st.next} |-> IF x = st.next THEN v ELSE st.storage[x]]
<1>1. StoreValue(st, v) = [storage |-> f, next |-> st.next + 1]
    <2> DEFINE u == SetAt(st, st.next, v)
    <2>1. u = [storage |-> u.storage, next |-> u.next] /\ u.storage = f
        BY DEF IsStore, SetAt, Live
    <2>2. StoreValue(st, v) = [u EXCEPT !.next = st.next + 1]
        BY DEF StoreValue
    <2> HIDE DEF u, f
    <2> QED
        BY <2>1, <2>2
<1> HIDE DEF f
<1>2. Live(StoreValue(st, v)) = Live(st) \cup {st.next}
    BY <1>1 DEF Live, f
<1>3. /\ st.next \in Nat \ {0} /\ st.next + 1 \in Nat \ {0}
      /\ \A d \in Live(st) : d \in 1 .. st.next - 1
    BY DEF IsStore, WellNumbered
<1>4. \A d \in Live(st) \cup {st.next} : d \in 1 .. (st.next + 1) - 1
    BY <1>3
<1>5. IsStore(StoreValue(st, v))
    BY <1>1, <1>2, <1>3, <1>4 DEF IsStore, WellNumbered
<1>6. \A d \in Live(st) \cup {st.next} : f[d] = v \/ (d \in Live(st) /\ f[d] = st.storage[d])
    BY DEF f
<1> QED
    BY <1>1, <1>2, <1>5, <1>6

LEMMA RemoveTakes ==
    ASSUME NEW st, IsStore(st), NEW d
    PROVE  LET u == Remove(st, d) IN
           /\ IsStore(u) /\ Live(u) = Live(st) \ {d}
           /\ \A x \in Live(u) : u.storage[x] = st.storage[x]
<1>1. Live(Remove(st, d)) = Live(st) \ {d}
    BY DEF Remove, Live
<1>2. \A x \in Live(st) \ {d} : Remove(st, d).storage[x] = st.storage[x]
    BY DEF Remove
<1>3. IsStore(Remove(st, d))
    BY DEF IsStore, Remove, Live, WellNumbered
<1> QED
    BY <1>1, <1>2, <1>3

(* Every import that hands over a descriptor of something that is there.   *)
LEMMA GiveKeeps ==
    ASSUME HtmlInv, NEW v, Holds(v, docs), Give(v)
    PROVE  HtmlInv' /\ UNCHANGED docs
<1>1. store' = StoreValue(store, v) /\ UNCHANGED <<docs, left, panicked>> /\ IsStore(store)
    BY DEF Give, HtmlInv
<1>2. /\ IsStore(store')
      /\ \A d \in Live(store') :
            \/ store'.storage[d] = v
            \/ d \in Live(store) /\ store'.storage[d] = store.storage[d]
    BY <1>1, StoreAdds
<1>3. \A d \in Live(store') : Holds(store'.storage[d], docs)
    BY <1>2 DEF HtmlInv
<1> QED
    BY <1>1, <1>2, <1>3 DEF HtmlInv

(* What a descriptor that is no bytes stands for.                          *)
LEMMA HandleFacts ==
    ASSUME HtmlInv, NEW d \in Handles
    PROVE  /\ store.storage[d].doc \in DOMAIN docs /\ SoundTree(Tree(d))
           /\ ContextRoots(d) \in Seq(DOMAIN Tree(d))
           /\ HasNode(d) => NodeOf(d) \in DOMAIN Tree(d)
           /\ d \notin Lists => HasNode(d)
<1>1. /\ store.storage[d].doc \in DOMAIN docs /\ ContextRoots(d) \in Seq(DOMAIN Tree(d))
      /\ d \notin Lists => HasNode(d)
    BY InvGivesTypes DEF HtmlTypeOK
<1>2. SoundTree(Tree(d))
    BY <1>1 DEF HtmlInv, Tree
<1>3. HasNode(d) => NodeOf(d) \in DOMAIN Tree(d)
    <2> DEFINE s == ContextRoots(d)
               S == DOMAIN Tree(d)
    <2> HIDE DEF s, S
    <2>1. s \in Seq(S)
        BY <1>1 DEF s, S
    <2>2. s # <<>> => s[1] \in S
        BY <2>1
    <2> QED
        BY <2>2 DEF s, S, HasNode, NodeOf
<1> QED
    BY <1>1, <1>2, <1>3

LEMMA NodeGiven ==
    ASSUME HtmlInv, NEW d \in Handles, NEW n \in DOMAIN Tree(d), GiveNode(d, n)
    PROVE  HtmlInv' /\ UNCHANGED docs
<1> DEFINE v == Handle("HtmlNode", store.storage[d].doc, <<n>>)
<1>1. v.doc = store.storage[d].doc /\ v.nodes = <<n>>
    BY DEF Handle
<1>2. store.storage[d].doc \in DOMAIN docs /\ Tree(d) = docs[store.storage[d].doc]
    BY HandleFacts DEF Tree
<1> DEFINE S == DOMAIN Tree(d)
<1>3. n \in S
    OBVIOUS
<1> HIDE DEF v, S
<1>4. <<n>> \in Seq(S) /\ <<n>> # <<>>
    BY <1>3
<1>5. Holds(v, docs)
    BY <1>1, <1>2, <1>4 DEF Holds, S
<1> QED
    BY <1>5, GiveKeeps DEF GiveNode, v

LEMMA ListGiven ==
    ASSUME HtmlInv, NEW d \in Handles, NEW s \in Seq(DOMAIN Tree(d)), GiveList(d, s)
    PROVE  HtmlInv' /\ UNCHANGED docs
<1> DEFINE v == Handle("HtmlNodeList", store.storage[d].doc, s)
<1>1. v.kind = "HtmlNodeList" /\ v.doc = store.storage[d].doc /\ v.nodes = s
    BY DEF Handle
<1>2. v.doc \in DOMAIN docs /\ v.nodes \in Seq(DOMAIN docs[v.doc])
    BY <1>1, HandleFacts DEF Tree
<1> HIDE DEF v
<1>3. Holds(v, docs)
    BY <1>1, <1>2 DEF Holds
<1> QED
    BY <1>3, GiveKeeps DEF GiveList, v

(* Moving about gives nodes of the tree one stands in.                     *)
LEMMA MoveKeeps ==
    ASSUME HtmlInv, NEW d \in Handles, Move(d)
    PROVE  HtmlInv' /\ UNCHANGED docs
<1> DEFINE t == Tree(d)
           n == NodeOf(d)
           roots == ContextRoots(d)
           S == DOMAIN t
<1>1. /\ SoundTree(t) /\ roots \in Seq(S)
      /\ HasNode(d) => n \in S
      /\ d \notin Lists => HasNode(d)
    BY HandleFacts
<1>2. \A s \in Seq(S) : s # <<>> => s[1] \in S
    OBVIOUS
<1>3. CASE ChildNodes(d)
    <2>1. n \in S /\ GiveList(d, t[n].kids)
        BY <1>1, <1>3 DEF ChildNodes
    <2>2. t[n].kids \in Seq(S)
        BY <1>1, <2>1, SoundFacts
    <2> QED
        BY <2>1, <2>2, ListGiven
<1>4. CASE Children(d)
    BY <1>1, <1>4, ChildrenWithin, ListGiven DEF Children
<1>5. CASE Parent(d)
    <2>1. n \in S /\ t[n].parent # 0 /\ GiveNode(d, t[n].parent)
        BY <1>1, <1>5 DEF Parent
    <2>2. t[n].parent \in S
        BY <1>1, <2>1, SoundFacts
    <2> QED
        BY <2>1, <2>2, NodeGiven
<1>6. CASE Siblings(d)
    <2> DEFINE s == Seqs!RemoveAt(t[t[n].parent].kids, Position(t, n))
    <2>1. n \in S /\ t[n].parent # 0 /\ GiveList(d, Elements(t, s))
        BY <1>1, <1>6 DEF Siblings
    <2>2. s \in Seq(S)
        BY <1>1, <2>1, SiblingsWithin
    <2> HIDE DEF s
    <2>3. Elements(t, s) \in Seq(S)
        BY <2>2, ElementsWithin
    <2> QED
        BY <2>1, <2>3, ListGiven
<1>7. CASE NextOrPrevious(d)
    <2>1. PICK side \in {Following(t, n), Preceding(t, n)} :
             Elements(t, side) # <<>> /\ GiveNode(d, Elements(t, side)[1])
        BY <1>7 DEF NextOrPrevious
    <2>2. n \in S
        BY <1>1, <1>7 DEF NextOrPrevious
    <2>3. side \in Seq(S)
        BY <1>1, <2>1, <2>2, SidesWithin
    <2>4. Elements(t, side) \in Seq(S)
        BY <2>3, ElementsWithin
    <2>5. Elements(t, side)[1] \in S
        BY <1>2, <2>1, <2>4
    <2> QED
        BY <2>1, <2>5, NodeGiven
<1>8. CASE \E i \in 0 .. 3 : GetItem(d, i)
    <2>1. PICK i \in 0 .. 3 : GetItem(d, i)
        BY <1>8
    <2>2. i \in 0 .. Len(roots) - 1 /\ GiveNode(d, roots[i + 1])
        BY <2>1 DEF GetItem
    <2> HIDE DEF roots, S
    <2>3. Len(roots) \in Nat /\ \A j \in 1 .. Len(roots) : roots[j] \in S
        BY <1>1, ElementOfSeq
    <2>4. roots[i + 1] \in S
        BY <2>2, <2>3
    <2> QED
        BY <2>2, <2>4, NodeGiven DEF S
<1>9. CASE \E query \in Queries : SelectList(d, query) \/ SelectFirst(d, query)
    <2>1. PICK query \in Queries : SelectList(d, query) \/ SelectFirst(d, query)
        BY <1>9
    <2> DEFINE found == SelectAll(t, roots, query)
    <2>2. found \in Seq(S)
        BY <1>1, SelectedWithin
    <2>3. CASE SelectList(d, query)
        BY <2>2, <2>3, ListGiven DEF SelectList
    <2>4. CASE SelectFirst(d, query)
        <3>1. found # <<>> /\ GiveNode(d, found[1])
            BY <2>4 DEF SelectFirst
        <3> HIDE DEF found
        <3>2. found[1] \in S
            BY <1>2, <2>2, <3>1
        <3> QED
            BY <3>1, <3>2, NodeGiven
    <2> QED
        BY <2>1, <2>3, <2>4
<1> QED
    BY <1>3, <1>4, <1>5, <1>6, <1>7, <1>8, <1>9 DEF Move

(* An edit of the document of a descriptor.                                *)
LEMMA EditKeeps ==
    ASSUME HtmlInv, NEW d \in Handles, NEW u, Edited(Tree(d), u), Edit(d, u)
    PROVE  HtmlInv' /\ \A k \in DOMAIN docs : StaysPut(docs[k], docs'[k])
<1> DEFINE c == store.storage[d].doc
<1>1. /\ c \in DOMAIN docs /\ Tree(d) = docs[c]
      /\ docs' = [docs EXCEPT ![c] = u]
      /\ left > 0 /\ left' = left - 1 /\ UNCHANGED <<store, panicked>>
    BY HandleFacts DEF Edit, Tree
<1>2. /\ Len(docs) \in Nat /\ docs = [k \in 1 .. Len(docs) |-> docs[k]]
      /\ left \in 0 .. MaxEdits /\ panicked \in BOOLEAN
      /\ \A k \in DOMAIN docs : SoundTree(docs[k])
    BY DEF HtmlInv, OnNodes
<1> DEFINE L == Len(docs)
<1> HIDE DEF c, L
<1>3. L \in Nat /\ DOMAIN docs = 1 .. L /\ docs = [k \in 1 .. L |-> docs[k]]
    BY <1>2 DEF L
<1>4. docs' = [k \in 1 .. L |-> IF k = c THEN u ELSE docs[k]]
    BY <1>1, <1>3
<1>5. OnNodes(docs', L)
    BY <1>4 DEF OnNodes
<1>6. Len(docs') = L /\ DOMAIN docs' = 1 .. L
    BY <1>3, <1>5, Numbered
<1>7. \A k \in 1 .. L : Edited(docs[k], docs'[k])
    BY <1>1, <1>2, <1>3, <1>4, UneditedTree
<1>8. \A k \in 1 .. L : SoundTree(docs'[k]) /\ StaysPut(docs[k], docs'[k])
    BY <1>7 DEF Edited
<1>9. ASSUME NEW v, Holds(v, docs) PROVE Holds(v, docs')
    <2> SUFFICES ASSUME v.kind # "Bytes" PROVE Holds(v, docs')
        BY DEF Holds
    <2>1. v.doc \in 1 .. L /\ v.nodes \in Seq(DOMAIN docs[v.doc])
        BY <1>3, <1>9 DEF Holds
    <2>2. DOMAIN docs[v.doc] \subseteq DOMAIN docs'[v.doc]
        <3> DEFINE t == docs[v.doc]
                   w == docs'[v.doc]
        <3>1. SoundTree(t) /\ Edited(t, w)
            BY <1>2, <1>3, <1>7, <2>1
        <3> HIDE DEF t, w
        <3>2. DOMAIN t = 1 .. Len(t) /\ DOMAIN w = 1 .. Len(w)
            BY <3>1, SoundFacts DEF Edited
        <3>3. Len(t) \in Nat /\ Len(w) \in Nat /\ Len(t) <= Len(w)
            BY <3>1 DEF Edited
        <3>4. DOMAIN t \subseteq DOMAIN w
            BY <3>2, <3>3
        <3> QED
            BY <3>4 DEF t, w
    <2>3. v.nodes \in Seq(DOMAIN docs'[v.doc])
        BY <2>1, <2>2, SeqMonotonic
    <2> QED
        BY <1>6, <1>9, <2>1, <2>3 DEF Holds
<1>10. HtmlInv'
    <2>1. \A x \in Live(store) : Holds(store.storage[x], docs')
        BY <1>9 DEF HtmlInv
    <2>2. left - 1 \in 0 .. MaxEdits
        BY <1>1, <1>2, HtmlAssumption
    <2> QED
        BY <1>1, <1>2, <1>3, <1>5, <1>6, <1>8, <2>1, <2>2 DEF HtmlInv
<1> QED
    BY <1>3, <1>8, <1>10

LEMMA EditAtKeeps ==
    ASSUME HtmlInv, NEW d \in Handles, EditAt(d)
    PROVE  HtmlInv' /\ \A k \in DOMAIN docs : StaysPut(docs[k], docs'[k])
<1> DEFINE t == Tree(d)
           n == NodeOf(d)
<1>1. SoundTree(t) /\ (HasNode(d) => n \in DOMAIN t)
    BY HandleFacts
<1>2. CASE RemoveNode(d)
    BY <1>1, <1>2, RemoveEdits, EditKeeps DEF RemoveNode
<1>3. CASE SetNodeText(d, "new")
    BY <1>1, <1>3, TextEdits, EditKeeps DEF SetNodeText
<1>4. CASE \E f \in Fragments :
             SetNodeHtml(d, f) \/ \E prepend \in BOOLEAN : InsertNodeHtml(d, f, prepend)
    <2>1. PICK f \in Fragments :
             SetNodeHtml(d, f) \/ \E prepend \in BOOLEAN : InsertNodeHtml(d, f, prepend)
        BY <1>4
    <2>2. SoundTree(f) /\ Ordered(f)
        BY ParserAssumption
    <2>3. CASE SetNodeHtml(d, f)
        BY <1>1, <2>2, <2>3, HtmlEdits, EditKeeps DEF SetNodeHtml
    <2>4. CASE \E prepend \in BOOLEAN : InsertNodeHtml(d, f, prepend)
        BY <1>1, <2>2, <2>4, InsertEdits, EditKeeps DEF InsertNodeHtml
    <2> QED
        BY <2>1, <2>3, <2>4
<1>5. CASE \E a \in AttrNames : ChangeAttr(d, a)
    BY <1>1, <1>5, AttrEdits, EditKeeps DEF ChangeAttr
<1> QED
    BY <1>2, <1>3, <1>4, <1>5 DEF EditAt

LEMMA StoreDocumentKeeps ==
    ASSUME HtmlInv, NEW page \in Pages, StoreDocument(page)
    PROVE  HtmlInv' /\ \A k \in DOMAIN docs : docs'[k] = docs[k]
<1> DEFINE L == Len(docs)
           v == Handle("HtmlDocRoot", L + 1, <<Root>>)
<1>1. /\ L \in Nat /\ docs = [k \in 1 .. L |-> docs[k]]
      /\ \A k \in DOMAIN docs : SoundTree(docs[k])
      /\ IsStore(store) /\ left \in 0 .. MaxEdits /\ panicked \in BOOLEAN
    BY DEF HtmlInv, OnNodes
<1>2. /\ docs' = Append(docs, page) /\ store' = StoreValue(store, v)
      /\ UNCHANGED <<left, panicked>>
    BY DEF StoreDocument
<1>3. v.doc = L + 1 /\ v.nodes = <<Root>>
    BY DEF Handle
<1> HIDE DEF L, v
<1>4. /\ DOMAIN docs = 1 .. L /\ DOMAIN docs' = 1 .. L + 1 /\ Len(docs') = L + 1
      /\ OnNodes(docs', L + 1)
      /\ docs'[L + 1] = page /\ \A k \in 1 .. L : docs'[k] = docs[k]
    <2> DEFINE D == {docs[k] : k \in 1 .. L} \cup {page}
    <2>1. docs \in Seq(D) /\ page \in D
        BY <1>1
    <2>2. Len(docs) = L
        BY DEF L
    <2> HIDE DEF D
    <2>3. /\ docs' \in Seq(D) /\ Len(docs') = L + 1
          /\ \A i \in 1 .. L : docs'[i] = docs[i]
          /\ docs'[L + 1] = page
        BY <1>2, <2>1, <2>2, AppendProperties
    <2>4. DOMAIN docs' = 1 .. L + 1 /\ docs' = [k \in 1 .. L + 1 |-> docs'[k]]
        BY <2>3
    <2> QED
        BY <1>1, <2>3, <2>4 DEF OnNodes
<1>5. SoundTree(page)
    BY ParserAssumption
<1>6. \A k \in 1 .. L + 1 : SoundTree(docs'[k])
    <2>1. \A k \in 1 .. L + 1 : k \in 1 .. L \/ k = L + 1
        BY <1>1
    <2> QED
        BY <1>1, <1>4, <1>5, <2>1
<1>7. Holds(v, docs')
    <2>1. v.doc \in DOMAIN docs' /\ docs'[v.doc] = page
        BY <1>1, <1>3, <1>4
    <2> DEFINE S == DOMAIN page
    <2>2. Root \in S
        BY <1>5, SoundFacts DEF Root
    <2> HIDE DEF S
    <2>3. <<Root>> \in Seq(S) /\ <<Root>> # <<>>
        BY <2>2
    <2> QED
        BY <1>3, <2>1, <2>3 DEF Holds, S
<1>8. ASSUME NEW w, Holds(w, docs) PROVE Holds(w, docs')
    <2>1. \A k \in 1 .. L : k \in 1 .. L + 1
        BY <1>1
    <2> QED
        BY <1>4, <1>8, <2>1 DEF Holds
<1>9. /\ IsStore(store')
      /\ \A d \in Live(store') :
            \/ store'.storage[d] = v
            \/ d \in Live(store) /\ store'.storage[d] = store.storage[d]
    BY <1>1, <1>2, StoreAdds
<1>10. \A d \in Live(store') : Holds(store'.storage[d], docs')
    BY <1>7, <1>8, <1>9 DEF HtmlInv
<1>11. L + 1 \in Nat
    BY <1>1
<1>12. HtmlInv'
    BY <1>1, <1>2, <1>4, <1>6, <1>9, <1>10, <1>11 DEF HtmlInv
<1> QED
    BY <1>4, <1>12

LEMMA StepKeeps ==
    ASSUME HtmlInv, [Next]_vars
    PROVE  HtmlInv' /\ \A k \in DOMAIN docs : StaysPut(docs[k], docs'[k])
<1>1. \A k \in DOMAIN docs : StaysPut(docs[k], docs[k])
    BY UneditedTree DEF HtmlInv, Edited
<1>2. ASSUME NEW page \in Pages, StoreDocument(page)
      PROVE  HtmlInv' /\ \A k \in DOMAIN docs : StaysPut(docs[k], docs'[k])
    BY <1>1, <1>2, StoreDocumentKeeps
<1>3. ASSUME NEW d \in Handles, Move(d)
      PROVE  HtmlInv' /\ \A k \in DOMAIN docs : StaysPut(docs[k], docs'[k])
    BY <1>1, <1>3, MoveKeeps
<1>4. ASSUME NEW d \in Handles, EditAt(d)
      PROVE  HtmlInv' /\ \A k \in DOMAIN docs : StaysPut(docs[k], docs'[k])
    BY <1>4, EditAtKeeps
<1>5. ASSUME NEW d \in Handles, TextPanics(d)
      PROVE  HtmlInv' /\ \A k \in DOMAIN docs : StaysPut(docs[k], docs'[k])
    BY <1>1, <1>5 DEF TextPanics, HtmlInv
<1>6. ASSUME NEW d \in Handles, NEW fn \in Readers, Read(fn, d)
      PROVE  HtmlInv' /\ \A k \in DOMAIN docs : StaysPut(docs[k], docs'[k])
    <2>1. Give(Bytes) /\ Holds(Bytes, docs)
        BY <1>6 DEF Read, Bytes, Handle, Holds
    <2> QED
        BY <1>1, <2>1, GiveKeeps
<1>7. ASSUME NEW d \in Live(store), DestroyHandle(d)
      PROVE  HtmlInv' /\ \A k \in DOMAIN docs : StaysPut(docs[k], docs'[k])
    <2>1. store' = Remove(store, d) /\ UNCHANGED <<docs, left, panicked>>
        BY <1>7 DEF DestroyHandle
    <2>2. /\ IsStore(store') /\ Live(store') = Live(store) \ {d}
          /\ \A x \in Live(store') : store'.storage[x] = store.storage[x]
        BY <2>1, RemoveTakes DEF HtmlInv
    <2>3. HtmlInv'
        BY <2>1, <2>2 DEF HtmlInv
    <2> QED
        BY <1>1, <2>1, <2>3
<1>8. CASE UNCHANGED vars
    BY <1>1, <1>8 DEF vars, HtmlInv
<1> QED
    BY <1>2, <1>3, <1>4, <1>5, <1>6, <1>7, <1>8 DEF Next

LEMMA AlwaysHtmlInv == Spec => []HtmlInv
<1>1. Init => HtmlInv
    BY InitInv
<1>2. HtmlInv /\ [Next]_vars => HtmlInv'
    BY StepKeeps
<1> QED
    BY <1>1, <1>2, PTL DEF Spec

(* Every tree stays a tree through every edit, and what the guest holds    *)
(* names nodes that exist, for any pages and fragments the parser returns, *)
(* any queries and selector engine, and any number of imports.             *)
THEOREM HtmlTyped == Spec => []HtmlTypeOK
BY AlwaysHtmlInv, InvGivesTypes, PTL

(* No edit moves a node, as NodesStayPut says.                             *)
THEOREM EditsMoveNothing == Spec => NodesStayPut
<1> DEFINE Unmoved == \A k \in DOMAIN docs : StaysPut(docs[k], docs'[k])
<1>1. HtmlInv /\ [Next]_vars => [Unmoved]_vars
    BY StepKeeps
<1>2. [][Unmoved]_vars => NodesStayPut
    BY PTL DEF NodesStayPut
<1> QED
    BY <1>1, <1>2, AlwaysHtmlInv, PTL DEF Spec

(* What a descriptor names is a node of the document.                      *)
LEMMA HeldIsThere ==
    ASSUME HtmlInv, NEW k \in DOMAIN docs, NEW n \in Held(k)
    PROVE  n \in DOMAIN docs[k]
<1>1. PICK d \in Handles : /\ store.storage[d].doc = k
                           /\ \E i \in DOMAIN ContextRoots(d) : n = ContextRoots(d)[i]
    BY DEF Held
<1>2. ContextRoots(d) \in Seq(DOMAIN docs[k])
    BY <1>1, InvGivesTypes DEF HtmlTypeOK, Tree
<1>3. PICK i \in DOMAIN ContextRoots(d) : n = ContextRoots(d)[i]
    BY <1>1
<1> DEFINE s == ContextRoots(d)
           S == DOMAIN docs[k]
<1>4. s \in Seq(S) /\ i \in DOMAIN s /\ n = s[i]
    BY <1>2, <1>3
<1> HIDE DEF s, S
<1>5. n \in S
    BY <1>4
<1> QED
    BY <1>5 DEF S

(* Whatever node the guest holds, an edit places the fragment as a whole   *)
(* among its children and nowhere else, for any document and any fragment, *)
(* of any size (append_clone, insert_html, set_html, set_text).            *)
THEOREM FragmentsPlaced == Spec => []EditsPlaceFragment
<1>1. HtmlInv => EditsPlaceFragment
    <2> SUFFICES ASSUME HtmlInv, NEW k \in DOMAIN docs, NEW n \in Held(k), NEW f \in Fragments
                 PROVE  LET t == docs[k] IN
                        /\ Holding(t, n, InsertHtml(t, n, f, TRUE), Content(f, Root) \o Content(t, n))
                        /\ Holding(t, n, InsertHtml(t, n, f, FALSE), Content(t, n) \o Content(f, Root))
                        /\ Holding(t, n, SetHtml(t, n, f), Content(f, Root))
                        /\ Holding(t, n, SetText(t, n, "new"),
                                   <<<<"text", "new", NoAttrs, NoAttrs, <<>>>>>>)
        BY DEF EditsPlaceFragment
    <2> DEFINE t == docs[k]
    <2>1. SoundTree(t) /\ n \in DOMAIN t /\ SoundTree(f) /\ Ordered(f)
        BY HeldIsThere, ParserAssumption DEF HtmlInv
    <2> HIDE DEF t
    <2>2. /\ Holding(t, n, InsertHtml(t, n, f, TRUE), Content(f, Root) \o Content(t, n))
          /\ Holding(t, n, InsertHtml(t, n, f, FALSE), Content(t, n) \o Content(f, Root))
        BY <2>1, InsertPlaces
    <2>3. Holding(t, n, SetHtml(t, n, f), Content(f, Root))
        BY <2>1, SetHtmlPlaces
    <2>4. Holding(t, n, SetText(t, n, "new"), <<<<"text", "new", NoAttrs, NoAttrs, <<>>>>>>)
        BY <2>1, SetTextPlaces
    <2> QED
        BY <2>2, <2>3, <2>4 DEF t
<1> QED
    BY <1>1, AlwaysHtmlInv, PTL
=============================================================================
