------------------------------ MODULE HtmlTree ------------------------------
(***************************************************************************)
(* A parsed document as the imports of `html` work on it: an arena of      *)
(* nodes (ego_tree) in which a node keeps its number for ever, also once   *)
(* it is detached.  Node 1 is the root of the document.                    *)
(*                                                                         *)
(* A node is [kind, name, given, put, parent, kids]: `name` is the tag of  *)
(* an element, or what a text or comment says; `given` are its attributes  *)
(* from the parser, which have no namespace and are what attr() looks at;  *)
(* `put` are those written by the imports, which html5ever_qualname puts   *)
(* into the XHTML namespace.                                               *)
(***************************************************************************)
EXTENDS Integers, Sequences
Seqs == INSTANCE SequencesExt

Kinds == {"root", "element", "text", "comment"}
NoAttrs == [n \in {} |-> ""]

IsElement(t, n) == t[n].kind = "element"
Root == 1

(* Those of the nodes that are in S, in their order. *)
Among(nodes, S) ==
    Seqs!FlattenSeq([i \in DOMAIN nodes |-> IF nodes[i] \in S THEN <<nodes[i]>> ELSE <<>>])

Elements(t, nodes) == Among(nodes, {n \in DOMAIN t : IsElement(t, n)})

(* In document order: n and what is below it, and the latter alone. *)
Subtree(t, n) ==
    LET From[m \in DOMAIN t] ==
            <<m>> \o Seqs!FlattenSeq([i \in DOMAIN t[m].kids |-> From[t[m].kids[i]]])
    IN From[n]
Descendants(t, n) == Tail(Subtree(t, n))

(* The siblings on one side of n, nearest first. *)
Position(t, n) == CHOOSE i \in DOMAIN t[t[n].parent].kids : t[t[n].parent].kids[i] = n
Following(t, n) ==
    IF t[n].parent = 0 THEN <<>>
    ELSE SubSeq(t[t[n].parent].kids, Position(t, n) + 1, Len(t[t[n].parent].kids))
Preceding(t, n) ==
    IF t[n].parent = 0 THEN <<>>
    ELSE Seqs!Reverse(SubSeq(t[t[n].parent].kids, 1, Position(t, n) - 1))

-----------------------------------------------------------------------------
IsNode(x) == x = [kind |-> x.kind, name |-> x.name, given |-> x.given, put |-> x.put,
                  parent |-> x.parent, kids |-> x.kids]

(* An arena of nodes in which parents and children agree and no node is    *)
(* listed twice.  As a node is numbered after its parent, nothing is its   *)
(* own ancestor.                                                           *)
Arena(t) ==
    /\ t # <<>> /\ t \in Seq({t[n] : n \in DOMAIN t})
    /\ \A n \in DOMAIN t :
        /\ IsNode(t[n])
        /\ t[n].kind \in Kinds
        /\ t[n].parent \in 0 .. n - 1
        /\ t[n].kids \in Seq(DOMAIN t)

Linked(t) ==
    \A n \in DOMAIN t :
        /\ \A i \in DOMAIN t[n].kids :
             /\ t[t[n].kids[i]].parent = n
             /\ \A j \in DOMAIN t[n].kids : t[n].kids[i] = t[n].kids[j] => i = j
        /\ t[n].parent # 0 => \E i \in DOMAIN t[t[n].parent].kids : t[t[n].parent].kids[i] = n

SoundTree(t) == Arena(t) /\ Linked(t) /\ t[Root].kind = "root"

(* Everything hangs together, and siblings are numbered in their order.    *)
(* The numbers are those of the arena: the guest never sees them.          *)
Ordered(t) ==
    \A n \in DOMAIN t :
        /\ n # Root => t[n].parent # 0
        /\ \A i \in 2 .. Len(t[n].kids) : t[n].kids[i - 1] < t[n].kids[i]

-----------------------------------------------------------------------------
(* Edits *)

(* Bug: the parent keeps the node among its children. *)
Detach_OneSided(t, n) == [t EXCEPT ![n].parent = 0]

(* Bug: the children of the node move up to its parent. *)
Detach_LiftsChildren(t, n) ==
    LET p == t[n].parent IN
    IF p = 0 THEN t
    ELSE [m \in DOMAIN t |->
            CASE m = n -> [t[m] EXCEPT !.parent = 0, !.kids = <<>>]
              [] m = p -> [t[m] EXCEPT !.kids = Seqs!RemoveAt(@, Position(t, n)) \o t[n].kids]
              [] m \notin {n, p} /\ t[m].parent = n -> [t[m] EXCEPT !.parent = p]
              [] OTHER -> t[m]]

(* Detaching a node without a parent does nothing. *)
Detach(t, n) ==
    IF t[n].parent = 0 THEN t
    ELSE [t EXCEPT ![n].parent = 0,
                   ![t[n].parent].kids = Seqs!RemoveAt(@, Position(t, n))]

(* Every child of n is detached. *)
DetachChildren(t, n) ==
    [m \in DOMAIN t |-> [t[m] EXCEPT !.parent = IF @ = n THEN 0 ELSE @,
                                     !.kids = IF m = n THEN <<>> ELSE @]]

(* A new node, as the child of p that comes before the child `before`, or  *)
(* (0) last.                                                               *)
Put(t, p, node, before) ==
    LET kids == t[p].kids
        at == IF before = 0 THEN Len(kids) + 1
              ELSE CHOOSE i \in DOMAIN kids : kids[i] = before
    IN [Append(t, [node EXCEPT !.parent = p, !.kids = <<>>])
            EXCEPT ![p].kids = Seqs!InsertAt(@, at, Len(t) + 1)]

(* Bug: the children of the fragment are copied without what is below.     *)
Graft_Shallow(t, n, f, before) ==
    LET After[m \in 1 .. Len(f)] ==
            IF m = 1 THEN t
            ELSE IF f[m].parent = Root THEN Put(After[m - 1], n, f[m], before)
            ELSE After[m - 1]
    IN After[Len(f)]

(* append_clone for every child of the fragment's root: the nodes below it *)
(* come one after the other, in document order, each put last under the    *)
(* copy of its parent (the copy of m is base + m); the topmost go under n, *)
(* before the child `before`.                                              *)
Graft(t, n, f, before) ==
    LET base == Len(t) - 1
        After[m \in 1 .. Len(f)] ==
            IF m = 1 THEN t
            ELSE IF f[m].parent = Root THEN Put(After[m - 1], n, f[m], before)
            ELSE Put(After[m - 1], base + f[m].parent, f[m], 0)
    IN After[Len(f)]

SetText(t, n, word) ==
    Put(DetachChildren(t, n), n,
        [kind |-> "text", name |-> word, given |-> NoAttrs, put |-> NoAttrs,
         parent |-> 0, kids |-> <<>>], 0)

SetHtml(t, n, fragment) == Graft(DetachChildren(t, n), n, fragment, 0)

(* Everything prepended goes before the child that was first at the start. *)
InsertHtml(t, n, fragment, prepend) ==
    Graft(t, n, fragment, IF prepend /\ t[n].kids # <<>> THEN Head(t[n].kids) ELSE 0)

SetAttr(t, n, name, value) ==
    [t EXCEPT ![n].put = [a \in DOMAIN @ \cup {name} |-> IF a = name THEN value ELSE @[a]]]
RemoveAttr(t, n, name) ==
    [t EXCEPT ![n].put = [a \in DOMAIN @ \ {name} |-> @[a]]]

=============================================================================
