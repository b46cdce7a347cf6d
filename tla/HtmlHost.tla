------------------------------ MODULE HtmlHost ------------------------------
(***************************************************************************)
(* The imports of `html` (host_html.rs): the guest holds descriptors of    *)
(* documents, nodes and node lists, moves from one to the next, selects,   *)
(* and edits the document under them.  A document lives as long as one of  *)
(* its nodes is held, with or without its own descriptor.                  *)
(*                                                                         *)
(* An import that fails returns a negative number and changes nothing: it  *)
(* is no step here.  So are strings that cannot be read from the memory.   *)
(*                                                                         *)
(* Not modelled: escape and unescape, and editing classes (scraper reads   *)
(* the classes and the id of an element once, when first asked for them).  *)
(***************************************************************************)
EXTENDS HtmlTree, DescriptorStore

CONSTANTS Pages,       \* documents the parser can return
          Fragments,   \* fragments it can return (always one html element)
          Queries,     \* selectors, as sequences of tokens
          Reached(_, _, _), \* the nodes to which a query leads from a node
          AttrNames,   \* attributes written by the guest
          MaxDocs, MaxDesc, MaxEdits   \* bounds

VARIABLES docs,      \* the documents parsed so far, each an arena of nodes
          store,     \* the descriptors: [kind, doc, nodes]
          left,      \* edits the guest may still make
          panicked   \* an import has panicked: the thread is gone

vars == <<docs, store, left, panicked>>

ASSUME HtmlAssumption == MaxDocs \in Nat /\ MaxDesc \in Nat /\ MaxEdits \in Nat

(* What the parser returns is a tree, and nothing hangs loose in a fragment. *)
ASSUME ParserAssumption ==
    /\ \A page \in Pages : SoundTree(page)
    /\ \A f \in Fragments : SoundTree(f) /\ Ordered(f)

-----------------------------------------------------------------------------
Handle(kind, k, nodes) == [kind |-> kind, doc |-> k, nodes |-> nodes]
Bytes == Handle("Bytes", 0, <<>>)

Handles == {d \in Live(store) : store.storage[d].kind # "Bytes"}
Lists == {d \in Handles : KindAt(store, d) = "HtmlNodeList"}

Tree(d) == docs[store.storage[d].doc]
ContextRoots(d) == store.storage[d].nodes

(* Most imports work on one node: of a list, on its first. *)
HasNode(d) == ContextRoots(d) # <<>>
NodeOf(d) == ContextRoots(d)[1]

(* An import that hands over a new descriptor ... *)
Give(v) == /\ ~ panicked
           /\ store.next <= MaxDesc
           /\ store' = StoreValue(store, v)
           /\ UNCHANGED <<docs, left, panicked>>
GiveNode(d, n) == Give(Handle("HtmlNode", store.storage[d].doc, <<n>>))
GiveList(d, nodes) == Give(Handle("HtmlNodeList", store.storage[d].doc, nodes))

(* ... and one that edits the document of d. *)
Edit(d, t) == /\ ~ panicked
              /\ left > 0 /\ left' = left - 1
              /\ docs' = [docs EXCEPT ![store.storage[d].doc] = t]
              /\ UNCHANGED <<store, panicked>>

-----------------------------------------------------------------------------
(* parse and parse_fragment, and the html import of net. *)
StoreDocument(page) ==
    /\ ~ panicked
    /\ Len(docs) < MaxDocs /\ store.next <= MaxDesc
    /\ docs' = Append(docs, page)
    /\ store' = StoreValue(store, Handle("HtmlDocRoot", Len(docs) + 1, <<Root>>))
    /\ UNCHANGED <<left, panicked>>

(* Moving about *)
ChildNodes(d) == d \notin Lists /\ GiveList(d, Tree(d)[NodeOf(d)].kids)

ElementChildren(t, roots) == Seqs!FlattenSeq([i \in DOMAIN roots |-> Elements(t, t[roots[i]].kids)])
Children(d) == GiveList(d, ElementChildren(Tree(d), ContextRoots(d)))

(* get; first and last are get at the ends. *)
GetItem(d, index) ==
    /\ d \in Lists
    /\ index \in 0 .. Len(ContextRoots(d)) - 1
    /\ GiveNode(d, ContextRoots(d)[index + 1])

Parent(d) == /\ HasNode(d) /\ Tree(d)[NodeOf(d)].parent # 0
             /\ GiveNode(d, Tree(d)[NodeOf(d)].parent)

Siblings(d) ==
    LET t == Tree(d)
        n == NodeOf(d) IN
    /\ HasNode(d) /\ t[n].parent # 0
    /\ GiveList(d, Elements(t, Seqs!RemoveAt(t[t[n].parent].kids, Position(t, n))))

(* next and previous skip what is not an element. *)
NextOrPrevious(d) ==
    /\ HasNode(d)
    /\ \E side \in {Following(Tree(d), NodeOf(d)), Preceding(Tree(d), NodeOf(d))} :
         /\ Elements(Tree(d), side) # <<>>
         /\ GiveNode(d, Elements(Tree(d), side)[1])

(* What a query leads to below a root, in document order.  The roots of a  *)
(* list are searched one after the other.                                  *)
Found(t, root, query) == Among(Descendants(t, root), Reached(t, root, query))
SelectAll(t, roots, query) == Seqs!FlattenSeq([i \in DOMAIN roots |-> Found(t, roots[i], query)])

SelectList(d, query) == HasNode(d) /\ GiveList(d, SelectAll(Tree(d), ContextRoots(d), query))

SelectFirst(d, query) ==
    LET found == SelectAll(Tree(d), ContextRoots(d), query) IN
    /\ found # <<>>
    /\ GiveNode(d, found[1])

(* Reading gives bytes: the text, the markup, an attribute and so on.  The *)
(* text of a document is that of its html element, which the library       *)
(* expects to be there.                                                    *)
Readers == {"base_uri", "own_text", "data", "id", "tag_name", "class_name",
            "attr", "outer_html", "text", "untrimmed_text", "html"}
Readable(fn, d) ==
    LET node == Tree(d)[NodeOf(d)] IN
    CASE fn = "data" -> HasNode(d) /\ node.kind \in {"element", "comment"}
      [] fn = "attr" -> /\ HasNode(d) /\ KindAt(store, d) # "HtmlDocRoot"
                        /\ DOMAIN node.given # {}
      [] fn = "untrimmed_text" -> KindAt(store, d) # "HtmlDocRoot"
      [] fn \in {"base_uri", "text", "html"} -> TRUE
      [] OTHER -> HasNode(d)

NoHtmlElement(d) == KindAt(store, d) = "HtmlDocRoot" /\ Elements(Tree(d), Tree(d)[Root].kids) = <<>>

Read(fn, d) == Readable(fn, d) /\ ~ (fn = "text" /\ NoHtmlElement(d)) /\ Give(Bytes)

TextPanics(d) ==
    /\ ~ panicked /\ NoHtmlElement(d)
    /\ panicked' = TRUE
    /\ UNCHANGED <<docs, store, left>>

(* Editing *)
RemoveNode(d) == HasNode(d) /\ Edit(d, Detach(Tree(d), NodeOf(d)))
SetNodeText(d, word) == HasNode(d) /\ Edit(d, SetText(Tree(d), NodeOf(d), word))
SetNodeHtml(d, fragment) == HasNode(d) /\ Edit(d, SetHtml(Tree(d), NodeOf(d), fragment))
InsertNodeHtml(d, fragment, prepend) ==
    HasNode(d) /\ Edit(d, InsertHtml(Tree(d), NodeOf(d), fragment, prepend))
ChangeAttr(d, name) ==
    /\ HasNode(d) /\ IsElement(Tree(d), NodeOf(d))
    /\ \/ Edit(d, SetAttr(Tree(d), NodeOf(d), name, "new"))
       \/ Edit(d, RemoveAttr(Tree(d), NodeOf(d), name))

(* std.destroy *)
DestroyHandle(d) == /\ ~ panicked
                    /\ store' = Remove(store, d)
                    /\ UNCHANGED <<docs, left, panicked>>

-----------------------------------------------------------------------------
Init == docs = <<>> /\ store = EmptyStore /\ left = MaxEdits /\ panicked = FALSE

Move(d) ==
    \/ ChildNodes(d) \/ Children(d) \/ Parent(d) \/ Siblings(d) \/ NextOrPrevious(d)
    \/ \E i \in 0 .. 3 : GetItem(d, i)
    \/ \E query \in Queries : SelectList(d, query) \/ SelectFirst(d, query)

EditAt(d) ==
    \/ RemoveNode(d) \/ SetNodeText(d, "new")
    \/ \E f \in Fragments :
         SetNodeHtml(d, f) \/ \E prepend \in BOOLEAN : InsertNodeHtml(d, f, prepend)
    \/ \E a \in AttrNames : ChangeAttr(d, a)

Next ==
    \/ \E page \in Pages : StoreDocument(page)
    \/ \E d \in Handles : Move(d) \/ EditAt(d) \/ TextPanics(d) \/ \E fn \in Readers : Read(fn, d)
    \/ \E d \in Live(store) : DestroyHandle(d)

Spec == Init /\ [][Next]_vars

-----------------------------------------------------------------------------
(* Every tree stays a tree through every edit, and every descriptor the    *)
(* guest still has names nodes that exist: the unwraps of set_text and     *)
(* insert_html (host_html.rs) never panic on a node that was removed, or   *)
(* whose document's own descriptor is gone.                                *)
HtmlTypeOK ==
    /\ \A k \in DOMAIN docs : SoundTree(docs[k])
    /\ WellNumbered(store)
    /\ \A d \in Handles :
        /\ store.storage[d].doc \in DOMAIN docs
        /\ ContextRoots(d) \in Seq(DOMAIN Tree(d))
        /\ d \notin Lists => HasNode(d)
    /\ left \in 0 .. MaxEdits /\ panicked \in BOOLEAN

(* An edit moves no node: one that was there keeps its number, its name    *)
(* and its attributes from the parser, stays under its parent or leaves it *)
(* for good, and siblings keep their order.  So what a descriptor names    *)
(* never becomes something else (set_text, set_html, prepend, append,      *)
(* remove in host_html.rs).                                                *)
StaysPut(t, u) ==
    /\ \A n \in DOMAIN t :
        /\ n \in DOMAIN u
        /\ <<u[n].kind, u[n].name, u[n].given>> = <<t[n].kind, t[n].name, t[n].given>>
        /\ u[n].parent \in {t[n].parent, 0}
        /\ \A i, j \in DOMAIN t[n].kids :
             i < j /\ u[t[n].kids[i]].parent = n /\ u[t[n].kids[j]].parent = n =>
                 \E k, l \in DOMAIN u[n].kids :
                     k < l /\ u[n].kids[k] = t[n].kids[i] /\ u[n].kids[l] = t[n].kids[j]

NodesStayPut == [][\A k \in DOMAIN docs : StaysPut(docs[k], docs'[k])]_vars

(* The nodes of a document that a descriptor names. *)
Held(k) == UNION {{ContextRoots(d)[i] : i \in DOMAIN ContextRoots(d)} :
                    d \in {h \in Handles : store.storage[h].doc = k}}

(* n and what is below it as nested tuples, without the numbers of the nodes. *)
Shape(t, n) ==
    LET Of[m \in DOMAIN t] == <<t[m].kind, t[m].name, t[m].given, t[m].put,
                                [i \in DOMAIN t[m].kids |-> Of[t[m].kids[i]]]>>
    IN Of[n]
Content(t, n) == Shape(t, n)[5]

(* Whatever node of whatever document is edited, its children are          *)
(* afterwards the fragment's content and the old children, in the order    *)
(* asked for, whole and uncut; set_html leaves the fragment's alone; and   *)
(* the fragment goes nowhere else (append_clone, insert_html, set_html).   *)
Holding(t, n, u, content) ==
    /\ SoundTree(u) /\ Content(u, n) = content
    /\ \A m \in DOMAIN t \ {n} : u[m].kids = t[m].kids

EditsPlaceFragment ==
    \A k \in DOMAIN docs : \A n \in Held(k) : \A f \in Fragments :
        LET t == docs[k]
            old == Content(t, n)
            new == Content(f, Root)
        IN /\ Holding(t, n, InsertHtml(t, n, f, TRUE), new \o old)
           /\ Holding(t, n, InsertHtml(t, n, f, FALSE), old \o new)
           /\ Holding(t, n, SetHtml(t, n, f), new)
           /\ Holding(t, n, SetText(t, n, "new"),
                      <<<<"text", "new", NoAttrs, NoAttrs, <<>>>>>>)

=============================================================================
