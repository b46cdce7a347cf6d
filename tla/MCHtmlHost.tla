----------------------------- MODULE MCHtmlHost -----------------------------
(***************************************************************************)
(* HtmlHost on small pages, with queries built as queries and written down *)
(* for the parser, with and without optional blanks.                       *)
(***************************************************************************)
EXTENDS HtmlHost, CssMeaning, TLC

Element(tag, attrs, parent, kids) ==
    [kind |-> "element", name |-> tag, given |-> attrs, put |-> NoAttrs,
     parent |-> parent, kids |-> kids]
Text(word, parent) ==
    [kind |-> "text", name |-> word, given |-> NoAttrs, put |-> NoAttrs,
     parent |-> parent, kids |-> <<>>]
Comment(word, parent) == [Text(word, parent) EXCEPT !.kind = "comment"]
Document(kids) == [Element("", NoAttrs, 0, kids) EXCEPT !.kind = "root"]

Skeleton(kids) == <<Document(<<2>>), Element("html", NoAttrs, 1, <<3, 4>>),
                    Element("head", NoAttrs, 2, <<>>), Element("body", NoAttrs, 2, kids)>>

(* <h2 id=top>x</h2> <p class=c>y</p><p></p> in the body *)
Flat == Skeleton(<<5, 7, 8, 10>>)
        \o <<Element("h2", "id" :> "top", 4, <<6>>), Text("x", 5), Text(" ", 4),
             Element("p", "class" :> "c", 4, <<9>>), Text("y", 8), Element("p", NoAttrs, 4, <<>>)>>

(* <div><div><p href=u></p></div><p></p></div><!-- c -->, without a blank  *)
(* or a comment between two elements                                       *)
Deep == Skeleton(<<5, 9>>)
        \o <<Element("div", NoAttrs, 4, <<6, 8>>), Element("div", NoAttrs, 5, <<7>>),
             Element("p", "href" :> "u", 6, <<>>), Element("p", NoAttrs, 5, <<>>),
             Comment("c", 4)>>

MCPages == {Flat, Deep}

(* <p>n</p><b></b>, as a fragment *)
MCFragments == {<<[Document(<<2>>) EXCEPT !.name = "fragment"],
                  Element("html", NoAttrs, 1, <<3, 5>>),
                  Element("p", NoAttrs, 2, <<4>>), Text("n", 3), Element("b", NoAttrs, 2, <<>>)>>}

-----------------------------------------------------------------------------
Tag(tag) == [AnyElement EXCEPT !.tag = tag]
With(c, p) == [c EXCEPT !.pseudos = Append(@, p)]
Pseudo(is, word) == [is |-> is, arg |-> IF word = "" THEN <<>> ELSE <<word>>]
Nest(is, q) == [is |-> is, arg |-> q]
Attr(name, op, value) == [AnyElement EXCEPT !.attrs = {[name |-> name, op |-> op, value |-> value]}]
One(c) == <<[comb |-> "below", sel |-> c]>>
Two(a, comb, b) == Append(One(a), [comb |-> comb, sel |-> b])

P == Tag("p")
Plain == <<
    <<One(P)>>,
    <<One(AnyElement), One(P)>>,
    <<Two(Tag("div"), "below", AnyElement)>>,
    <<Two(Tag("div"), "child", P), One(Tag("h2"))>>,
    <<Two(AnyElement, "next", P)>>,
    <<Append(Two(Tag("body"), "below", P), [comb |-> "next", sel |-> P])>>,
    <<Two(Tag("h2"), "later", P)>>,
    <<One([AnyElement EXCEPT !.id = "top"]), One([P EXCEPT !.classes = {"c"}])>>,
    <<One(Attr("href", "=", "u")), One(Attr("href", "!=", "u"))>>,
    <<One(Attr("href", "any", "")), One(Attr("class", "exists", ""))>>,
    <<One(With(P, Pseudo("empty", ""))), One(With(P, Pseudo("contains", "y")))>>,
    <<One(With(AnyElement, Pseudo("containsOwn", "x"))), One(With(P, Pseudo("blank", "")))>>,
    <<One(With(With(P, Pseudo("first-of-type", "")), Pseudo("nth-child", "even")))>>,
    <<Two(Tag("body"), "child", With(AnyElement, Pseudo("nth-last-child", "odd")))>>,
    <<One(With(P, Pseudo("last-child", ""))), One(With(P, Pseudo("only-child", "")))>>,
    <<One(With(P, Pseudo("nth-of-type", "-n+2"))), One(With(P, Pseudo("nth-last-of-type", "2")))>>,
    <<One(With(With(AnyElement, Pseudo("only-of-type", "")), Pseudo("gt", "0")))>>,
    <<One(With(With(AnyElement, Pseudo("last-of-type", "")), Pseudo("lt", "2"))),
      One(With(AnyElement, Pseudo("eq", "1")))>>,
    <<One(With(Tag("body"), Nest("has", <<Two(AnyElement, "next", P), One(Tag("b"))>>)))>>,
    <<One(With(P, Nest("not", <<One(With(P, Pseudo("first-child", ""))), One(Tag("h2"))>>)))>>,
    <<One(With(AnyElement, Nest("is", <<One(Tag("h2")), One(Tag("b"))>>)))>> >>

(* Parsed once: what the parser makes of each query, tight and wide. *)
Written == [i \in DOMAIN Plain |-> {Render(Plain[i], wide) : wide \in BOOLEAN}]
ParsedPlain == [i \in DOMAIN Plain |-> {ParseGroups(w) : w \in Written[i]}]

UsesNext == {i \in DOMAIN Plain : \E w \in Written[i] : \E j \in DOMAIN w : w[j] = "+"}

MCQueries == {Render(Plain[4], TRUE)}

(* Select finds only elements that the query means, each once and in the   *)
(* order of the document, and all of them, from wherever the guest stands, *)
(* whether it stands in a subtree that was removed, and whatever was       *)
(* edited before.  Excepted are the queries with a `+`, which need not     *)
(* find all where text parts two elements: see NextIsNextElement           *)
(* (parse_groups, matches_compound, select in selector.rs).                *)
SelectMeansQuery ==
    \A k \in DOMAIN docs : \A root \in Held(k), q \in DOMAIN Plain :
        LET t == docs[k]
            means == Means(t, root, Plain[q])
        IN \A groups \in ParsedPlain[q] :
            LET found == SelectGroups(t, root, groups) IN
            /\ {found[i] : i \in DOMAIN found} \subseteq means
            /\ Len(found) < Cardinality(means) => q \in UsesNext /\ Parted(t)
            /\ \A i \in 1 .. Len(found) - 1 : Before(Path(t, found[i]), Path(t, found[i + 1]))

(* A query with a `+` finds all that it means: the selectors are CSS in    *)
(* jsoup's style (selector.rs:1), where text between two elements does not *)
(* part them.  The code takes the next node (next_sibling in selector.rs). *)
NextIsNextElement ==
    \A k \in DOMAIN docs : \A root \in Held(k), q \in UsesNext :
        \A groups \in ParsedPlain[q] :
            LET found == SelectGroups(docs[k], root, groups)
            IN Means(docs[k], root, Plain[q]) \subseteq {found[i] : i \in DOMAIN found}

=============================================================================
