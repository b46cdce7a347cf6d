----------------------------- MODULE CssSelector -----------------------------
(***************************************************************************)
(* The selector engine of the WASM host (selector.rs): the parser, on      *)
(* queries cut into tokens (punctuation, blanks, and words), and the       *)
(* matcher.  The value of an attribute, an id, a class and a text are      *)
(* single words, so that prefix, suffix, substring and word matching are   *)
(* equality; case is not modelled.                                         *)
(***************************************************************************)
EXTENDS HtmlTree
LOCAL INSTANCE SequencesExt

Quotes == {"'", "\""}
Openers == {"(", "["}
Closers == {")", "]"}
Combinators == ">" :> "child" @@ "+" :> "next" @@ "~" :> "later"
AttrOps == <<"!=", "^=", "$=", "*=", "~=", "|=", "=">>
Marks == {"#", ".", "[", "]", "(", ")", ":", "*", ">", "+", "~", ",", " ", "^"}
         \cup Quotes \cup ToSet(AttrOps)

LOCAL Trim(s) ==
    LET IsWord(x) == x # " "
        from == SelectInSeq(s, IsWord)
    IN IF from = 0 THEN <<>> ELSE SubSeq(s, from, SelectLastInSeq(s, IsWord))

-----------------------------------------------------------------------------
(* Parsing *)

(* Commas count outside brackets and quotes. *)
SplitTopLevel(s) ==
    LET Step(a, c) ==
            CASE c \in Quotes /\ a.quote = "" -> [a EXCEPT !.quote = c, !.cur = Append(@, c)]
              [] c = a.quote -> [a EXCEPT !.quote = "", !.cur = Append(@, c)]
              [] c = "," /\ a.depth = 0 /\ a.quote = "" ->
                    [a EXCEPT !.out = Append(@, a.cur), !.cur = <<>>]
              [] OTHER ->
                    [a EXCEPT !.cur = Append(@, c),
                              !.depth = @ + (IF a.quote # "" THEN 0
                                             ELSE IF c \in Openers THEN 1
                                             ELSE IF c \in Closers THEN -1 ELSE 0)]
        end == FoldLeft(Step, [out |-> <<>>, cur |-> <<>>, depth |-> 0, quote |-> ""], s)
    IN IF Trim(end.cur) # <<>> \/ end.out = <<>> THEN Append(end.out, end.cur) ELSE end.out

(* The first token of s (from i on) that closes the bracket entered. *)
LOCAL UpTo(s, i, end) ==
    IF \E j \in i .. Len(s) : s[j] = end
    THEN CHOOSE j \in i .. Len(s) : s[j] = end /\ \A k \in i .. j - 1 : s[k] # end
    ELSE Len(s) + 1
LOCAL Depth(s, i, j) ==
    1 + Len(SelectSeq(SubSeq(s, i, j), LAMBDA c : c = "("))
      - Len(SelectSeq(SubSeq(s, i, j), LAMBDA c : c = ")"))
TakeBalanced(s, i) ==
    IF \E j \in i .. Len(s) : Depth(s, i, j) = 0
    THEN CHOOSE j \in i .. Len(s) : Depth(s, i, j) = 0 /\ \A k \in i .. j - 1 : Depth(s, i, k) # 0
    ELSE Len(s) + 1

Unquote(s) ==
    LET u == Trim(s) IN
    IF Len(u) >= 2 /\ u[1] \in Quotes /\ Last(u) = u[1] THEN SubSeq(u, 2, Len(u) - 1) ELSE u

(* A single word, or "" when nothing is there. *)
LOCAL Word(s) == IF s = <<>> THEN "" ELSE s[1]

(* The operators are looked for in this order, wherever they are. *)
ParseAttr(inner) ==
    LET s == Trim(inner)
        found == SelectInSeq(AttrOps, LAMBDA op : op \in ToSet(s))
        at == UpTo(s, 1, AttrOps[found])   \* when there is one
    IN IF s = <<"*">> THEN [name |-> "", op |-> "any", value |-> ""]
       ELSE IF s # <<>> /\ s[1] = "^"
            THEN [name |-> Word(Trim(Tail(s))), op |-> "any", value |-> ""]
       ELSE IF found = 0 THEN [name |-> Word(s), op |-> "exists", value |-> ""]
       ELSE [name  |-> Word(Trim(SubSeq(s, 1, at - 1))), op |-> AttrOps[found],
             value |-> Word(Unquote(SubSeq(s, at + 1, Len(s))))]

(* The names of the pseudo-classes, with their aliases.  An unknown one is *)
(* dropped.                                                                *)
Pseudos == [n \in {"empty", "blank", "first-child", "last-child", "only-child", "first-of-type",
                   "last-of-type", "only-of-type", "nth-child", "nth-last-child", "nth-of-type",
                   "nth-last-of-type", "contains", "containsOwn", "has", "not", "is",
                   "eq", "lt", "gt"} |-> n]
           @@ "first" :> "first-child" @@ "last" :> "last-child" @@ "onlyChild" :> "only-child"
           @@ "icontains" :> "contains" @@ "contains-own" :> "containsOwn"
Nested == {"has", "not", "is"}

(* An argument that is a query is parsed again at every match in the code, *)
(* and here once.                                                          *)
RECURSIVE ParseGroups(_)
BuildPseudo(name, args) ==
    IF name \notin DOMAIN Pseudos THEN <<>>
    ELSE <<[is  |-> Pseudos[name],
            arg |-> IF Pseudos[name] \in Nested THEN ParseGroups(args) ELSE Unquote(args)]>>

AnyElement == [tag |-> "any", id |-> "any", classes |-> {}, attrs |-> {}, pseudos |-> <<>>]

RECURSIVE CompoundFrom(_, _, _)
CompoundFrom(s, i, c) ==
    IF i > Len(s) THEN c
    ELSE LET next == IF i < Len(s) THEN s[i + 1] ELSE ""
             name == IF next \in Marks THEN "" ELSE next
             after == IF name = "" THEN i + 1 ELSE i + 2
         IN CASE s[i] = "#" -> CompoundFrom(s, after, [c EXCEPT !.id = name])
              [] s[i] = "." -> CompoundFrom(s, after, [c EXCEPT !.classes = @ \cup {name}])
              [] s[i] = "[" ->
                   LET end == UpTo(s, i + 1, "]") IN
                   CompoundFrom(s, end + 1,
                       [c EXCEPT !.attrs = @ \cup {ParseAttr(SubSeq(s, i + 1, end - 1))}])
              [] s[i] = ":" ->
                   LET opens == after <= Len(s) /\ s[after] = "("
                       end == IF opens THEN TakeBalanced(s, after + 1) ELSE after - 1
                       args == IF opens THEN SubSeq(s, after + 1, end - 1) ELSE <<>>
                   IN CompoundFrom(s, end + 1,
                          [c EXCEPT !.pseudos = @ \o BuildPseudo(name, args)])
              [] s[i] \in Marks \ {"#", ".", "[", ":"} -> CompoundFrom(s, i + 1, c)
              [] OTHER -> CompoundFrom(s, i + 1, [c EXCEPT !.tag = s[i]])

ParseCompound(s) == CompoundFrom(s, 1, AnyElement)

(* Unlike SplitTopLevel this loop takes no notice of quotes.  A combinator *)
(* replaces the pending one, a blank after a blank leaves it alone.        *)
ParseChain(group) ==
    LET Flush(a) ==
            [a EXCEPT !.buf = <<>>,
                      !.chain = IF Trim(a.buf) = <<>> THEN @
                                ELSE Append(@, [comb |-> a.pending,
                                                sel  |-> ParseCompound(Trim(a.buf))])]
        Step(a, c) ==
            CASE a.depth = 0 /\ c \in DOMAIN Combinators ->
                    [Flush(a) EXCEPT !.pending = Combinators[c]]
              [] a.depth = 0 /\ c = " " ->
                    IF Trim(a.buf) = <<>> THEN a ELSE [Flush(a) EXCEPT !.pending = "below"]
              [] OTHER ->
                    [a EXCEPT !.buf = Append(@, c),
                              !.depth = @ + (IF c \in Openers THEN 1
                                             ELSE IF c \in Closers THEN -1 ELSE 0)]
    IN Flush(FoldLeft(Step, [chain |-> <<>>, buf |-> <<>>, pending |-> "below", depth |-> 0],
                      group)).chain

ParseGroups(query) ==
    LET groups == SplitTopLevel(query) IN [i \in DOMAIN groups |-> ParseChain(Trim(groups[i]))]

Number(word) == CASE word = "0" -> 0 [] word = "1" -> 1 [] word = "2" -> 2 [] word = "3" -> 3
                  [] OTHER -> -1
ParseNth(arg) ==
    CASE arg = "odd" -> <<2, 1>> [] arg = "even" -> <<2, 0>> [] arg = "n" -> <<1, 0>>
      [] arg = "2n+1" -> <<2, 1>>
      [] arg = "-n+2" -> <<-1, 2>>
      [] OTHER -> <<0, IF Number(arg) = -1 THEN 0 ELSE Number(arg)>>
MatchesNth(ab, index) ==
    LET diff == index - ab[2]
        step == IF ab[1] < 0 THEN -ab[1] ELSE ab[1]
    IN CASE ab[1] = 0 -> diff = 0
         [] ab[1] > 0 -> diff >= 0 /\ diff % step = 0
         [] ab[1] < 0 -> diff <= 0 /\ (-diff) % step = 0

-----------------------------------------------------------------------------
(* Matching *)

(* What the texts below n say. *)
Words(t, n) == {t[m].name : m \in {k \in ToSet(Subtree(t, n)) : t[k].kind = "text"}}

(* Bug: text and comments are counted. *)
ElementSiblings_AllNodes(t, n) == IF t[n].parent = 0 THEN <<n>> ELSE t[t[n].parent].kids

(* The elements among the children of n's parent, n alone without one. *)
ElementSiblings(t, n) ==
    IF t[n].parent = 0 THEN <<n>> ELSE Elements(t, t[t[n].parent].kids)
SameTag(t, n) ==
    LET Same(m) == t[m].name = t[n].name IN SelectSeq(ElementSiblings(t, n), Same)

LOCAL IndexIn(s, n) == SelectInSeq(s, LAMBDA m : m = n)
SiblingIndex(t, n) == IndexIn(ElementSiblings(t, n), n) - 1

MatchesAttr(t, n, a) ==
    LET has == a.name \in DOMAIN t[n].given IN
    CASE a.op = "any" /\ a.name = "" -> DOMAIN t[n].given \cup DOMAIN t[n].put # {}
      [] a.op = "any" -> a.name \in DOMAIN t[n].given \cup DOMAIN t[n].put
      [] a.op = "exists" -> has
      [] a.op = "!=" -> ~ has \/ t[n].given[a.name] # a.value
      [] OTHER -> has /\ t[n].given[a.name] = a.value

(* A word is blank or contains another only when it is that word. *)
Blank(words) == words \subseteq {" "}
OwnWords(t, n) == {t[m].name : m \in {k \in ToSet(t[n].kids) : t[k].kind = "text"}} \ {" "}

RECURSIVE SelectGroups(_, _, _), MatchesCompound(_, _, _)

(* Only the chains of a single compound count. *)
MatchesAnyGroup(t, n, groups) ==
    \E i \in DOMAIN groups : Len(groups[i]) = 1 /\ MatchesCompound(t, n, groups[i][1].sel)

MatchesPseudo(t, n, p) ==
    LET sibs == ElementSiblings(t, n)
        same == SameTag(t, n)
        word == Word(p.arg)
        FromEnd(s) == Len(s) - IndexIn(s, n) + 1
    IN CASE p.is = "empty" ->
              \A k \in ToSet(t[n].kids) : t[k].kind = "comment" \/ (t[k].kind = "text" /\ t[k].name = " ")
         [] p.is = "blank" -> Blank(Words(t, n))
         [] p.is = "first-child" -> sibs[1] = n
         [] p.is = "last-child" -> Last(sibs) = n
         [] p.is = "only-child" -> Len(sibs) = 1
         [] p.is = "first-of-type" -> same[1] = n
         [] p.is = "last-of-type" -> Last(same) = n
         [] p.is = "only-of-type" -> Len(same) = 1
         [] p.is = "nth-child" -> MatchesNth(ParseNth(word), IndexIn(sibs, n))
         [] p.is = "nth-last-child" -> MatchesNth(ParseNth(word), FromEnd(sibs))
         [] p.is = "nth-of-type" -> MatchesNth(ParseNth(word), IndexIn(same, n))
         [] p.is = "nth-last-of-type" -> MatchesNth(ParseNth(word), FromEnd(same))
         [] p.is = "contains" -> word \in Words(t, n)
         [] p.is = "containsOwn" -> word \in OwnWords(t, n)
         [] p.is = "has" -> SelectGroups(t, n, p.arg) # <<>>
         [] p.is = "not" -> ~ MatchesAnyGroup(t, n, p.arg)
         [] p.is = "is" -> MatchesAnyGroup(t, n, p.arg)
         [] p.is = "eq" -> SiblingIndex(t, n) = Number(word)
         [] p.is = "lt" -> SiblingIndex(t, n) < Number(word)
         [] p.is = "gt" -> SiblingIndex(t, n) > Number(word)

(* id and classes are what the parser gave: scraper reads them once. *)
MatchesCompound(t, n, c) ==
    /\ IsElement(t, n)
    /\ c.tag \in {"any", t[n].name}
    /\ c.id = "any" \/ ("id" \in DOMAIN t[n].given /\ t[n].given["id"] = c.id)
    /\ \A class \in c.classes : "class" \in DOMAIN t[n].given /\ t[n].given["class"] = class
    /\ \A a \in c.attrs : MatchesAttr(t, n, a)
    /\ \A i \in DOMAIN c.pseudos : MatchesPseudo(t, n, c.pseudos[i])

(* The next sibling is the next node, not the next element. *)
NextSibling(t, n) == LET later == Following(t, n) IN IF later = <<>> THEN <<>> ELSE <<later[1]>>

Related(t, n, comb) ==
    CASE comb = "child" -> t[n].kids
      [] comb = "below" -> Descendants(t, n)
      [] comb = "next"  -> NextSibling(t, n)
      [] comb = "later" -> Following(t, n)

(* The combinator of the first compound is not looked at. *)
SelectChain(t, root, chain) ==
    LET Step(found, link) ==
            LET Take(next, n) == IF n \notin ToSet(next) /\ MatchesCompound(t, n, link.sel)
                                 THEN Append(next, n) ELSE next
                OfOne(next, cand) == FoldLeft(Take, next, Related(t, cand, link.comb))
            IN FoldLeft(OfOne, <<>>, found)
        First(n) == MatchesCompound(t, n, chain[1].sel)
    IN IF chain = <<>> THEN <<>>
       ELSE FoldLeft(Step, SelectSeq(Descendants(t, root), First), Tail(chain))

(* The nodes that one of the chains leads to. *)
ReachedBy(t, root, groups) == UNION {ToSet(SelectChain(t, root, groups[i])) : i \in DOMAIN groups}
SelectGroups(t, root, groups) == Among(Descendants(t, root), ReachedBy(t, root, groups))

QueryReaches(t, root, query) == ReachedBy(t, root, ParseGroups(query))

=============================================================================
