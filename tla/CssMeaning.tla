----------------------------- MODULE CssMeaning -----------------------------
(***************************************************************************)
(* What a selector means, without parsing and without search: a reference  *)
(* for CssSelector.  A query is a sequence of chains, a chain a sequence   *)
(* of [comb, sel], as the parser returns them, except that the argument of *)
(* :has, :not and :is is a query itself.                                   *)
(***************************************************************************)
EXTENDS CssSelector, FiniteSets
LOCAL INSTANCE SequencesExt

(* Writing a query down, with or without blanks around the combinators. *)
Sign(comb) == CHOOSE c \in DOMAIN Combinators : Combinators[c] = comb

RenderAttr(a) ==
    CASE a.op = "any" -> <<"[", "^", a.name, "]">>
      [] a.op = "exists" -> <<"[", a.name, "]">>
      [] OTHER -> <<"[", a.name, a.op, "'", a.value, "'", "]">>

RECURSIVE Render(_, _)
RenderPseudo(p, wide) ==
    <<":", p.is>> \o (CASE p.is \in Nested -> <<"(">> \o Render(p.arg, wide) \o <<")">>
                        [] p.arg # <<>> -> <<"(">> \o p.arg \o <<")">>
                        [] OTHER -> <<>>)
RenderCompound(c, wide) ==
    (IF c.tag = "any" THEN <<"*">> ELSE <<c.tag>>)
    \o (IF c.id = "any" THEN <<>> ELSE <<"#", c.id>>)
    \o FlattenSeq([i \in DOMAIN SetToSeq(c.classes) |-> <<".", SetToSeq(c.classes)[i]>>])
    \o FlattenSeq([i \in DOMAIN SetToSeq(c.attrs) |-> RenderAttr(SetToSeq(c.attrs)[i])])
    \o FlattenSeq([i \in DOMAIN c.pseudos |-> RenderPseudo(c.pseudos[i], wide)])
RenderChain(chain, wide) ==
    FlattenSeq([i \in DOMAIN chain |->
        (CASE i = 1 -> <<>>
           [] i > 1 /\ chain[i].comb = "below" -> <<" ">>
           [] OTHER -> IF wide THEN <<" ", Sign(chain[i].comb), " ">>
                               ELSE <<Sign(chain[i].comb)>>)
        \o RenderCompound(chain[i].sel, wide)])
Render(q, wide) ==
    FlattenSeq([i \in DOMAIN q |->
        (CASE i = 1 -> <<>> [] wide -> <<",", " ">> [] OTHER -> <<",">>)
        \o RenderChain(q[i], wide)])

-----------------------------------------------------------------------------
Up(t, n) == t[n].parent
RECURSIVE Ancestors(_, _)
Ancestors(t, n) == IF Up(t, n) = 0 THEN {} ELSE {Up(t, n)} \cup Ancestors(t, Up(t, n))

(* Where n stands, from the top: documents are ordered by these paths. *)
RECURSIVE Path(_, _)
Path(t, n) == IF Up(t, n) = 0 THEN <<>> ELSE Append(Path(t, Up(t, n)), Position(t, n))
Before(p, q) ==
    \/ p # q /\ IsPrefix(p, q)
    \/ \E i \in DOMAIN p \cap DOMAIN q :
         p[i] < q[i] /\ \A j \in 1 .. i - 1 : p[j] = q[j]

Beside(t, n) == {m \in DOMAIN t : m # n /\ Up(t, m) = Up(t, n) /\ Up(t, n) # 0}
Earlier(t, n) == {m \in Beside(t, n) : Position(t, m) < Position(t, n)}
Later(t, n) == Beside(t, n) \ Earlier(t, n)

(* m and n stand to each other as the combinator between them says.  Only  *)
(* elements count: `a + b` is a b whose nearest element before it is an a, *)
(* whatever text or comment stands between the two.                        *)
Stands(t, m, n, comb) ==
    CASE comb = "child" -> Up(t, n) = m
      [] comb = "below" -> m \in Ancestors(t, n)
      [] comb = "later" -> m \in Earlier(t, n)
      [] comb = "next"  -> /\ m \in Earlier(t, n)
                           /\ \A k \in Earlier(t, n) \cap Later(t, m) : ~ IsElement(t, k)

(* Text or a comment stands between an element and the next one. *)
Parted(t) ==
    \E m \in DOMAIN t :
        /\ IsElement(t, m)
        /\ \E n \in Later(t, m) : IsElement(t, n)
        /\ ~ IsElement(t, Following(t, m)[1])

NthOf(arg, index) ==
    CASE arg = "odd" -> index % 2 = 1 [] arg = "even" -> index % 2 = 0
      [] arg = "2n+1" -> index % 2 = 1 [] arg = "n" -> TRUE [] arg = "-n+2" -> index <= 2
      [] OTHER -> index = Number(arg)

RECURSIVE Means(_, _, _)
Fits(t, n, c) ==
    LET el(S) == {m \in S : IsElement(t, m)}
        typed(S) == {m \in el(S) : t[m].name = t[n].name}
        nth(S) == Cardinality(S) + 1
        text == {m \in DOMAIN t : t[m].kind = "text" /\ n \in Ancestors(t, m)}
        Holds(p) ==
            CASE p.is = "empty" -> \A m \in DOMAIN t : Up(t, m) = n =>
                                      ~ IsElement(t, m) /\ (t[m].kind = "text" => t[m].name = " ")
              [] p.is = "blank" -> \A m \in text : t[m].name = " "
              [] p.is = "first-child" -> el(Earlier(t, n)) = {}
              [] p.is = "last-child" -> el(Later(t, n)) = {}
              [] p.is = "only-child" -> el(Beside(t, n)) = {}
              [] p.is = "first-of-type" -> typed(Earlier(t, n)) = {}
              [] p.is = "last-of-type" -> typed(Later(t, n)) = {}
              [] p.is = "only-of-type" -> typed(Beside(t, n)) = {}
              [] p.is = "nth-child" -> NthOf(p.arg[1], nth(el(Earlier(t, n))))
              [] p.is = "nth-last-child" -> NthOf(p.arg[1], nth(el(Later(t, n))))
              [] p.is = "nth-of-type" -> NthOf(p.arg[1], nth(typed(Earlier(t, n))))
              [] p.is = "nth-last-of-type" -> NthOf(p.arg[1], nth(typed(Later(t, n))))
              [] p.is = "contains" -> \E m \in text : t[m].name = p.arg[1]
              [] p.is = "containsOwn" -> \E m \in text : t[m].name = p.arg[1] /\ Up(t, m) = n
              [] p.is = "has" -> Means(t, n, p.arg) # {}
              [] p.is = "not" -> n \notin Means(t, 0, p.arg)
              [] p.is = "is" -> n \in Means(t, 0, p.arg)
              [] p.is = "eq" -> Cardinality(el(Earlier(t, n))) = Number(p.arg[1])
              [] p.is = "lt" -> Cardinality(el(Earlier(t, n))) < Number(p.arg[1])
              [] p.is = "gt" -> Cardinality(el(Earlier(t, n))) > Number(p.arg[1])
    IN /\ IsElement(t, n)
       /\ c.tag \in {"any", t[n].name}
       /\ \A i \in DOMAIN c.pseudos : Holds(c.pseudos[i])
       /\ (IF c.id = "any" THEN {} ELSE {<<"id", c.id>>})
             \cup {<<"class", k>> : k \in c.classes}
             \cup {<<a.name, a.value>> : a \in {b \in c.attrs : b.op \notin {"any", "exists", "!="}}}
          \subseteq {<<a, t[n].given[a]>> : a \in DOMAIN t[n].given}
       /\ \A a \in c.attrs :
            CASE a.op = "!=" -> <<a.name, a.value>> \notin {<<b, t[n].given[b]>> : b \in DOMAIN t[n].given}
              [] a.op = "exists" -> a.name \in DOMAIN t[n].given
              [] a.op = "any" -> a.name \in DOMAIN t[n].given \cup DOMAIN t[n].put
              [] OTHER -> TRUE

(* The elements under root (0: anywhere) that some chain leads to. *)
Means(t, root, q) ==
    LET scope == {m \in DOMAIN t : root = 0 \/ root \in Ancestors(t, m)}
        Leads[i \in 1 .. 4, chain \in 1 .. Len(q)] ==
            IF i = 1 THEN {n \in scope : Fits(t, n, q[chain][1].sel)}
            ELSE IF i > Len(q[chain]) THEN {}
            ELSE {n \in DOMAIN t :
                    /\ Fits(t, n, q[chain][i].sel)
                    /\ \E m \in Leads[i - 1, chain] :
                         Stands(t, m, n, q[chain][i].comb)}
    IN UNION {Leads[Len(q[i]), i] : i \in DOMAIN q}

=============================================================================
