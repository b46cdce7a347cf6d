------------------------ MODULE SourceModels_proofs ------------------------
(***************************************************************************)
(* What a source sends is what the host reads, for any widths of numbers,  *)
(* any values and any buffer: the encoding number by number, type by type  *)
(* and model by model, and then the payload under way.  A type is sound if *)
(* what it writes it reads as what it means, or as an error where bytes    *)
(* are missing (Sound); and it can be handed back if what it reads, of     *)
(* whatever bytes, is written and read as the same value (Echo).           *)
(***************************************************************************)
EXTENDS SourceModels, SequenceTheorems, WellFoundedInduction, TLAPS

-----------------------------------------------------------------------------
(* Numbers and recursion.                                                  *)

(* Induction, over sets of numbers.                                        *)
LEMMA LeastOf ==
    ASSUME NEW S, S \subseteq Nat, S # {}
    PROVE  \E n \in S : \A m \in S : n <= m
<1> DEFINE R == OpToRel(<, Nat)
<1>1. \A x, y \in Nat : x < y => <<x, y>> \in R
    BY DEF OpToRel
<1>2. IsWellFoundedOn(R, Nat)
    BY NatLessThanWellFounded DEF OpToRel
<1> HIDE DEF R
<1>3. PICK n \in S : \A m \in S : ~(<<m, n>> \in R)
    BY <1>2, WFMin
<1>4. \A m \in S : ~(m < n)
    BY <1>1, <1>3
<1> QED
    BY <1>4

(* Induction from 0 on.                                                    *)
LEMMA Upwards ==
    ASSUME NEW P, 0 \in P, \A k \in Nat : k \in P => k + 1 \in P
    PROVE  \A k \in Nat : k \in P
<1> DEFINE Bad == Nat \ P
<1> SUFFICES ASSUME Bad # {} PROVE FALSE
    OBVIOUS
<1>1. PICK n \in Bad : \A m \in Bad : n <= m
    BY LeastOf
<1>2. n # 0 /\ n - 1 \in Nat /\ ~(n <= n - 1) /\ (n - 1) + 1 = n
    OBVIOUS
<1>3. n - 1 \in P
    BY <1>1, <1>2
<1> QED
    BY <1>2, <1>3

(* Induction from all that is smaller.                                     *)
LEMMA FromBelow ==
    ASSUME NEW P, \A n \in Nat : (\A m \in Nat : m < n => m \in P) => n \in P
    PROVE  \A n \in Nat : n \in P
<1> DEFINE Bad == Nat \ P
<1> SUFFICES ASSUME Bad # {} PROVE FALSE
    OBVIOUS
<1>1. PICK n \in Bad : \A m \in Bad : n <= m
    BY LeastOf
<1>2. \A m \in Nat : m < n => m \in P
    BY <1>1
<1> QED
    BY <1>2

-----------------------------------------------------------------------------
(* The recursive functions are what their equations say: there are         *)
(* functions with these equations, made one place at a time.               *)

Widths == /\ Group \in Nat /\ Groups \in Nat /\ Word \in Nat /\ Half \in Nat
          /\ Quarter \in Nat /\ FloatLen \in Nat
          /\ 1 < Group /\ 0 < Groups /\ 0 < FloatLen /\ Half % 2 = 0 /\ Word % 2 = 0
          /\ 2 < Half /\ Half <= Word /\ 0 < Quarter /\ Quarter <= Word /\ Word <= Place[Groups]

(* The assumption on the widths, conjunct by conjunct.                     *)
LEMMA WidthsHold == Widths
BY WidthAssumption DEF Widths

(* What the size of a number bounds.                                       *)
LEMMA WordIs ==
    /\ Word \in Nat /\ 3 < Word
    /\ Word \div 2 \in Nat /\ 1 < Word \div 2 /\ Word \div 2 < Word
<1>1. Word \in Nat /\ 2 < Word /\ Word % 2 = 0
    BY WidthsHold DEF Widths
<1> QED
    BY <1>1

IsPlace(g, n) == g = [k \in 0 .. n |-> IF k = 0 THEN 1 ELSE Group * g[k - 1]]

LEMMA PlacesExist == ASSUME NEW n \in Nat PROVE \E g : IsPlace(g, n)
<1> DEFINE P == {m \in Nat : \E g : IsPlace(g, m)}
<1>1. 0 \in P
    <2> DEFINE g == [k \in 0 .. 0 |-> 1]
    <2>1. IsPlace(g, 0)
        BY DEF IsPlace
    <2> QED
        BY <2>1
<1>2. ASSUME NEW m \in Nat, m \in P PROVE m + 1 \in P
    <2>1. PICK g : IsPlace(g, m)
        BY <1>2
    <2> DEFINE h == [k \in 0 .. m + 1 |-> IF k = m + 1 THEN Group * g[m] ELSE g[k]]
    <2>2. ASSUME NEW k \in 0 .. m + 1
          PROVE  h[k] = IF k = 0 THEN 1 ELSE Group * h[k - 1]
        <3>1. CASE k = m + 1
            <4>1. k # 0 /\ k - 1 = m /\ m \in 0 .. m + 1 /\ m # m + 1
                BY <3>1
            <4>2. h[m] = g[m] /\ h[k] = Group * g[m]
                BY <3>1, <4>1
            <4> HIDE DEF h
            <4> QED
                BY <4>1, <4>2
        <3>2. CASE k # m + 1
            <4>1. k \in 0 .. m /\ h[k] = g[k]
                BY <3>2
            <4>2. g[k] = IF k = 0 THEN 1 ELSE Group * g[k - 1]
                BY <2>1, <4>1 DEF IsPlace
            <4>3. k # 0 => k - 1 \in 0 .. m + 1 /\ k - 1 # m + 1
                BY <4>1
            <4>4. k # 0 => h[k - 1] = g[k - 1]
                BY <4>3
            <4> HIDE DEF h
            <4> QED
                BY <4>1, <4>2, <4>4
        <3> QED
            BY <3>1, <3>2
    <2>3. h = [k \in 0 .. m + 1 |-> h[k]]
        OBVIOUS
    <2> HIDE DEF h
    <2>4. IsPlace(h, m + 1)
        BY <2>2, <2>3 DEF IsPlace
    <2> QED
        BY <2>4
<1> HIDE DEF P
<1>3. n \in P
    BY <1>1, <1>2, Upwards
<1> QED
    BY <1>3 DEF P

(* What a group counts.                                                    *)
LEMMA PlaceIs ==
    /\ Place[0] = 1
    /\ \A k \in 0 .. Groups : k # 0 => Place[k] = Group * Place[k - 1]
<1>1. PICK g : IsPlace(g, Groups)
    BY WidthsHold, PlacesExist DEF Widths
<1>2. IsPlace(Place, Groups)
    BY <1>1 DEF Place, IsPlace
<1>3. 0 \in 0 .. Groups
    BY WidthsHold DEF Widths
<1> HIDE DEF Place
<1> QED
    BY <1>2, <1>3 DEF IsPlace

(* What a number is written as.                                            *)
IsWriteVar(g, n) ==
    g = [v \in 0 .. n |-> IF v >= Group THEN <<Group + (v % Group)>> \o g[v \div Group] ELSE <<v>>]

(* A number of several groups has a smaller one behind the first.          *)
LEMMA Quotient ==
    ASSUME NEW v \in Nat
    PROVE  /\ v \div Group \in Nat /\ v % Group \in Nat /\ v % Group < Group
           /\ v = Group * (v \div Group) + (v % Group)
           /\ v >= Group => v \div Group < v /\ 0 < v \div Group
           /\ v < Group => v % Group = v
<1> DEFINE d == v \div Group
           m == v % Group
<1>1. Group \in Nat /\ 1 < Group
    BY WidthsHold DEF Widths
<1>2. d \in Int /\ m \in Nat /\ m < Group /\ v = Group * d + m
    BY <1>1
<1> HIDE DEF d, m
<1>3. d >= 0
    <2> SUFFICES ASSUME d <= -1 PROVE FALSE
        BY <1>2
    <2>1. Group * d <= Group * (-1)
        BY <1>1, <1>2
    <2> QED
        BY <1>1, <1>2, <2>1
<1>4. ASSUME v >= Group PROVE d < v /\ 0 < d
    <2>1. d # 0
        BY <1>1, <1>2, <1>4
    <2>2. 2 * d <= Group * d
        BY <1>1, <1>2, <1>3
    <2> QED
        BY <1>1, <1>2, <1>3, <2>1, <2>2
<1>5. v < Group => v % Group = v
    BY <1>1
<1> QED
    BY <1>2, <1>3, <1>4, <1>5 DEF d, m

LEMMA WriteVarsExist == ASSUME NEW n \in Nat PROVE \E g : IsWriteVar(g, n)
<1> DEFINE P == {m \in Nat : \E g : IsWriteVar(g, m)}
<1>0. Group \in Nat /\ 1 < Group
    BY WidthsHold DEF Widths
<1>1. 0 \in P
    <2> DEFINE g == [k \in 0 .. 0 |-> <<k>>]
    <2>1. IsWriteVar(g, 0)
        BY <1>0 DEF IsWriteVar
    <2> QED
        BY <2>1
<1>2. ASSUME NEW m \in Nat, m \in P PROVE m + 1 \in P
    <2>1. PICK g : IsWriteVar(g, m)
        BY <1>2
    <2> DEFINE Put(v, f) == IF v >= Group THEN <<Group + (v % Group)>> \o f[v \div Group] ELSE <<v>>
               h == [k \in 0 .. m + 1 |-> IF k = m + 1 THEN Put(k, g) ELSE g[k]]
    <2>2. ASSUME NEW k \in 0 .. m + 1 PROVE h[k] = Put(k, h)
        <3>1. k >= Group => /\ k \div Group \in 0 .. m /\ k \div Group # m + 1
                            /\ k \div Group \in 0 .. m + 1
            BY Quotient
        <3>2. k >= Group => h[k \div Group] = g[k \div Group]
            BY <3>1
        <3> HIDE DEF h
        <3>3. Put(k, h) = Put(k, g)
            BY <3>2
        <3>4. CASE k = m + 1
            <4>1. h[k] = Put(k, g)
                BY <3>4 DEF h
            <4> QED
                BY <3>3, <4>1
        <3>5. CASE k # m + 1
            <4>1. k \in 0 .. m /\ h[k] = g[k]
                BY <3>5 DEF h
            <4>2. g[k] = Put(k, g)
                BY <2>1, <4>1 DEF IsWriteVar
            <4> QED
                BY <3>3, <4>1, <4>2
        <3> QED
            BY <3>4, <3>5
    <2>3. h = [k \in 0 .. m + 1 |-> h[k]]
        OBVIOUS
    <2> HIDE DEF h
    <2>4. IsWriteVar(h, m + 1)
        BY <2>2, <2>3 DEF IsWriteVar
    <2> QED
        BY <2>4
<1> HIDE DEF P
<1>3. n \in P
    BY <1>1, <1>2, Upwards
<1> QED
    BY <1>3 DEF P

(* What a number is written as: its group, and the rest behind it.         *)
LEMMA WriteVarIs ==
    ASSUME NEW v \in Number
    PROVE  /\ v < Group => WriteVar[v] = <<v>>
           /\ v >= Group => /\ v \div Group \in Number
                            /\ WriteVar[v] = <<Group + (v % Group)>> \o WriteVar[v \div Group]
<1>0. Group \in Nat /\ 1 < Group /\ Word - 1 \in Nat /\ Word \in Nat
    BY WidthsHold DEF Widths
<1>1. PICK g : IsWriteVar(g, Word - 1)
    BY <1>0, WriteVarsExist
<1>2. IsWriteVar(WriteVar, Word - 1)
    BY <1>1 DEF WriteVar, IsWriteVar, Number
<1> HIDE DEF WriteVar
<1>3. WriteVar[v] = IF v >= Group THEN <<Group + (v % Group)>> \o WriteVar[v \div Group] ELSE <<v>>
    BY <1>2 DEF IsWriteVar, Number
<1>4. v \in Nat /\ v < Word
    BY <1>0 DEF Number
<1>5. v >= Group => v \div Group \in Number
    BY <1>0, <1>4, Quotient DEF Number
<1> QED
    BY <1>0, <1>3, <1>4, <1>5

(* It is written in bytes.                                                 *)
LEMMA WriteVarBytes ==
    ASSUME NEW v \in Number
    PROVE  WriteVar[v] \in Seq(Byte) /\ Len(WriteVar[v]) > 0
<1> DEFINE P == {n \in Nat : n < Word => WriteVar[n] \in Seq(Byte) /\ Len(WriteVar[n]) > 0}
<1>0. Group \in Nat /\ 1 < Group /\ Word \in Nat
    BY WidthsHold DEF Widths
<1>1. ASSUME NEW n \in Nat, \A m \in Nat : m < n => m \in P PROVE n \in P
    <2> SUFFICES ASSUME n < Word PROVE WriteVar[n] \in Seq(Byte) /\ Len(WriteVar[n]) > 0
        OBVIOUS
    <2>1. n \in Number
        BY <1>0 DEF Number
    <2>2. CASE n < Group
        <3>1. n \in Byte
            BY <1>0, <2>2 DEF Byte
        <3>2. WriteVar[n] = <<n>>
            BY <2>1, <2>2, WriteVarIs
        <3> QED
            BY <3>1, <3>2
    <2>3. CASE n >= Group
        <3> DEFINE b == Group + (n % Group)
        <3>1. b \in Byte
            BY <1>0, Quotient DEF Byte
        <3> DEFINE m == n \div Group
        <3>a. m \in Nat /\ m < n
            BY <2>3, Quotient
        <3>b. m \in P /\ m < Word
            <4> HIDE DEF m
            <4> QED
                BY <1>0, <1>1, <3>a
        <3>2. WriteVar[m] \in Seq(Byte) /\ Len(WriteVar[m]) > 0
            BY <3>b
        <3>3. WriteVar[n] = <<b>> \o WriteVar[m]
            BY <2>1, <2>3, WriteVarIs
        <3> HIDE DEF b, m
        <3> QED
            BY <3>1, <3>2, <3>3
    <2> QED
        BY <1>0, <2>2, <2>3
<1> HIDE DEF P
<1>2. v \in P
    BY <1>0, <1>1, FromBelow DEF Number
<1> QED
    BY <1>0, <1>2 DEF P, Number

-----------------------------------------------------------------------------
(* A buffer that holds, from the offset of r on, the bytes b or what is    *)
(* left of them, and what reading b gives there.                           *)
Agrees(r, b) == \A j \in 1 .. Len(b) : r.offset + j <= Len(r.data) => r.data[r.offset + j] = b[j]
Fits(r, b) == /\ r \in Reader /\ b \in Seq(Byte) /\ Agrees(r, b)
              /\ r.offset + Len(b) < Word
Whole(r, b) == r.offset + Len(b) <= Len(r.data)
Result(r, b, v) == IF Whole(r, b) THEN Got(v, r.offset + Len(b)) ELSE Failed
Behind(r, b) == At(r, r.offset + Len(b))

ReaderFacts(r) == /\ r.data \in Seq(Byte) /\ r.offset \in Nat /\ Len(r.data) \in Nat
                  /\ r.offset <= Len(r.data) /\ Len(r.data) + 1 < Word

LEMMA ReaderIs ==
    ASSUME NEW r \in Reader
    PROVE  ReaderFacts(r)
<1> DEFINE n == Len(r.data)
<1>1. /\ r.data \in Seq(Byte) /\ r.offset \in Nat /\ r.offset <= n /\ n < Word \div 2
      /\ n \in Nat
    BY DEF Reader, Short
<1>2. Word \in Nat /\ 2 < Word
    BY WordIs
<1>3. n + 1 < Word
    <2> HIDE DEF n
    <2> QED
        BY <1>1, <1>2
<1> QED
    BY <1>1, <1>3 DEF ReaderFacts

LEMMA AtIs ==
    ASSUME NEW r \in Reader, NEW i \in Nat, i <= Len(r.data)
    PROVE  At(r, i) \in Reader /\ At(r, i).data = r.data /\ At(r, i).offset = i
BY DEF Reader, At

LEMMA AtAt ==
    ASSUME NEW r \in Reader, NEW i, NEW j
    PROVE  At(At(r, i), j) = At(r, j)
BY DEF Reader, At

LEMMA AtHere == ASSUME NEW r \in Reader PROVE At(r, r.offset) = r
BY DEF Reader, At

Continues(r, b, c) ==
    /\ Fits(r, b)
    /\ Whole(r, b) => /\ Fits(Behind(r, b), c)
                      /\ Whole(r, b \o c) <=> Whole(Behind(r, b), c)
                      /\ Behind(r, b).offset = r.offset + Len(b)
                      /\ r.offset + Len(b \o c) = Behind(r, b).offset + Len(c)
    /\ Whole(r, b \o c) => Whole(r, b)

(* Bytes b and c behind one another: c is behind b.                        *)
LEMMA Split ==
    ASSUME NEW r, NEW b \in Seq(Byte), NEW c \in Seq(Byte), Fits(r, b \o c)
    PROVE  Continues(r, b, c)
<1> DEFINE k == Len(b)
           m == Len(c)
           o == r.offset
           n == Len(r.data)
           s == b \o c
           q == At(r, o + k)
<1>1. /\ k \in Nat /\ m \in Nat /\ Len(s) = k + m
      /\ \A j \in 1 .. k : s[j] = b[j]
      /\ \A j \in 1 .. m : s[k + j] = c[j]
    OBVIOUS
<1>2. o \in Nat /\ n \in Nat /\ o <= n /\ n < Word /\ r \in Reader
    BY ReaderIs, WordIs DEF ReaderFacts, Fits
<1>3. /\ o + (k + m) < Word
      /\ \A j \in 1 .. k + m : o + j <= n => r.data[o + j] = s[j]
    BY <1>1 DEF Fits, Agrees
<1>4. Word \in Nat
    BY WidthsHold DEF Widths
<1>5. Fits(r, b)
    <2>1. ASSUME NEW j \in 1 .. k, o + j <= n PROVE r.data[o + j] = b[j]
        <3>1. j \in 1 .. k + m
            BY <1>1
        <3> QED
            BY <1>1, <1>3, <2>1, <3>1
    <2>2. o + k < Word
        BY <1>1, <1>2, <1>3, <1>4
    <2> QED
        BY <1>2, <2>1, <2>2 DEF Fits, Agrees
<1>6. ASSUME o + k <= n
      PROVE  q \in Reader /\ q.data = r.data /\ q.offset = o + k
    <2>1. o + k \in Nat
        BY <1>1, <1>2
    <2> QED
        BY <1>2, <1>6, <2>1, AtIs
<1>7. ASSUME o + k <= n PROVE Fits(q, c)
    <2>1. ASSUME NEW j \in 1 .. m, q.offset + j <= n PROVE r.data[q.offset + j] = c[j]
        <3>1. k + j \in 1 .. k + m /\ q.offset + j = o + (k + j) /\ o + (k + j) <= n
            BY <1>1, <1>2, <1>6, <1>7, <2>1
        <3>2. r.data[o + (k + j)] = s[k + j]
            BY <1>3, <3>1
        <3> QED
            BY <1>1, <3>1, <3>2
    <2>2. q.offset + m < Word
        BY <1>1, <1>2, <1>3, <1>6, <1>7
    <2> QED
        BY <1>6, <1>7, <2>1, <2>2 DEF Fits, Agrees
<1>8. Whole(r, s) <=> o + (k + m) <= n
    BY <1>1 DEF Whole
<1>9. Whole(r, b) <=> o + k <= n
    BY DEF Whole
<1>10. o + k <= n => (Whole(q, c) <=> o + (k + m) <= n)
    BY <1>1, <1>2, <1>6 DEF Whole
<1>11. r.offset + Len(s) = (o + k) + m
    BY <1>1, <1>2
<1>12. o + (k + m) <= n => o + k <= n
    BY <1>1, <1>2
<1>13. q = Behind(r, b)
    BY DEF Behind
<1> QED
    BY <1>5, <1>6, <1>7, <1>8, <1>9, <1>10, <1>11, <1>12, <1>13 DEF Continues

(* One value behind the other.                                             *)
Both2(r, b, c, o, p, v, w) ==
    /\ \A z : Both(o, p, z) = Result(r, b \o c, z)
    /\ Whole(r, b \o c) => o.v = v /\ p.v = w

(* Two results behind one another make the result of both.                 *)
LEMMA Sequel ==
    ASSUME NEW r, NEW b \in Seq(Byte), NEW c \in Seq(Byte), NEW v, NEW w,
           Fits(r, b \o c), NEW o, NEW p, o = Result(r, b, v),
           Whole(r, b) => p = Result(Behind(r, b), c, w)
    PROVE  Both2(r, b, c, o, p, v, w)
<1>1. Continues(r, b, c)
    BY Split
<1>2. ASSUME NEW x, NEW y PROVE Good(Got(x, y)) /\ ~ Good(Failed) /\ Got(x, y).v = x /\ Got(x, y).at = y
    BY DEF Good, Got, Failed
<1>3. CASE ~ Whole(r, b)
    <2>1. o = Failed /\ ~ Whole(r, b \o c)
        BY <1>1, <1>3 DEF Result, Continues
    <2> QED
        BY <1>2, <2>1 DEF Both, Both2, Result
<1>4. CASE Whole(r, b) /\ ~ Whole(r, b \o c)
    <2>1. Good(o) /\ p = Failed
        BY <1>1, <1>2, <1>4 DEF Result, Continues
    <2> QED
        BY <1>2, <1>4, <2>1 DEF Both, Both2, Result
<1>5. CASE Whole(r, b) /\ Whole(r, b \o c)
    <2>1. o = Got(v, r.offset + Len(b)) /\ p = Got(w, Behind(r, b).offset + Len(c))
        BY <1>1, <1>5 DEF Result, Continues
    <2>2. Good(o) /\ Good(p) /\ o.v = v /\ p.v = w /\ p.at = r.offset + Len(b \o c)
        BY <1>1, <1>2, <1>5, <2>1 DEF Continues
    <2> QED
        BY <1>5, <2>2 DEF Both, Both2, Result
<1> QED
    BY <1>3, <1>4, <1>5

LEMMA Results ==
    ASSUME NEW r, NEW b, NEW v
    PROVE  /\ Good(Result(r, b, v)) <=> Whole(r, b)
           /\ Whole(r, b) => /\ Result(r, b, v).v = v
                             /\ Result(r, b, v).at = r.offset + Len(b)
                             /\ At(r, Result(r, b, v).at) = Behind(r, b)
           /\ ~ Whole(r, b) => \A w : Result(r, b, v) = Result(r, b, w)
           /\ \A w : Whole(r, b) => Got(w, Result(r, b, v).at) = Result(r, b, w)
<1>1. ASSUME NEW x, NEW y PROVE Good(Got(x, y)) /\ ~ Good(Failed) /\ Got(x, y).v = x /\ Got(x, y).at = y
    BY DEF Good, Got, Failed
<1> QED
    BY <1>1 DEF Result, Behind

(* A slice of the data; one as long as b is b.                             *)
IsSlice(t, s, o, k) == t \in Seq(Byte) /\ Len(t) = k /\ \A j \in 1 .. k : t[j] = s[o + j]

(* A part of the data, byte by byte.                                       *)
LEMMA Sliced ==
    ASSUME NEW s \in Seq(Byte), NEW o \in Nat, NEW k \in Nat, o + k <= Len(s)
    PROVE  IsSlice(SubSeq(s, o + 1, o + k), s, o, k)
<1> DEFINE m == o + 1
           n == o + k
           t == SubSeq(s, m, n)
<1>1. m \in Int /\ n \in Int /\ n - m + 1 = k /\ (m <= n => 0 < k) /\ (~ (m <= n) => k = 0)
    OBVIOUS
<1>2. ASSUME NEW i \in m .. n PROVE s[i] \in Byte
    BY i \in 1 .. Len(s)
<1>3. m \in Int /\ n \in Int /\ \A i \in m .. n : s[i] \in Byte
    BY <1>1, <1>2
<1>4. \A j \in 1 .. k : m + j - 1 = o + j
    OBVIOUS
<1> HIDE DEF m, n
<1>5. /\ t \in Seq(Byte)
      /\ Len(t) = IF m <= n THEN n - m + 1 ELSE 0
      /\ \A i \in 1 .. n - m + 1 : t[i] = s[m + i - 1]
    BY <1>3, SubSeqProperties
<1> HIDE DEF t
<1>6. IsSlice(t, s, o, k)
    BY <1>1, <1>4, <1>5 DEF IsSlice
<1> QED
    BY <1>6 DEF t, m, n

(* A slice as long as b reads b.                                           *)
LEMMA SliceReads ==
    ASSUME NEW r, NEW b, Fits(r, b)
    PROVE  Slice(r, Len(b)) = Result(r, b, b)
<1> DEFINE o == r.offset
           n == Len(r.data)
           k == Len(b)
<1>a. /\ r \in Reader /\ b \in Seq(Byte) /\ o + k < Word
      /\ o \in Nat /\ n \in Nat /\ n + 1 < Word /\ r.data \in Seq(Byte)
    BY ReaderIs DEF ReaderFacts, Fits
<1>1. /\ o \in Nat /\ n \in Nat /\ n < Word /\ k \in Nat /\ o + k < Word /\ Word \in Nat
      /\ r.data \in Seq(Byte)
    <2>1. k \in Nat
        BY <1>a
    <2> HIDE DEF o, n, k
    <2> QED
        BY <1>a, <2>1, WordIs
<1>2. (o + k) % Word = o + k
    <2> HIDE DEF o, n, k
    <2> QED
        BY <1>1
<1>3. Need(r, k) <=> Whole(r, b)
    BY <1>2 DEF Need, Whole
<1>4. ASSUME Whole(r, b) PROVE SubSeq(r.data, o + 1, o + k) = b
    <2> DEFINE s == SubSeq(r.data, o + 1, o + k)
    <2>1. o + k <= n
        BY <1>4 DEF Whole
    <2>2. IsSlice(s, r.data, o, k)
        BY <1>1, <2>1, Sliced
    <2>3. s \in Seq(Byte) /\ Len(s) = k /\ \A j \in 1 .. k : s[j] = r.data[o + j]
        BY <2>2 DEF IsSlice
    <2>4. ASSUME NEW j \in 1 .. k PROVE s[j] = b[j]
        <3>1. o + j <= n
            BY <1>1, <2>1
        <3>2. r.data[o + j] = b[j]
            BY <3>1 DEF Fits, Agrees
        <3> QED
            BY <2>3, <3>2
    <2>5. b \in Seq(Byte)
        BY DEF Fits
    <2> HIDE DEF s
    <2>6. s = b
        BY <2>3, <2>4, <2>5, SeqEqual
    <2> QED
        BY <2>6 DEF s
<1>5. ~ (o + k >= Word)
    BY <1>1
<1> QED
    BY <1>3, <1>4, <1>5 DEF Slice, Result

(* What a slice is, whatever the buffer holds.                             *)
SliceIs(r, n, s) == /\ s.at = r.offset + n /\ s.at \in 0 .. Len(r.data)
                    /\ IsSlice(s.v, r.data, r.offset, n)

LEMMA SliceGood ==
    ASSUME NEW r \in Reader, NEW n \in Nat, Good(Slice(r, n))
    PROVE  SliceIs(r, n, Slice(r, n))
<1> DEFINE o == r.offset
           l == Len(r.data)
<1>1. o \in Nat /\ l \in Nat /\ l < Word /\ Word \in Nat /\ r.data \in Seq(Byte)
    BY ReaderIs, WordIs DEF ReaderFacts
<1>2. ASSUME NEW x, NEW y PROVE Got(x, y).v = x /\ Got(x, y).at = y
    BY DEF Got
<1>3. ~ Good(Failed) /\ ~ Good(Panicked)
    BY DEF Good, Failed, Panicked
<1>4. (o + n) % Word <= l /\ ~ (o + n >= Word)
    BY <1>3 DEF Slice, Need
<1>5. o + n <= l
    <2> HIDE DEF o, l
    <2> QED
        BY <1>1, <1>4
<1>6. Slice(r, n) = Got(SubSeq(r.data, o + 1, o + n), o + n)
    BY <1>4 DEF Slice, Need
<1>7. IsSlice(SubSeq(r.data, o + 1, o + n), r.data, o, n)
    BY <1>1, <1>5, Sliced
<1>8. o + n \in 0 .. l
    BY <1>1, <1>5
<1> HIDE DEF l
<1>9. Slice(r, n).at = o + n /\ Slice(r, n).v = SubSeq(r.data, o + 1, o + n)
    <2> DEFINE e == o + n
               t == SubSeq(r.data, o + 1, e)
               s == Slice(r, n)
    <2>1. s = Got(t, e)
        BY <1>6
    <2> HIDE DEF e, t, s
    <2>2. s.at = e /\ s.v = t
        BY <2>1 DEF Got
    <2> QED
        BY <2>2 DEF e, t, s
<1> QED
    BY <1>7, <1>8, <1>9 DEF SliceIs, l

-----------------------------------------------------------------------------
(* Reading a number                                                        *)
IsPasses(g, r, n) ==
    g = [k \in 0 .. n |-> IF k = 0 THEN More(0, r.offset) ELSE NextGroup(r, k, g[k - 1])]

LEMMA PassesExist == ASSUME NEW r, NEW n \in Nat PROVE \E g : IsPasses(g, r, n)
<1> DEFINE P == {m \in Nat : \E g : IsPasses(g, r, m)}
<1>1. 0 \in P
    <2> DEFINE g == [k \in 0 .. 0 |-> More(0, r.offset)]
    <2>1. IsPasses(g, r, 0)
        BY DEF IsPasses
    <2> QED
        BY <2>1
<1>2. ASSUME NEW m \in Nat, m \in P PROVE m + 1 \in P
    <2>1. PICK g : IsPasses(g, r, m)
        BY <1>2
    <2> DEFINE h == [k \in 0 .. m + 1 |-> IF k = m + 1 THEN NextGroup(r, m + 1, g[m]) ELSE g[k]]
    <2>2. ASSUME NEW k \in 0 .. m + 1
          PROVE  h[k] = IF k = 0 THEN More(0, r.offset) ELSE NextGroup(r, k, h[k - 1])
        <3>1. CASE k = m + 1
            <4>1. k # 0 /\ k - 1 = m /\ m \in 0 .. m + 1 /\ m # m + 1
                BY <3>1
            <4>2. h[m] = g[m] /\ h[k] = NextGroup(r, k, g[m])
                BY <3>1, <4>1
            <4> HIDE DEF h
            <4> QED
                BY <4>1, <4>2
        <3>2. CASE k # m + 1
            <4>1. k \in 0 .. m /\ h[k] = g[k]
                BY <3>2
            <4>2. g[k] = IF k = 0 THEN More(0, r.offset) ELSE NextGroup(r, k, g[k - 1])
                BY <2>1, <4>1 DEF IsPasses
            <4>3. k # 0 => k - 1 \in 0 .. m + 1 /\ k - 1 # m + 1
                BY <4>1
            <4>4. k # 0 => h[k - 1] = g[k - 1]
                BY <4>3
            <4> HIDE DEF h
            <4> QED
                BY <4>1, <4>2, <4>4
        <3> QED
            BY <3>1, <3>2
    <2>3. h = [k \in 0 .. m + 1 |-> h[k]]
        OBVIOUS
    <2> HIDE DEF h
    <2>4. IsPasses(h, r, m + 1)
        BY <2>2, <2>3 DEF IsPasses
    <2> QED
        BY <2>4
<1> HIDE DEF P
<1>3. n \in P
    BY <1>1, <1>2, Upwards
<1> QED
    BY <1>3 DEF P

LEMMA ReadVarIs ==
    ASSUME NEW r
    PROVE  \E g : IsPasses(g, r, Groups) /\ ReadVar(r) = g[Groups]
<1> DEFINE g == CHOOSE f : IsPasses(f, r, Groups)
<1>1. IsPasses(g, r, Groups)
    BY WidthsHold, PassesExist DEF Widths
<1>2. ReadVar(r) = g[Groups]
    BY DEF ReadVar, IsPasses
<1> QED
    BY <1>1, <1>2

(* One pass of the loop.                                                   *)
LEMMA PassIs ==
    ASSUME NEW g, NEW r, IsPasses(g, r, Groups), NEW k \in 0 .. Groups, k # Groups
    PROVE  g[k + 1] = NextGroup(r, k + 1, g[k])
<1>1. k + 1 \in 0 .. Groups /\ k + 1 # 0 /\ (k + 1) - 1 = k
    BY WidthsHold DEF Widths
<1> DEFINE j == k + 1
<1>2. g[j] = NextGroup(r, j, g[j - 1])
    <2> HIDE DEF j
    <2> QED
        BY <1>1 DEF IsPasses, j
<1> QED
    BY <1>1, <1>2

(* Once it is not to go on, it is done.                                    *)
LEMMA PassesEnd ==
    ASSUME NEW g, NEW r, IsPasses(g, r, Groups), NEW k \in 0 .. Groups, g[k].is # "more"
    PROVE  g[Groups] = g[k]
<1> DEFINE P == {m \in Nat : k + m <= Groups => g[k + m] = g[k]}
<1>0. Groups \in Nat
    BY WidthsHold DEF Widths
<1>1. 0 \in P
    OBVIOUS
<1>2. ASSUME NEW m \in Nat, m \in P PROVE m + 1 \in P
    <2> SUFFICES ASSUME k + (m + 1) <= Groups PROVE g[k + (m + 1)] = g[k]
        OBVIOUS
    <2>1. g[k + m] = g[k]
        BY <1>0, <1>2
    <2>2. k + m \in 0 .. Groups /\ k + m # Groups /\ (k + m) + 1 = k + (m + 1)
        BY <1>0
    <2> DEFINE j == k + m
    <2>3. g[j + 1] = NextGroup(r, j + 1, g[j])
        <3> HIDE DEF j
        <3> QED
            BY <2>2, PassIs DEF j
    <2> QED
        BY <2>1, <2>2, <2>3 DEF NextGroup
<1> HIDE DEF P
<1>3. Groups - k \in P
    BY <1>0, <1>1, <1>2, Upwards
<1>4. k + (Groups - k) = Groups /\ k + (Groups - k) <= Groups
    BY <1>0
<1> QED
    BY <1>3, <1>4 DEF P

LEMMA PlaceNat == ASSUME NEW k \in 0 .. Groups PROVE Place[k] \in Nat /\ Place[k] > 0
<1> DEFINE P == {m \in Nat : m <= Groups => Place[m] \in Nat /\ Place[m] > 0}
<1>0. Groups \in Nat /\ Group \in Nat /\ Group > 1
    BY WidthsHold DEF Widths
<1>1. 0 \in P
    BY PlaceIs
<1>2. ASSUME NEW m \in Nat, m \in P PROVE m + 1 \in P
    <2> SUFFICES ASSUME m + 1 <= Groups PROVE Place[m + 1] \in Nat /\ Place[m + 1] > 0
        OBVIOUS
    <2>1. Place[m] \in Nat /\ Place[m] > 0
        BY <1>0, <1>2
    <2>2. m + 1 \in 0 .. Groups /\ m + 1 # 0 /\ (m + 1) - 1 = m
        BY <1>0
    <2> DEFINE j == m + 1
    <2>3. Place[j] = Group * Place[j - 1]
        <3> HIDE DEF j
        <3> QED
            BY <2>2, PlaceIs DEF j
    <2>4. Place[m + 1] = Group * Place[m]
        BY <2>2, <2>3
    <2> DEFINE p == Place[m]
    <2> HIDE DEF p
    <2>5. Group * p \in Nat /\ Group * p >= p
        BY <1>0, <2>1 DEF p
    <2> QED
        BY <2>1, <2>4, <2>5 DEF p
<1> HIDE DEF P
<1>3. k \in P
    BY <1>0, <1>1, <1>2, Upwards
<1> QED
    BY <1>0, <1>3 DEF P

(* The byte of a group, and what it says.                                  *)
LEMMA Bytes ==
    ASSUME NEW b \in Byte
    PROVE  /\ b \in Nat /\ b % Group \in Nat /\ b % Group < Group
           /\ b < Group => b % Group = b
BY WidthsHold DEF Byte, Widths

LEMMA Sum ==
    ASSUME NEW x \in Nat, NEW b \in Byte, NEW k \in 0 .. Groups
    PROVE  /\ (x + (b % Group) * Place[k]) % Word \in Number
           /\ x + (b % Group) * Place[k] < Word =>
                 (x + (b % Group) * Place[k]) % Word = x + (b % Group) * Place[k]
<1> DEFINE p == Place[k]
           c == b % Group
<1>1. p \in Nat /\ c \in Nat
    BY PlaceNat, Bytes
<1> HIDE DEF p, c
<1>2. c * p \in Nat
    BY <1>1
<1> DEFINE y == x + c * p
<1>3. y \in Nat
    BY <1>2
<1>4. Word \in Nat /\ Word > 0
    BY WidthsHold DEF Widths
<1> HIDE DEF y
<1>5. y % Word \in 0 .. Word - 1 /\ (y < Word => y % Word = y)
    BY <1>3, <1>4
<1> QED
    BY <1>5 DEF y, p, c, Number

(* What a number is, whatever the buffer holds.                            *)
NumberIs(r, n) == n.v \in Number /\ n.at \in 0 .. Len(r.data)

LEMMA ReadVarGood ==
    ASSUME NEW r \in Reader, Good(ReadVar(r))
    PROVE  NumberIs(r, ReadVar(r))
<1>0. Groups \in Nat /\ Word \in Nat /\ Word > 0 /\ Group \in Nat /\ Group > 1
    BY WidthsHold DEF Widths
<1>1. PICK g : IsPasses(g, r, Groups) /\ ReadVar(r) = g[Groups]
    BY ReadVarIs
<1>2. ReaderFacts(r)
    BY ReaderIs
<1>3. ASSUME NEW x, NEW y
      PROVE  /\ Got(x, y).v = x /\ Got(x, y).at = y /\ Got(x, y).is # "more"
             /\ More(x, y).v = x /\ More(x, y).at = y /\ ~ Good(More(x, y)) /\ ~ Good(Failed)
             /\ Failed.is # "more"
    BY DEF Good, Failed, Got, More
<1> DEFINE Fine(o) == o.is = "more" \/ Good(o) => NumberIs(r, o)
           P == {k \in Nat : k <= Groups => Fine(g[k])}
<1>4. 0 \in P
    <2>1. g[0] = More(0, r.offset)
        BY <1>0, <1>1 DEF IsPasses
    <2>2. NumberIs(r, g[0])
        BY <1>0, <1>2, <1>3, <2>1 DEF NumberIs, Number, ReaderFacts
    <2> QED
        BY <2>2
<1>5. ASSUME NEW k \in Nat, k \in P PROVE k + 1 \in P
    <2> SUFFICES ASSUME k + 1 <= Groups PROVE Fine(g[k + 1])
        OBVIOUS
    <2>1. k \in 0 .. Groups /\ k # Groups /\ Fine(g[k])
        BY <1>0, <1>5
    <2>2. g[k + 1] = NextGroup(r, k + 1, g[k])
        BY <1>1, <2>1, PassIs
    <2> DEFINE o == g[k]
               at == o.at
               byte == r.data[at + 1]
               add == (byte % Group) * Place[(k + 1) - 1]
               sum == (o.v + add) % Word
    <2>3. CASE o.is # "more"
        BY <2>1, <2>2, <2>3 DEF NextGroup
    <2>4. CASE o.is = "more"
        <3>1. /\ at \in Nat /\ at <= Len(r.data) /\ Len(r.data) \in Nat
              /\ Len(r.data) + 1 < Word /\ o.v \in Nat
            BY <1>0, <1>2, <2>1, <2>4 DEF NumberIs, ReaderFacts, Number
        <3>2. CASE ~ Need(At(r, at), 1)
            BY <1>3, <2>2, <2>4, <3>2 DEF NextGroup
        <3>3. CASE Need(At(r, at), 1)
            <4>1. At(r, at).offset = at /\ At(r, at).data = r.data
                BY <3>1, AtIs
            <4>2. (at + 1) % Word <= Len(r.data)
                BY <3>3, <4>1 DEF Need
            <4>3. g[k + 1] = Got(sum, at + 1) \/ g[k + 1] = Failed \/ g[k + 1] = More(sum, at + 1)
                BY <2>2, <2>4, <3>3 DEF NextGroup
            <4>a. CASE g[k + 1] = Failed
                BY <1>3, <4>a
            <4>b. CASE ~ (g[k + 1] = Failed)
                <5>2. at + 1 \in 0 .. Len(r.data)
                    <6> DEFINE l == Len(r.data)
                    <6> HIDE DEF l, at
                    <6>1. (at + 1) % Word = at + 1
                        BY <1>0, <3>1 DEF l
                    <6> QED
                        BY <3>1, <4>2, <6>1 DEF l
                <5>1. sum \in Number
                    <6>1. byte \in Byte
                        BY <1>2, <3>1, <5>2 DEF ReaderFacts
                    <6>2. (k + 1) - 1 = k /\ k \in 0 .. Groups
                        BY <1>0, <2>1
                    <6> HIDE DEF byte
                    <6> QED
                        BY <3>1, <6>1, <6>2, Sum
                <5> HIDE DEF sum, at
                <5> QED
                    BY <1>3, <4>3, <4>b, <5>1, <5>2 DEF NumberIs
            <4> QED
                BY <4>a, <4>b
        <3> QED
            BY <3>2, <3>3
    <2> QED
        BY <2>3, <2>4
<1> HIDE DEF P
<1>6. Groups \in P
    BY <1>0, <1>4, <1>5, Upwards
<1> QED
    BY <1>0, <1>1, <1>6 DEF P

(* Reading what was written, from the k-th group on.                       *)
LEMMA Regroup ==
    ASSUME NEW w \in Nat, w >= Group, NEW p \in Nat
    PROVE  /\ (w % Group) * p + (w \div Group) * (Group * p) = w * p
           /\ (w % Group) * p <= w * p /\ Group * p <= w * p
           /\ (w % Group) * p \in Nat
<1> DEFINE d == w \div Group
           m == w % Group
<1>1. d \in Nat /\ m \in Nat /\ m < Group /\ w = Group * d + m /\ Group \in Nat /\ 0 < d
    BY Quotient, WidthsHold DEF Widths
<1> HIDE DEF d, m
<1>2. w * p = (Group * d) * p + m * p
    BY <1>1
<1>3. (Group * d) * p = d * (Group * p)
    BY <1>1
<1> DEFINE x == Group * p
           y == m * p
<1>4. x \in Nat /\ y \in Nat
    BY <1>1
<1>5. d * x >= x
    <2> HIDE DEF x
    <2> QED
        BY <1>1, <1>4
<1> HIDE DEF x, y
<1>6. d * x \in Nat
    BY <1>1, <1>4
<1>7. w * p = d * x + y
    BY <1>2, <1>3, <1>1, <1>4 DEF x, y
<1> QED
    BY <1>4, <1>5, <1>6, <1>7 DEF x, y, d, m

(* From the k-th group on, with sum read so far, w is to be read at q.     *)
Reading(g, r, w, k, sum, at) ==
    /\ k \in 0 .. Groups /\ k # Groups /\ sum \in Nat /\ at \in Nat /\ at <= Len(r.data)
    /\ g[k] = More(sum, at)
    /\ sum + w * Place[k] < Word
    /\ Fits(At(r, at), WriteVar[w])
ReadsOn(g, r, w) ==
    \A k, sum, at : Reading(g, r, w, k, sum, at) =>
        g[Groups] = Result(At(r, at), WriteVar[w], sum + w * Place[k])

(* One more group: what stands there is a byte of w.                       *)
LEMMA NextByte ==
    ASSUME NEW g, NEW r \in Reader, IsPasses(g, r, Groups), NEW w \in Number, NEW k, NEW sum, NEW at,
           Reading(g, r, w, k, sum, at), NEW x \in Byte, NEW rest \in Seq(Byte),
           WriteVar[w] = <<x>> \o rest
    PROVE  LET q == At(r, at)
               new == (sum + (x % Group) * Place[k]) % Word
           IN /\ Continues(q, <<x>>, rest)
              /\ Whole(q, <<x>>) <=> at + 1 <= Len(r.data)
              /\ Whole(q, <<x>>) => /\ Behind(q, <<x>>) = At(r, at + 1)
                                    /\ g[k + 1] = IF x < Group THEN Got(new, at + 1)
                                                  ELSE IF k + 1 = Groups THEN Failed
                                                  ELSE More(new, at + 1)
              /\ ~ Whole(q, <<x>>) => g[k + 1] = Failed
<1> DEFINE q == At(r, at)
           new == (sum + (x % Group) * Place[k]) % Word
<1>0. /\ k \in 0 .. Groups /\ k # Groups /\ at \in Nat /\ g[k] = More(sum, at) /\ at <= Len(r.data)
      /\ Fits(q, <<x>> \o rest)
    BY DEF Reading
<1>1. <<x>> \in Seq(Byte) /\ Len(<<x>>) = 1 /\ <<x>>[1] = x
    OBVIOUS
<1>2. Continues(q, <<x>>, rest)
    BY <1>0, <1>1, Split
<1>3. q.data = r.data /\ q.offset = at /\ q \in Reader
    BY <1>0, AtIs
<1>4. Whole(q, <<x>>) <=> at + 1 <= Len(r.data)
    BY <1>1, <1>3 DEF Whole
<1>5. Behind(q, <<x>>) = At(r, at + 1)
    BY <1>1, <1>3, AtAt DEF Behind
<1>6. g[k + 1] = NextGroup(r, k + 1, g[k])
    BY <1>0, PassIs
<1>7. (at + 1) % Word = at + 1
    <2> DEFINE l == Len(r.data)
    <2>1. l \in Nat /\ l + 1 < Word /\ Word \in Nat
        BY ReaderIs, WordIs DEF ReaderFacts
    <2>2. at + 1 < Word
        BY <1>0, <2>1
    <2> QED
        BY ONLY <1>0, <2>1, <2>2, at \in Nat
<1>8. Need(At(r, at), 1) <=> Whole(q, <<x>>)
    BY <1>3, <1>4, <1>7 DEF Need
<1>9. g[k].is = "more" /\ g[k].v = sum /\ g[k].at = at /\ (k + 1) - 1 = k
    BY <1>0, WidthsHold DEF More, Widths
<1>10. ASSUME Whole(q, <<x>>) PROVE r.data[at + 1] = x
    <2>1. Agrees(q, <<x>>)
        BY <1>2 DEF Continues, Fits
    <2>2. 1 \in 1 .. Len(<<x>>)
        BY <1>1
    <2> QED
        BY <1>1, <1>3, <1>4, <1>10, <2>1, <2>2 DEF Agrees
<1>11. Whole(q, <<x>>) => g[k + 1] = IF x < Group THEN Got(new, at + 1)
                                      ELSE IF k + 1 = Groups THEN Failed
                                      ELSE More(new, at + 1)
    BY <1>6, <1>8, <1>9, <1>10 DEF NextGroup
<1>12. ~ Whole(q, <<x>>) => g[k + 1] = Failed
    BY <1>6, <1>8, <1>9 DEF NextGroup
<1> QED
    BY <1>2, <1>4, <1>5, <1>11, <1>12

(* The last group.                                                         *)
LEMMA ReadsOnSmall ==
    ASSUME NEW g, NEW r \in Reader, IsPasses(g, r, Groups), NEW w \in Number, w < Group
    PROVE  ReadsOn(g, r, w)
<1> SUFFICES ASSUME NEW k, NEW sum, NEW at, Reading(g, r, w, k, sum, at)
             PROVE  g[Groups] = Result(At(r, at), WriteVar[w], sum + w * Place[k])
    BY DEF ReadsOn
<1> DEFINE q == At(r, at)
           b == WriteVar[w]
<1>0. Group \in Nat /\ 1 < Group /\ Groups \in Nat /\ w \in Nat
    BY WidthsHold DEF Widths, Number
<1>a. b = <<w>>
    BY WriteVarIs
<1>b. w \in Byte
    BY <1>0 DEF Byte
<1>1. b = <<w>> /\ w \in Byte /\ b = <<w>> \o <<>> /\ <<>> \in Seq(Byte) /\ Len(<<w>>) = 1
    <2> HIDE DEF b
    <2> QED
        BY <1>a, <1>b
<1>2. /\ Whole(q, <<w>>) => g[k + 1] = Got((sum + (w % Group) * Place[k]) % Word, at + 1)
      /\ ~ Whole(q, <<w>>) => g[k + 1] = Failed
    <2> DEFINE rest == <<>>
    <2>1. WriteVar[w] = <<w>> \o rest /\ rest \in Seq(Byte) /\ w \in Byte
        BY <1>1
    <2> HIDE DEF rest
    <2> QED
        BY <2>1, NextByte
<1>3. /\ k \in 0 .. Groups /\ k # Groups /\ sum \in Nat /\ at \in Nat
      /\ at <= Len(r.data) /\ sum + w * Place[k] < Word
    BY DEF Reading
<1>4. w % Group = w
    BY <1>0, Quotient
<1>5. (sum + (w % Group) * Place[k]) % Word = sum + w * Place[k]
    BY <1>1, <1>3, <1>4, Sum
<1>6. k + 1 \in 0 .. Groups
    BY <1>0, <1>3
<1>7. ASSUME NEW x, NEW y PROVE Got(x, y).is # "more" /\ Failed.is # "more"
    BY DEF Got, Failed
<1>8. g[Groups] = g[k + 1]
    BY <1>2, <1>6, <1>7, PassesEnd
<1>9. q.offset + Len(b) = at + 1
    BY <1>1, <1>3, AtIs
<1> QED
    BY <1>1, <1>2, <1>5, <1>8, <1>9 DEF Result

(* A group that is not the last, given what is behind it.                  *)
LEMMA ReadsOnLarge ==
    ASSUME NEW g, NEW r \in Reader, IsPasses(g, r, Groups), NEW w \in Number, w >= Group,
           ReadsOn(g, r, w \div Group)
    PROVE  ReadsOn(g, r, w)
<1> SUFFICES ASSUME NEW k, NEW sum, NEW at, Reading(g, r, w, k, sum, at)
             PROVE  g[Groups] = Result(At(r, at), WriteVar[w], sum + w * Place[k])
    BY DEF ReadsOn
<1> DEFINE q == At(r, at)
           x == Group + (w % Group)
           d == w \div Group
           rest == WriteVar[d]
           p == Place[k]
           new == sum + (w % Group) * p
<1>0. Group \in Nat /\ 1 < Group /\ Groups \in Nat /\ w \in Nat /\ Word \in Nat /\ Word <= Place[Groups]
    BY WidthsHold DEF Widths, Number
<1>1. w % Group \in Nat /\ w % Group < Group /\ d \in Nat
    BY <1>0, Quotient
<1>2. x \in Byte /\ x >= Group /\ x % Group = w % Group
    <2> DEFINE m == w % Group
    <2> HIDE DEF m
    <2>1. m \in Nat /\ m < Group
        BY <1>1 DEF m
    <2>2. (Group + m) \in Byte /\ Group + m >= Group /\ (Group + m) % Group = m
        BY <1>0, <2>1 DEF Byte
    <2> QED
        BY <2>2 DEF m
<1>3. WriteVar[w] = <<x>> \o rest /\ d \in Number
    BY WriteVarIs
<1>4. rest \in Seq(Byte)
    BY <1>3, WriteVarBytes
<1>5. /\ k \in 0 .. Groups /\ k # Groups /\ sum \in Nat /\ at \in Nat
      /\ at <= Len(r.data) /\ sum + w * p < Word
    BY DEF Reading
<1>6. p \in Nat
    BY <1>5, PlaceNat
<1>7. /\ (w % Group) * p + d * (Group * p) = w * p
      /\ (w % Group) * p <= w * p /\ Group * p <= w * p
      /\ (w % Group) * p \in Nat
    BY <1>0, <1>6, Regroup
<1>8. k + 1 \in 0 .. Groups /\ Place[k + 1] = Group * p
    <2>1. k + 1 \in 0 .. Groups /\ k + 1 # 0 /\ (k + 1) - 1 = k
        BY <1>0, <1>5
    <2> DEFINE j == k + 1
    <2>2. Place[j] = Group * Place[j - 1]
        <3> HIDE DEF j
        <3> QED
            BY <2>1, PlaceIs DEF j
    <2> QED
        BY <2>1, <2>2
<1> DEFINE wp == w * p
           gp == Group * p
           mp == (w % Group) * p
<1>9. wp \in Nat /\ gp \in Nat
    BY <1>0, <1>6
<1>10. k + 1 # Groups
    <2> SUFFICES ASSUME k + 1 = Groups PROVE FALSE
        OBVIOUS
    <2>1. Place[k + 1] >= Word
        BY <1>0
    <2> HIDE DEF wp, gp
    <2> QED
        BY <1>0, <1>5, <1>7, <1>8, <1>9, <2>1 DEF wp, gp
<1>11. new \in Nat /\ new < Word /\ (sum + (x % Group) * p) % Word = new
    <2>1. new \in Nat /\ new < Word
        <3>1. mp \in Nat /\ mp <= wp /\ sum + wp < Word /\ wp \in Nat
            BY <1>5, <1>7, <1>9
        <3> HIDE DEF wp, mp
        <3>2. sum + mp \in Nat /\ sum + mp < Word
            BY <1>0, <1>5, <3>1
        <3> QED
            BY <3>2 DEF mp
    <2>2. sum + (x % Group) * p = new
        BY <1>2
    <2> HIDE DEF x, p
    <2> QED
        BY <1>2, <1>5, <2>1, <2>2, Sum DEF p
<1>12. /\ Continues(q, <<x>>, rest)
       /\ Whole(q, <<x>>) <=> at + 1 <= Len(r.data)
       /\ Whole(q, <<x>>) => /\ Behind(q, <<x>>) = At(r, at + 1)
                             /\ g[k + 1] = More(new, at + 1)
       /\ ~ Whole(q, <<x>>) => g[k + 1] = Failed
    <2>1. ~ (x < Group)
        BY <1>0, <1>1, <1>2
    <2> HIDE DEF x, rest, new, p
    <2>2. (sum + (x % Group) * Place[k]) % Word = new
        BY <1>11 DEF p
    <2> QED
        BY <1>2, <1>3, <1>4, <1>10, <2>1, <2>2, NextByte
<1>13. sum + w * p = new + d * Place[k + 1]
    <2> DEFINE dg == d * (Group * p)
    <2>1. dg \in Nat
        BY <1>0, <1>1, <1>6, <1>9
    <2> HIDE DEF dg, wp, mp
    <2>2. sum + wp = (sum + mp) + dg
        BY <1>5, <1>7, <1>9, <2>1 DEF dg, wp, mp
    <2> QED
        BY <1>8, <2>2 DEF dg, wp, mp
<1>14. CASE Whole(q, <<x>>)
    <2>1. Reading(g, r, d, k + 1, new, at + 1)
        <3>1. Fits(At(r, at + 1), rest)
            BY <1>12, <1>14 DEF Continues
        <3>2. at + 1 \in Nat /\ at + 1 <= Len(r.data)
            BY <1>5, <1>12, <1>14
        <3>3. g[k + 1] = More(new, at + 1)
            BY <1>12, <1>14
        <3>4. new + d * Place[k + 1] < Word
            BY <1>5, <1>13
        <3> HIDE DEF new, d
        <3> QED
            BY <1>8, <1>10, <1>11, <3>1, <3>2, <3>3, <3>4 DEF Reading
    <2>2. g[Groups] = Result(At(r, at + 1), rest, new + d * Place[k + 1])
        BY <2>1 DEF ReadsOn
    <2>3. Result(At(r, at + 1), rest, sum + w * p) = Result(q, <<x>> \o rest, sum + w * p)
        BY <1>12, <1>14 DEF Continues, Result
    <2> QED
        BY <1>3, <1>13, <2>2, <2>3
<1>15. CASE ~ Whole(q, <<x>>)
    <2>1. g[k + 1] = Failed /\ ~ Whole(q, <<x>> \o rest)
        BY <1>12, <1>15 DEF Continues
    <2>2. g[Groups] = Failed
        BY <1>8, <2>1, PassesEnd DEF Failed
    <2> QED
        BY <1>3, <2>1, <2>2 DEF Result
<1> QED
    BY <1>14, <1>15

(* What write_var_u64 writes, read_var_u64 reads as the same number, at    *)
(* any place of a buffer, and as an error where the buffer ends before the *)
(* number does: for any size of the groups and any width.                  *)
THEOREM ReadVarReads ==
    ASSUME NEW v \in Number, NEW r, Fits(r, WriteVar[v])
    PROVE  ReadVar(r) = Result(r, WriteVar[v], v)
<1>0. Group \in Nat /\ 1 < Group /\ Groups \in Nat /\ Groups # 0 /\ 0 \in 0 .. Groups /\ Word \in Nat
    BY WidthsHold DEF Widths
<1>1. r \in Reader
    BY DEF Fits
<1>2. PICK g : IsPasses(g, r, Groups) /\ ReadVar(r) = g[Groups]
    BY ReadVarIs
<1> DEFINE P == {n \in Nat : n \in Number => ReadsOn(g, r, n)}
<1>3. ASSUME NEW n \in Nat, \A m \in Nat : m < n => m \in P PROVE n \in P
    <2> SUFFICES ASSUME n \in Number PROVE ReadsOn(g, r, n)
        OBVIOUS
    <2>1. CASE n < Group
        BY <1>1, <1>2, <2>1, ReadsOnSmall
    <2>2. CASE n >= Group
        <3>1. n \div Group \in Nat /\ n \div Group < n
            BY <2>2, Quotient
        <3>2. n \div Group \in P
            BY <1>3, <3>1
        <3>3. n \div Group \in Number
            BY <2>2, WriteVarIs
        <3> QED
            BY <1>1, <1>2, <2>2, <3>2, <3>3, ReadsOnLarge
    <2> QED
        BY <1>0, <2>1, <2>2
<1> HIDE DEF P
<1>4. v \in Nat
    BY <1>0 DEF Number
<1>5. ReadsOn(g, r, v)
    BY <1>3, <1>4, FromBelow DEF P
<1>6. g[0] = More(0, r.offset)
    BY <1>0, <1>2 DEF IsPasses
<1>7. 0 + v * Place[0] = v
    BY <1>4, PlaceIs
<1>8. Reading(g, r, v, 0, 0, r.offset)
    BY <1>0, <1>1, <1>4, <1>6, <1>7, ReaderIs, AtHere DEF Reading, ReaderFacts, Number
<1>9. g[Groups] = Result(At(r, r.offset), WriteVar[v], v)
    BY <1>5, <1>7, <1>8 DEF ReadsOn
<1> QED
    BY <1>1, <1>2, <1>9, AtHere

-----------------------------------------------------------------------------
(* Types.  Reading b with T gives m, or an error when b is not all there;  *)
(* what W writes for v, T reads as m; T reads as it means what T writes;   *)
(* and what T reads, of whatever buffer, W writes and T reads again.       *)
Reads(T, b, m) == \A r : Fits(r, b) => T.read[r] = Result(r, b, m)
Carries(T, W, v, m) == v \in W.values /\ W.wire[v] \in Seq(Byte) /\ Reads(T, W.wire[v], m)
Sound(T) == \A v \in T.values : Carries(T, T, v, T.meant[v])
Kept(T, W, r, o) == o.at \in 0 .. Len(r.data) /\ Carries(T, W, o.v, o.v)
Echo(T, W) == \A r \in Reader : Good(T.read[r]) => Kept(T, W, r, T.read[r])

(* What Got gives, and that the errors are not good.                       *)
LEMMA GotIs ==
    ASSUME NEW x, NEW y
    PROVE  Good(Got(x, y)) /\ ~ Good(Failed) /\ ~ Good(Panicked) /\ Got(x, y).v = x /\ Got(x, y).at = y
BY DEF Good, Got, Failed, Panicked

(* One byte                                                                *)
LEMMA OneByteReads ==
    ASSUME NEW S, NEW b, NEW as, NEW m, NEW sample, NEW x \in Byte
    PROVE  Reads(OneByte(S, b, as, m, sample), <<x>>, as[x])
<1> DEFINE T == OneByte(S, b, as, m, sample)
<1> SUFFICES ASSUME NEW r, Fits(r, <<x>>) PROVE T.read[r] = Result(r, <<x>>, as[x])
    BY DEF Reads
<1>1. Len(<<x>>) = 1 /\ <<x>>[1] = x
    OBVIOUS
<1>2. Slice(r, 1) = Result(r, <<x>>, <<x>>)
    BY <1>1, SliceReads
<1>3. T.read[r] = IF Good(Slice(r, 1)) THEN Got(as[Slice(r, 1).v[1]], Slice(r, 1).at) ELSE Slice(r, 1)
    BY DEF OneByte, Fits
<1> HIDE DEF T
<1>4. CASE Whole(r, <<x>>)
    <2>1. Slice(r, 1) = Got(<<x>>, r.offset + Len(<<x>>))
        BY <1>2, <1>4 DEF Result
    <2>2. Good(Slice(r, 1)) /\ Slice(r, 1).v = <<x>> /\ Slice(r, 1).at = r.offset + Len(<<x>>)
        BY <2>1, GotIs
    <2>3. T.read[r] = Got(as[x], r.offset + Len(<<x>>))
        BY <1>1, <1>3, <2>2
    <2> QED
        BY <1>4, <2>3 DEF Result
<1>5. CASE ~ Whole(r, <<x>>)
    BY <1>2, <1>3, <1>5, GotIs DEF Result
<1> QED
    BY <1>4, <1>5

IsOneByte(T, as) == \E S, b, m, sample : T = OneByte(S, b, as, m, sample)
ReadAs(r, o, as) == o.at \in 0 .. Len(r.data) /\ \E x \in Byte : o.v = as[x]

(* What one byte reads as, whatever it is.                                 *)
LEMMA OneByteGood ==
    ASSUME NEW T, NEW as, IsOneByte(T, as), NEW r \in Reader, Good(T.read[r])
    PROVE  ReadAs(r, T.read[r], as)
<1> DEFINE o == T.read[r]
           s == Slice(r, 1)
<1>1. o = IF Good(s) THEN Got(as[s.v[1]], s.at) ELSE s
    <2>1. PICK S, b, m, sample : T = OneByte(S, b, as, m, sample)
        BY DEF IsOneByte
    <2> QED
        BY <2>1 DEF OneByte
<1> HIDE DEF o
<1>2. Good(s)
    BY <1>1 DEF o
<1>3. SliceIs(r, 1, s)
    BY <1>2, SliceGood
<1> HIDE DEF s
<1>4. s.v[1] \in Byte
    BY <1>3 DEF SliceIs, IsSlice
<1>5. o = Got(as[s.v[1]], s.at)
    BY <1>1, <1>2
<1>6. o.at = s.at /\ o.v = as[s.v[1]]
    BY <1>5 DEF Got
<1> QED
    BY <1>3, <1>4, <1>6 DEF SliceIs, ReadAs, o

LEMMA BoolCarries == ASSUME NEW v \in BOOLEAN PROVE Carries(Bool, Bool, v, v)
<1> DEFINE b == [w \in BOOLEAN |-> IF w THEN 1 ELSE 0]
           as == [x \in Byte |-> x # 0]
<1>1. 0 \in Byte /\ 1 \in Byte
    BY WidthsHold DEF Widths, Byte
<1>2. b[v] \in Byte /\ as[b[v]] = v
    BY <1>1
<1> HIDE DEF b, as
<1>3. Reads(Bool, <<b[v]>>, as[b[v]])
    BY <1>2, OneByteReads DEF Bool, b, as
<1>4. Bool.values = BOOLEAN /\ Bool.wire[v] = <<b[v]>>
    BY DEF Bool, OneByte, b
<1> QED
    BY <1>2, <1>3, <1>4 DEF Carries

LEMMA BoolSound == Sound(Bool)
<1>1. Bool.values = BOOLEAN /\ \A v \in BOOLEAN : Bool.meant[v] = v
    BY DEF Bool, OneByte
<1> QED
    BY <1>1, BoolCarries DEF Sound

LEMMA BoolEcho == Echo(Bool, Bool)
<1> SUFFICES ASSUME NEW r \in Reader, Good(Bool.read[r]) PROVE Kept(Bool, Bool, r, Bool.read[r])
    BY DEF Echo
<1> DEFINE as == [y \in Byte |-> y # 0]
<1>a. IsOneByte(Bool, as)
    BY DEF Bool, IsOneByte
<1> HIDE DEF as
<1>b. ReadAs(r, Bool.read[r], as)
    BY <1>a, OneByteGood
<1>1. Bool.read[r].at \in 0 .. Len(r.data) /\ \E x \in Byte : Bool.read[r].v = (x # 0)
    BY <1>b DEF ReadAs, as
<1>2. Bool.read[r].v \in BOOLEAN
    BY <1>1
<1> QED
    BY <1>1, <1>2, BoolCarries DEF Kept

LEMMA U8Carries == ASSUME NEW v \in Byte PROVE Carries(U8, U8, v, v)
<1>1. Reads(U8, <<v>>, Same[v])
    BY OneByteReads DEF U8
<1>2. U8.values = Byte /\ U8.wire[v] = <<v>> /\ Same[v] = v
    BY DEF U8, OneByte, Same
<1> QED
    BY <1>1, <1>2 DEF Carries

LEMMA U8Sound == Sound(U8)
<1>1. U8.values = Byte /\ \A v \in Byte : U8.meant[v] = v
    BY DEF U8, OneByte, Same
<1> QED
    BY <1>1, U8Carries DEF Sound

LEMMA U8Echo == Echo(U8, U8)
<1> SUFFICES ASSUME NEW r \in Reader, Good(U8.read[r]) PROVE Kept(U8, U8, r, U8.read[r])
    BY DEF Echo
<1>a. IsOneByte(U8, Same)
    BY DEF U8, IsOneByte
<1>b. ReadAs(r, U8.read[r], Same)
    BY <1>a, OneByteGood
<1>1. U8.read[r].at \in 0 .. Len(r.data) /\ \E x \in Byte : U8.read[r].v = Same[x]
    BY <1>b DEF ReadAs
<1>2. U8.read[r].v \in Byte
    BY <1>1 DEF Same
<1> QED
    BY <1>1, <1>2, U8Carries DEF Kept

(* An enum reads the numbers it does not know as 0.                        *)
LEMMA EnumReads ==
    ASSUME NEW last \in Nat, NEW x \in Byte
    PROVE  Reads(Enum(last), <<x>>, IF x > last THEN 0 ELSE x)
<1> DEFINE as == [y \in Byte |-> IF y > last THEN 0 ELSE y]
<1>1. Reads(Enum(last), <<x>>, as[x])
    BY OneByteReads DEF Enum
<1> QED
    BY <1>1

LEMMA EnumSound == ASSUME NEW last \in Nat PROVE Sound(Enum(last))
<1>1. /\ Enum(last).values = Byte
      /\ \A v \in Byte : /\ Enum(last).wire[v] = <<v>>
                         /\ Enum(last).meant[v] = IF v > last THEN 0 ELSE v
    BY DEF Enum, OneByte, Same
<1>2. ASSUME NEW v \in Byte PROVE Carries(Enum(last), Enum(last), v, Enum(last).meant[v])
    <2>1. Reads(Enum(last), <<v>>, Enum(last).meant[v])
        BY <1>1, EnumReads
    <2>2. <<v>> \in Seq(Byte)
        OBVIOUS
    <2> QED
        BY <1>1, <2>1, <2>2 DEF Carries
<1> QED
    BY <1>1, <1>2 DEF Sound

LEMMA EnumEcho == ASSUME NEW last \in Nat PROVE Echo(Enum(last), U8)
<1> SUFFICES ASSUME NEW r \in Reader, Good(Enum(last).read[r])
             PROVE  Kept(Enum(last), U8, r, Enum(last).read[r])
    BY DEF Echo
<1> DEFINE o == Enum(last).read[r]
           as == [y \in Byte |-> IF y > last THEN 0 ELSE y]
<1>a. IsOneByte(Enum(last), as)
    BY DEF Enum, IsOneByte
<1> HIDE DEF as
<1>b. ReadAs(r, o, as)
    BY <1>a, OneByteGood
<1>1. o.at \in 0 .. Len(r.data)
    BY <1>b DEF ReadAs
<1>2. PICK x \in Byte : o.v = IF x > last THEN 0 ELSE x
    BY <1>b DEF ReadAs, as
<1>3. 0 \in Byte /\ x \in Nat
    BY WidthsHold DEF Widths, Byte
<1>4. o.v \in Byte /\ ~ (o.v > last)
    BY <1>2, <1>3
<1>5. Reads(Enum(last), <<o.v>>, o.v)
    BY <1>4, EnumReads
<1>6. U8.values = Byte /\ U8.wire[o.v] = <<o.v>>
    BY <1>4 DEF U8, OneByte, Same
<1> QED
    BY <1>1, <1>4, <1>5, <1>6 DEF Kept, Carries

(* Numbers                                                                 *)
IsOneNumber(T, S, u, as) == \E sample : T = OneNumber(S, u, as, sample)
Converts(S, u, as) == \A v \in S : u[v] \in Number /\ as[u[v]] = v

(* A number of a narrower or signed type, by its conversions.              *)
LEMMA OneNumberCarries ==
    ASSUME NEW T, NEW S, NEW u, NEW as, IsOneNumber(T, S, u, as), Converts(S, u, as), NEW v \in S
    PROVE  Carries(T, T, v, v)
<1>1. PICK sample : T = OneNumber(S, u, as, sample)
    BY DEF IsOneNumber
<1> DEFINE b == WriteVar[u[v]]
<1>2. u[v] \in Number /\ as[u[v]] = v
    BY DEF Converts
<1>3. v \in T.values /\ T.wire[v] = b /\ b \in Seq(Byte)
    BY <1>1, <1>2, WriteVarBytes DEF OneNumber
<1>4. ASSUME NEW r, Fits(r, b) PROVE T.read[r] = Result(r, b, v)
    <2>1. ReadVar(r) = Result(r, b, u[v])
        BY <1>2, <1>4, ReadVarReads
    <2>2. T.read[r] = IF Good(ReadVar(r)) THEN Got(as[ReadVar(r).v], ReadVar(r).at) ELSE ReadVar(r)
        BY <1>1, <1>4 DEF OneNumber, Converted, Fits
    <2> DEFINE n == ReadVar(r)
               e == r.offset + Len(b)
               x == u[v]
    <2> HIDE DEF n
    <2>3. CASE Whole(r, b)
        <3>1. n = Got(x, e)
            BY <2>1, <2>3 DEF Result, n
        <3> HIDE DEF x, e
        <3>2. Good(n) /\ n.v = x /\ n.at = e
            BY <3>1, GotIs DEF Got
        <3>3. T.read[r] = Got(v, e)
            BY <1>2, <2>2, <3>2 DEF x, n
        <3> QED
            BY <2>3, <3>3 DEF Result, e
    <2>4. CASE ~ Whole(r, b)
        <3>1. n = Failed /\ Result(r, b, v) = Failed
            BY <2>1, <2>4 DEF Result, n
        <3>2. ~ Good(n)
            BY <3>1, GotIs
        <3> QED
            BY <2>2, <3>1, <3>2 DEF n
    <2> QED
        BY <2>3, <2>4
<1>5. Reads(T, b, v)
    BY <1>4 DEF Reads
<1> QED
    BY <1>3, <1>5 DEF Carries

LEMMA OneNumberSound ==
    ASSUME NEW T, NEW S, NEW u, NEW as, IsOneNumber(T, S, u, as), Converts(S, u, as)
    PROVE  Sound(T)
<1>1. T.values = S /\ \A v \in S : T.meant[v] = v
    BY DEF IsOneNumber, OneNumber
<1> QED
    BY <1>1, OneNumberCarries DEF Sound

LEMMA OneNumberEcho ==
    ASSUME NEW T, NEW S, NEW u, NEW as, IsOneNumber(T, S, u, as), Converts(S, u, as),
           \A x \in Number : as[x] \in S
    PROVE  Echo(T, T)
<1> SUFFICES ASSUME NEW r \in Reader, Good(T.read[r]) PROVE Kept(T, T, r, T.read[r])
    BY DEF Echo
<1>1. PICK sample : T = OneNumber(S, u, as, sample)
    BY DEF IsOneNumber
<1> DEFINE n == ReadVar(r)
           o == T.read[r]
<1>2. o = IF Good(n) THEN Got(as[n.v], n.at) ELSE n
    BY <1>1 DEF OneNumber, Converted
<1> HIDE DEF o, n
<1>3. Good(n)
    BY <1>2 DEF o
<1>4. NumberIs(r, n)
    BY <1>3, ReadVarGood DEF n
<1>5. o = Got(as[n.v], n.at)
    BY <1>2, <1>3
<1>6. o.at = n.at /\ o.v = as[n.v]
    BY <1>5 DEF Got
<1>7. o.v \in S /\ o.at \in 0 .. Len(r.data)
    BY <1>4, <1>6 DEF NumberIs
<1>8. Carries(T, T, o.v, o.v)
    BY <1>7, OneNumberCarries
<1> QED
    BY <1>7, <1>8 DEF Kept, o

LEMMA U16Sound == Sound(U16)
<1> DEFINE S == 0 .. Quarter - 1
           u == [v \in S |-> v]
           as == [x \in Number |-> x % Quarter]
<1>1. IsOneNumber(U16, S, u, as)
    BY DEF U16, IsOneNumber
<1>2. Converts(S, u, as)
    <2> SUFFICES ASSUME NEW v \in S PROVE u[v] \in Number /\ as[u[v]] = v
        BY DEF Converts
    <2>1. v \in Number /\ v % Quarter = v
        BY WidthsHold DEF Widths, Number
    <2> QED
        BY <2>1
<1> HIDE DEF S, u, as
<1> QED
    BY <1>1, <1>2, OneNumberSound

(* Zigzag is undone, at every even width.                                  *)
LEMMA ZigzagIs ==
    ASSUME NEW w \in Nat, w % 2 = 0, w > 0
    PROVE  /\ \A v \in Signed(w) : /\ ZigzagEncode(v) \in 0 .. w - 1
                                   /\ ZigzagDecode(ZigzagEncode(v)) = v
           /\ \A x \in 0 .. w - 1 : ZigzagDecode(x) \in Signed(w)
<1> DEFINE h == w \div 2
<1>1. h \in Nat /\ w = 2 * h
    OBVIOUS
<1> HIDE DEF h
<1>2. Signed(w) = -h .. h - 1
    BY DEF Signed, h
<1>3. ASSUME NEW v \in -h .. h - 1
      PROVE  ZigzagEncode(v) \in 0 .. w - 1 /\ ZigzagDecode(ZigzagEncode(v)) = v
    <2>1. CASE v >= 0
        <3>1. ZigzagEncode(v) = 2 * v /\ 2 * v \in 0 .. w - 1
            BY <1>1, <2>1 DEF ZigzagEncode
        <3>2. (2 * v) % 2 = 0 /\ (2 * v) \div 2 = v
            BY <2>1
        <3> QED
            BY <3>1, <3>2 DEF ZigzagDecode
    <2>2. CASE v < 0
        <3> DEFINE x == -2 * v - 1
        <3>1. ZigzagEncode(v) = x /\ x \in 0 .. w - 1
            BY <1>1, <2>2 DEF ZigzagEncode
        <3>2. x % 2 = 1 /\ x \div 2 = -v - 1
            BY <2>2
        <3> HIDE DEF x
        <3> QED
            BY <3>1, <3>2 DEF ZigzagDecode
    <2> QED
        BY <2>1, <2>2
<1>4. ASSUME NEW x \in 0 .. w - 1 PROVE ZigzagDecode(x) \in -h .. h - 1
    <2>1. x \div 2 \in 0 .. h - 1
        BY <1>1
    <2> QED
        BY <1>1, <2>1 DEF ZigzagDecode
<1> QED
    BY <1>2, <1>3, <1>4

LEMMA I32Is == Sound(I32) /\ Echo(I32, I32)
<1> DEFINE S == Signed(Half)
           u == [v \in S |-> ZigzagEncode(v)]
           as == [x \in Number |-> ZigzagDecode(x % Half)]
<1>1. IsOneNumber(I32, S, u, as)
    BY DEF I32, IsOneNumber
<1>2. Converts(S, u, as)
    <2> SUFFICES ASSUME NEW v \in S PROVE u[v] \in Number /\ as[u[v]] = v
        BY DEF Converts
    <2> DEFINE x == ZigzagEncode(v)
    <2>1. x \in 0 .. Half - 1 /\ ZigzagDecode(x) = v
        BY WidthsHold, ZigzagIs DEF Widths
    <2>2. u[v] = x
        OBVIOUS
    <2> HIDE DEF x, u, S
    <2>3. x \in Number /\ x % Half = x
        BY <2>1, WidthsHold DEF Widths, Number
    <2> QED
        BY <2>1, <2>2, <2>3
<1>3. ASSUME NEW x \in Number PROVE as[x] \in S
    <2>1. x % Half \in 0 .. Half - 1
        BY WidthsHold DEF Widths, Number
    <2>2. ZigzagDecode(x % Half) \in Signed(Half)
        BY <2>1, WidthsHold, ZigzagIs DEF Widths
    <2> QED
        BY <2>2
<1> HIDE DEF S, u, as
<1> QED
    BY <1>1, <1>2, <1>3, OneNumberSound, OneNumberEcho

LEMMA I64Is == Sound(I64) /\ Echo(I64, I64)
<1> DEFINE S == Signed(Word)
           u == [v \in S |-> ZigzagEncode(v)]
           as == [x \in Number |-> ZigzagDecode(x)]
<1>1. IsOneNumber(I64, S, u, as)
    BY DEF I64, IsOneNumber
<1>2. Word \in Nat /\ Word % 2 = 0 /\ Word > 0
    BY WidthsHold DEF Widths
<1>3. /\ \A v \in S : ZigzagEncode(v) \in Number /\ ZigzagDecode(ZigzagEncode(v)) = v
      /\ \A x \in Number : ZigzagDecode(x) \in S
    BY <1>2, ZigzagIs DEF Number
<1>4. Converts(S, u, as)
    BY <1>3 DEF Converts
<1>5. \A x \in Number : as[x] \in S
    BY <1>3
<1> HIDE DEF S, u, as
<1> QED
    BY <1>1, <1>4, <1>5, OneNumberSound, OneNumberEcho

(* Floats and text                                                         *)
LEMMA FloatCarries == ASSUME NEW v \in Floats PROVE Carries(Float, Float, v, v)
<1>1. v \in Seq(Byte) /\ Len(v) = FloatLen /\ v \in Float.values /\ Float.wire[v] = v
    BY DEF Floats, Float
<1>2. ASSUME NEW r, Fits(r, v) PROVE Float.read[r] = Result(r, v, v)
    <2>1. Slice(r, FloatLen) = Result(r, v, v)
        BY <1>1, <1>2, SliceReads
    <2> QED
        BY <1>2, <2>1 DEF Float, Fits
<1> QED
    BY <1>1, <1>2 DEF Carries, Reads

LEMMA FloatSound == Sound(Float)
<1>1. Float.values = Floats /\ \A v \in Floats : Float.meant[v] = v
    BY DEF Float
<1> QED
    BY <1>1, FloatCarries DEF Sound

LEMMA FloatEcho == Echo(Float, Float)
<1> SUFFICES ASSUME NEW r \in Reader, Good(Float.read[r]) PROVE Kept(Float, Float, r, Float.read[r])
    BY DEF Echo
<1>1. Float.read[r] = Slice(r, FloatLen)
    BY DEF Float
<1>2. SliceIs(r, FloatLen, Slice(r, FloatLen))
    BY <1>1, WidthsHold, SliceGood DEF Widths
<1>3. Float.read[r].v \in Floats /\ Float.read[r].at \in 0 .. Len(r.data)
    BY <1>1, <1>2 DEF SliceIs, IsSlice, Floats
<1> QED
    BY <1>3, FloatCarries DEF Kept

(* Text: its length, and its bytes.                                        *)
LEMMA StrCarries == ASSUME NEW v \in Texts PROVE Carries(Str, Str, v, v)
<1> DEFINE k == Len(v)
           b == WriteVar[k]
<1>1. v \in Seq(Byte) /\ k \in Nat /\ v \in Str.values /\ Str.wire[v] = b \o v
    BY DEF Texts, Str
<1>2. \A j \in DOMAIN v : v[j] \notin NotUtf8
    BY DEF Texts
<1>3. k \in Number
    <2>1. k < Word \div 2
        BY DEF Texts, Short
    <2> HIDE DEF k
    <2> QED
        BY <1>1, <2>1, WordIs DEF Number
<1>4. b \in Seq(Byte)
    BY <1>3, WriteVarBytes
<1> HIDE DEF b
<1>5. ASSUME NEW r, Fits(r, b \o v) PROVE Str.read[r] = Result(r, b \o v, v)
    <2> DEFINE n == ReadVar(r)
               text == Slice(At(r, n.at), n.v)
    <2>1. Continues(r, b, v)
        BY <1>1, <1>4, <1>5, Split
    <2>2. n = Result(r, b, k)
        BY <1>3, <2>1, ReadVarReads DEF Continues, b
    <2>3. Str.read[r] = ReadString(r)
        BY <1>5 DEF Str, Fits
    <2>4. CASE ~ Whole(r, b)
        <3>1. n = Failed
            BY <2>2, <2>4 DEF Result
        <3>2. ReadString(r) = Failed
            BY <3>1, GotIs DEF ReadString, ReadText
        <3>3. ~ Whole(r, b \o v)
            BY <2>1, <2>4 DEF Continues
        <3> QED
            BY <2>3, <3>2, <3>3 DEF Result
    <2>5. CASE Whole(r, b)
        <3> DEFINE q == Behind(r, b)
        <3>1. Good(n) /\ n.v = k /\ n.at = q.offset /\ At(r, n.at) = q
            BY <2>1, <2>2, <2>5, Results DEF Continues
        <3>2. Fits(q, v) /\ (Whole(r, b \o v) <=> Whole(q, v)) /\ r.offset + Len(b \o v) = q.offset + k
            BY <2>1, <2>5 DEF Continues
        <3>3. text = Result(q, v, v)
            BY <3>1, <3>2, SliceReads
        <3>4. ASSUME k = 0 PROVE v = <<>> /\ q.offset + k = q.offset /\ Whole(q, v)
            <4>1. ReaderFacts(q)
                BY <3>2, ReaderIs DEF Fits
            <4>2. v = <<>>
                BY <1>1, <3>4
            <4> HIDE DEF q
            <4> QED
                BY <3>4, <4>1, <4>2 DEF Whole, ReaderFacts
        <3>5. Result(r, b \o v, v) = Result(q, v, v)
            BY <3>2 DEF Result
        <3> HIDE DEF q, text
        <3>6. ReadString(r) = IF n.v = 0 THEN Got(<<>>, n.at)
                              ELSE IF ~ Good(text) THEN text
                              ELSE IF \E j \in DOMAIN text.v : text.v[j] \in NotUtf8 THEN Failed
                              ELSE text
            BY <3>1 DEF ReadString, ReadText, text
        <3> HIDE DEF n
        <3>7. CASE k = 0
            <4>1. ReadString(r) = Got(v, q.offset)
                BY <3>1, <3>4, <3>6, <3>7
            <4>2. Result(q, v, v) = Got(v, q.offset)
                BY <3>4, <3>7 DEF Result
            <4> QED
                BY <2>3, <3>5, <4>1, <4>2
        <3>8. CASE k # 0 /\ ~ Whole(q, v)
            <4>1. text = Failed /\ ~ Good(text)
                BY <3>3, <3>8, GotIs DEF Result
            <4> QED
                BY <2>3, <3>1, <3>3, <3>5, <3>6, <3>8, <4>1
        <3>9. CASE k # 0 /\ Whole(q, v)
            <4>1. Good(text) /\ text.v = v
                BY <3>3, <3>9, Results
            <4>2. ReadString(r) = text
                BY <1>2, <3>1, <3>6, <3>9, <4>1
            <4> QED
                BY <2>3, <3>3, <3>5, <4>2
        <3> QED
            BY <3>7, <3>8, <3>9
    <2> QED
        BY <2>4, <2>5
<1>6. b \o v \in Seq(Byte)
    BY <1>1, <1>4
<1> QED
    BY <1>1, <1>5, <1>6 DEF Carries, Reads, b

LEMMA StrSound == Sound(Str)
<1>1. Str.values = Texts /\ \A v \in Texts : Str.meant[v] = v
    BY DEF Str
<1> QED
    BY <1>1, StrCarries DEF Sound

LEMMA StrEcho == Echo(Str, Str)
<1> SUFFICES ASSUME NEW r \in Reader, Good(Str.read[r]) PROVE Kept(Str, Str, r, Str.read[r])
    BY DEF Echo
<1> DEFINE n == ReadVar(r)
           q == At(r, n.at)
           text == Slice(q, n.v)
           o == Str.read[r]
<1>1. o = ReadString(r)
    BY DEF Str
<1>2. Good(n)
    BY <1>1 DEF ReadString, ReadText
<1>3. NumberIs(r, n)
    BY <1>2, ReadVarGood
<1>4. /\ n.v \in Nat /\ n.at \in Nat /\ n.at <= Len(r.data) /\ n.at \in 0 .. Len(r.data)
      /\ Len(r.data) \in Nat
    BY <1>3, ReaderIs, WordIs DEF NumberIs, Number, ReaderFacts
<1>5. q \in Reader /\ q.data = r.data /\ q.offset = n.at
    BY <1>4, AtIs
<1> HIDE DEF q, text, o
<1>6. \/ o = Got(<<>>, n.at)
      \/ o = text /\ Good(text) /\ \A j \in DOMAIN text.v : text.v[j] \notin NotUtf8
    <2>1. o = IF n.v = 0 THEN Got(<<>>, n.at)
              ELSE IF ~ Good(text) THEN text
              ELSE IF \E j \in DOMAIN text.v : text.v[j] \in NotUtf8 THEN Failed
              ELSE text
        BY <1>1, <1>2 DEF ReadString, ReadText, text, q
    <2>2. Good(o) /\ ~ Good(Failed)
        BY GotIs DEF o
    <2> QED
        BY <2>1, <2>2
<1> HIDE DEF n
<1>7. CASE o = Got(<<>>, n.at)
    <2>1. o.v = <<>> /\ o.at = n.at
        BY <1>7 DEF Got
    <2>2. <<>> \in Seq(Byte \ NotUtf8) /\ Len(<<>>) = 0
        OBVIOUS
    <2>3. 0 < Word \div 2
        BY WidthsHold DEF Widths
    <2>4. <<>> \in Texts
        BY <2>2, <2>3 DEF Texts, Short
    <2> QED
        BY <1>4, <2>1, <2>4, StrCarries DEF Kept, o
<1>8. CASE o = text /\ Good(text) /\ \A j \in DOMAIN text.v : text.v[j] \notin NotUtf8
    <2>1. SliceIs(q, n.v, text)
        BY <1>4, <1>5, <1>8, SliceGood DEF text
    <2>2. /\ o.at \in 0 .. Len(r.data) /\ o.at = n.at + n.v
          /\ o.v \in Seq(Byte) /\ Len(o.v) = n.v
          /\ \A j \in DOMAIN o.v : o.v[j] \notin NotUtf8
        BY <1>5, <1>8, <2>1 DEF SliceIs, IsSlice
    <2>3. o.v \in Seq(Byte \ NotUtf8)
        <3> DEFINE s == o.v
        <3> HIDE DEF s
        <3>1. \A j \in 1 .. Len(s) : s[j] \in Byte \ NotUtf8
            BY <2>2 DEF s
        <3>2. s \in Seq(Byte)
            BY <2>2 DEF s
        <3> QED
            BY <3>1, <3>2 DEF s
    <2>4. Short(o.v)
        <3>1. Short(r.data)
            BY DEF Reader
        <3> DEFINE l == Len(r.data)
                   h == Word \div 2
        <3>2. h \in Nat /\ l < h
            BY <3>1, WordIs DEF Short
        <3> HIDE DEF h, l
        <3>3. n.v < h
            BY <1>4, <2>2, <3>2 DEF l
        <3> QED
            BY <2>2, <3>3 DEF Short, h
    <2>5. o.v \in Texts
        BY <2>3, <2>4 DEF Texts
    <2> QED
        BY <2>2, <2>5, StrCarries DEF Kept, o
<1> QED
    BY <1>6, <1>7, <1>8

-----------------------------------------------------------------------------
(* Types made of types: each takes what holds of its parts.                *)

(* Fields, one behind the other                                            *)
LEMMA FieldsCarry ==
    ASSUME NEW S, NEW T, NEW V, NEW W, NEW x, NEW y, NEW m, NEW n,
           Carries(S, V, x, m), Carries(T, W, y, n)
    PROVE  Carries(Fields(S, T), Fields(V, W), <<x, y>>, <<m, n>>)
<1> DEFINE b == V.wire[x]
           c == W.wire[y]
<1>1. x \in V.values /\ y \in W.values /\ b \in Seq(Byte) /\ c \in Seq(Byte)
    BY DEF Carries
<1>2. <<x, y>> \in Fields(V, W).values /\ Fields(V, W).wire[<<x, y>>] = b \o c
    BY <1>1 DEF Fields
<1> HIDE DEF b, c
<1>3. b \o c \in Seq(Byte)
    BY <1>1
<1>4. ASSUME NEW r, Fits(r, b \o c) PROVE Fields(S, T).read[r] = Result(r, b \o c, <<m, n>>)
    <2> DEFINE o == S.read[r]
               p == T.read[At(r, o.at)]
    <2>1. Continues(r, b, c)
        BY <1>1, <1>4, Split
    <2>2. o = Result(r, b, m)
        BY <2>1 DEF Continues, Carries, Reads, b
    <2>3. ASSUME Whole(r, b) PROVE p = Result(Behind(r, b), c, n)
        <3>1. At(r, o.at) = Behind(r, b)
            BY <2>2, <2>3, Results
        <3>2. Fits(Behind(r, b), c)
            BY <2>1, <2>3 DEF Continues
        <3> QED
            BY <3>1, <3>2 DEF Carries, Reads, c
    <2>4. Fields(S, T).read[r] = Both(o, p, <<o.v, p.v>>)
        BY <1>4 DEF Fields, Fits
    <2> HIDE DEF o, p
    <2>5. Both2(r, b, c, o, p, m, n)
        BY <1>1, <1>4, <2>2, <2>3, Sequel
    <2>6. Fields(S, T).read[r] = Result(r, b \o c, <<o.v, p.v>>)
        BY <2>4, <2>5 DEF Both2
    <2>7. CASE Whole(r, b \o c)
        BY <2>5, <2>6, <2>7 DEF Both2
    <2>8. CASE ~ Whole(r, b \o c)
        BY <2>6, <2>8 DEF Result
    <2> QED
        BY <2>7, <2>8
<1> QED
    BY <1>2, <1>3, <1>4 DEF Carries, Reads

(* Fields are read where they are written.                                 *)
LEMMA FieldsSound ==
    ASSUME NEW S, NEW T, Sound(S), Sound(T)
    PROVE  Sound(Fields(S, T))
<1> SUFFICES ASSUME NEW v \in Fields(S, T).values
             PROVE  Carries(Fields(S, T), Fields(S, T), v, Fields(S, T).meant[v])
    BY DEF Sound
<1>1. v \in S.values \X T.values /\ Fields(S, T).meant[v] = <<S.meant[v[1]], T.meant[v[2]]>>
    BY DEF Fields
<1>2. PICK x \in S.values, y \in T.values : v = <<x, y>>
    BY <1>1
<1>3. Carries(S, S, x, S.meant[x]) /\ Carries(T, T, y, T.meant[y])
    BY DEF Sound
<1>4. Carries(Fields(S, T), Fields(S, T), <<x, y>>, <<S.meant[x], T.meant[y]>>)
    BY <1>3, FieldsCarry
<1>5. v[1] = x /\ v[2] = y
    BY <1>2
<1> QED
    BY <1>1, <1>2, <1>4, <1>5

FieldsRead(S, T, r, o, p, z) ==
    /\ o = S.read[r] /\ p = T.read[At(r, o.at)]
    /\ Good(o) /\ Good(p) /\ z.v = <<o.v, p.v>> /\ z.at = p.at

(* What fields read as: each by itself, the second behind the first.       *)
LEMMA FieldsGood ==
    ASSUME NEW S, NEW T, NEW r \in Reader, Good(Fields(S, T).read[r])
    PROVE  FieldsRead(S, T, r, S.read[r], T.read[At(r, S.read[r].at)], Fields(S, T).read[r])
<1> DEFINE o == S.read[r]
           p == T.read[At(r, o.at)]
           z == Fields(S, T).read[r]
<1>1. z = Both(o, p, <<o.v, p.v>>)
    BY DEF Fields
<1> HIDE DEF o, p, z
<1>2. Good(z)
    BY DEF z
<1>3. Good(o) /\ Good(p) /\ z = Got(<<o.v, p.v>>, p.at)
    BY <1>1, <1>2 DEF Both
<1>4. z.v = <<o.v, p.v>> /\ z.at = p.at
    BY <1>3 DEF Got
<1> QED
    BY <1>3, <1>4 DEF FieldsRead, o, p, z

(* Where a value ended, there is a reader for the next.                    *)
LEMMA Onward ==
    ASSUME NEW T, NEW W, NEW r \in Reader, NEW i \in 0 .. Len(r.data), Echo(T, W),
           Good(T.read[At(r, i)])
    PROVE  Kept(T, W, r, T.read[At(r, i)])
<1>1. At(r, i) \in Reader /\ At(r, i).data = r.data
    BY AtIs, ReaderIs DEF ReaderFacts
<1>2. Kept(T, W, At(r, i), T.read[At(r, i)])
    BY <1>1 DEF Echo
<1> QED
    BY <1>1, <1>2 DEF Kept

(* Fields that were read can be written.                                   *)
LEMMA FieldsEcho ==
    ASSUME NEW S, NEW T, NEW V, NEW W, Echo(S, V), Echo(T, W)
    PROVE  Echo(Fields(S, T), Fields(V, W))
<1> SUFFICES ASSUME NEW r \in Reader, Good(Fields(S, T).read[r])
             PROVE  Kept(Fields(S, T), Fields(V, W), r, Fields(S, T).read[r])
    BY DEF Echo
<1> DEFINE o == S.read[r]
           p == T.read[At(r, o.at)]
           z == Fields(S, T).read[r]
<1>1. FieldsRead(S, T, r, o, p, z)
    BY FieldsGood
<1>2. Kept(S, V, r, o)
    BY <1>1 DEF Echo, FieldsRead
<1>3. Kept(T, W, r, p)
    BY <1>1, <1>2, Onward DEF Kept, FieldsRead
<1> HIDE DEF o, p, z
<1>4. Carries(Fields(S, T), Fields(V, W), <<o.v, p.v>>, <<o.v, p.v>>)
    BY <1>2, <1>3, FieldsCarry DEF Kept
<1>5. Kept(Fields(S, T), Fields(V, W), r, z)
    BY <1>1, <1>3, <1>4 DEF Kept, FieldsRead
<1> QED
    BY <1>5 DEF z

(* Options                                                                 *)
OptionWriter(U, W) == U.values = Options(W.values) /\ U.wire = OnWire(W)

(* An option is absent or holds a value.                                   *)
LEMMA OptionsAre ==
    ASSUME NEW S
    PROVE  /\ <<>> \in Options(S)
           /\ \A x \in S : <<x>> \in Options(S) /\ <<x>> # <<>> /\ <<x>>[1] = x
           /\ \A o \in Options(S) : o = <<>> \/ \E x \in S : o = <<x>>
<1>1. ASSUME NEW o \in Options(S), o # <<>> PROVE \E x \in S : o = <<x>>
    <2>1. o \in Seq(S) /\ Len(o) <= 1 /\ Len(o) \in Nat
        BY DEF Options
    <2>2. Len(o) # 0
        BY <1>1, <2>1, EmptySeq
    <2>a. Len(o) = 1
        <3> DEFINE k == Len(o)
        <3> HIDE DEF k
        <3>1. k \in Nat /\ k <= 1 /\ k # 0
            BY <2>1, <2>2 DEF k
        <3>2. k = 1
            BY <3>1
        <3> QED
            BY <3>2 DEF k
    <2>3. Len(o) = 1 /\ o[1] \in S
        BY <2>1, <2>a
    <2> DEFINE t == <<o[1]>>
    <2>4. t \in Seq(S) /\ Len(t) = 1 /\ t[1] = o[1]
        BY <2>3
    <2> HIDE DEF t
    <2>5. o = t
        BY <2>1, <2>3, <2>4, SeqEqual
    <2> QED
        BY <2>3, <2>5 DEF t
<1>2. <<>> \in Options(S) /\ \A x \in S : <<x>> \in Options(S)
    BY DEF Options
<1>3. \A x \in S : <<x>> # <<>> /\ <<x>>[1] = x
    OBVIOUS
<1> QED
    BY <1>1, <1>2, <1>3

LEMMA OptionWrites ==
    ASSUME NEW U, NEW W, OptionWriter(U, W)
    PROVE  /\ <<>> \in U.values /\ U.wire[<<>>] = << 0 >>
           /\ \A v \in W.values : <<v>> \in U.values /\ U.wire[<<v>>] = << 1 >> \o W.wire[v]
<1>1. ASSUME NEW v \in W.values PROVE <<v>> \in U.values /\ U.wire[<<v>>] = << 1 >> \o W.wire[v]
    BY OptionsAre DEF OptionWriter, OnWire
<1>2. <<>> \in U.values /\ U.wire[<<>>] = << 0 >>
    BY OptionsAre DEF OptionWriter, OnWire
<1> QED
    BY <1>1, <1>2

(* Behind a flag x there is what T reads.                                  *)
LEMMA FlagReads ==
    ASSUME NEW T, NEW c \in Seq(Byte), NEW m, Reads(T, c, m), NEW x \in Byte, NEW r, Fits(r, <<x>> \o c)
    PROVE  LET flag == Slice(r, 1)
               p == T.read[At(r, flag.at)]
           IN /\ Good(flag) <=> Whole(r, <<x>>)
              /\ Good(flag) => flag.v[1] = x
              /\ ~ Good(flag) => flag = Failed /\ ~ Whole(r, <<x>> \o c)
              /\ Both2(r, <<x>>, c, flag, p, <<x>>, m)
<1> DEFINE b == <<x>>
           flag == Slice(r, 1)
           p == T.read[At(r, flag.at)]
<1>1. b \in Seq(Byte) /\ Len(b) = 1 /\ b[1] = x
    OBVIOUS
<1>2. Fits(r, b \o c)
    OBVIOUS
<1> HIDE DEF b
<1>3. Continues(r, b, c)
    BY <1>1, <1>2, Split
<1>4. flag = Result(r, b, b)
    BY <1>1, <1>3, SliceReads DEF Continues
<1>5. ASSUME Whole(r, b) PROVE p = Result(Behind(r, b), c, m)
    <2>1. At(r, flag.at) = Behind(r, b)
        BY <1>4, <1>5, Results
    <2>2. Fits(Behind(r, b), c)
        BY <1>3, <1>5 DEF Continues
    <2> QED
        BY <2>1, <2>2 DEF Reads
<1> HIDE DEF flag, p
<1>6. Both2(r, b, c, flag, p, b, m)
    BY <1>1, <1>2, <1>4, <1>5, Sequel
<1>7. Good(flag) <=> Whole(r, b)
    BY <1>4, Results
<1>8. Good(flag) => flag.v = b
    BY <1>4, <1>7, Results
<1>9. ~ Good(flag) => flag = Failed /\ ~ Whole(r, b \o c)
    BY <1>3, <1>4, <1>7 DEF Result, Continues
<1> QED
    BY <1>1, <1>6, <1>7, <1>8, <1>9 DEF b, flag, p

(* What is there is read as what it is.                                    *)
SomeOf(T, r) ==
    LET flag == Slice(r, 1)
        p == T.read[At(r, flag.at)]
    IN IF ~ Good(flag) THEN flag ELSE Both(flag, p, <<p.v>>)
NoneOf(r) == IF ~ Good(Slice(r, 1)) THEN Slice(r, 1) ELSE Got(<<>>, Slice(r, 1).at)
FlagIs(r, x) == Good(Slice(r, 1)) => Slice(r, 1).v[1] = x

LEMMA SomeReads ==
    ASSUME NEW T, NEW c \in Seq(Byte), NEW m, Reads(T, c, m), NEW r, Fits(r, << 1 >> \o c)
    PROVE  FlagIs(r, 1) /\ SomeOf(T, r) = Result(r, << 1 >> \o c, <<m>>)
<1> DEFINE flag == Slice(r, 1)
           p == T.read[At(r, flag.at)]
           b == << 1 >>
<1>1. 1 \in Byte
    BY WidthsHold DEF Widths, Byte
<1>2. /\ Good(flag) => flag.v[1] = 1
      /\ ~ Good(flag) => flag = Failed /\ ~ Whole(r, b \o c)
      /\ Both2(r, b, c, flag, p, b, m)
    BY <1>1, FlagReads
<1>3. SomeOf(T, r) = IF ~ Good(flag) THEN flag ELSE Both(flag, p, <<p.v>>)
    BY DEF SomeOf
<1>4. FlagIs(r, 1)
    BY <1>2 DEF FlagIs
<1> HIDE DEF flag, p, b
<1>5. CASE ~ Good(flag)
    BY <1>2, <1>3, <1>4, <1>5 DEF Result, b
<1>6. CASE Good(flag)
    <2>1. SomeOf(T, r) = Result(r, b \o c, <<p.v>>)
        BY <1>2, <1>3, <1>6 DEF Both2
    <2>2. Whole(r, b \o c) => p.v = m
        BY <1>2 DEF Both2
    <2>3. Result(r, b \o c, <<p.v>>) = Result(r, b \o c, <<m>>)
        BY <2>2 DEF Result
    <2> QED
        BY <1>4, <2>1, <2>3 DEF b
<1> QED
    BY <1>5, <1>6

LEMMA NoneReads ==
    ASSUME NEW r, Fits(r, << 0 >>)
    PROVE  FlagIs(r, 0) /\ NoneOf(r) = Result(r, << 0 >>, <<>>)
<1> DEFINE flag == Slice(r, 1)
           b == << 0 >>
<1>1. Len(b) = 1 /\ b[1] = 0
    OBVIOUS
<1> HIDE DEF b
<1>2. flag = Result(r, b, b)
    BY <1>1, SliceReads DEF b
<1>3. NoneOf(r) = IF ~ Good(flag) THEN flag ELSE Got(<<>>, flag.at)
    BY DEF NoneOf
<1> HIDE DEF flag
<1>4. CASE Whole(r, b)
    <2>1. Good(flag) /\ flag.v = b /\ Got(<<>>, flag.at) = Result(r, b, <<>>)
        BY <1>2, <1>4, Results
    <2> QED
        BY <1>1, <1>3, <2>1 DEF FlagIs, flag, b
<1>5. CASE ~ Whole(r, b)
    <2>1. ~ Good(flag) /\ flag = Result(r, b, <<>>)
        BY <1>2, <1>5, Results
    <2> QED
        BY <1>3, <2>1 DEF FlagIs, flag, b
<1> QED
    BY <1>4, <1>5

(* What an option reads as, whatever the buffer holds.                     *)
OptionKept(T, W, r, o) ==
    /\ o.at \in 0 .. Len(r.data)
    /\ \/ o.v = <<>>
       \/ \E v : o.v = <<v>> /\ Carries(T, W, v, v)

(* A present option that was read can be written.                          *)
LEMMA SomeKept ==
    ASSUME NEW T, NEW W, Echo(T, W), NEW r \in Reader, Good(SomeOf(T, r))
    PROVE  OptionKept(T, W, r, SomeOf(T, r))
<1> DEFINE flag == Slice(r, 1)
           p == T.read[At(r, flag.at)]
           o == SomeOf(T, r)
<1>1. o = IF ~ Good(flag) THEN flag ELSE Both(flag, p, <<p.v>>)
    BY DEF SomeOf
<1> HIDE DEF o
<1>2. Good(flag) /\ Good(p) /\ o = Got(<<p.v>>, p.at)
    BY <1>1 DEF Both, o
<1>3. flag.at \in 0 .. Len(r.data)
    BY <1>2, SliceGood DEF SliceIs
<1>4. Kept(T, W, r, p)
    BY <1>2, <1>3, Onward
<1> HIDE DEF p
<1>5. o.v = <<p.v>> /\ o.at = p.at
    BY <1>2 DEF Got
<1> QED
    BY <1>4, <1>5 DEF Kept, OptionKept, o

LEMMA NoneKept ==
    ASSUME NEW T, NEW W, NEW r \in Reader, Good(NoneOf(r))
    PROVE  OptionKept(T, W, r, NoneOf(r))
<1> DEFINE flag == Slice(r, 1)
           o == NoneOf(r)
<1>1. o = IF ~ Good(flag) THEN flag ELSE Got(<<>>, flag.at)
    BY DEF NoneOf
<1> HIDE DEF o
<1>2. Good(flag) /\ o = Got(<<>>, flag.at)
    BY <1>1 DEF o
<1>3. flag.at \in 0 .. Len(r.data)
    BY <1>2, SliceGood DEF SliceIs
<1>4. o.v = <<>> /\ o.at = flag.at
    BY <1>2 DEF Got
<1> QED
    BY <1>3, <1>4 DEF OptionKept, o

(* The option                                                              *)
LEMMA OptionIs ==
    ASSUME NEW T, NEW r
    PROVE  /\ FlagIs(r, 1) => Read_option(T, r) = SomeOf(T, r)
           /\ FlagIs(r, 0) => Read_option(T, r) = NoneOf(r)
           /\ Good(Read_option(T, r)) =>
                 Read_option(T, r) = SomeOf(T, r) \/ Read_option(T, r) = NoneOf(r)
<1> DEFINE flag == Slice(r, 1)
           p == T.read[At(r, flag.at)]
<1>1. /\ SomeOf(T, r) = IF ~ Good(flag) THEN flag ELSE Both(flag, p, <<p.v>>)
      /\ NoneOf(r) = IF ~ Good(flag) THEN flag ELSE Got(<<>>, flag.at)
      /\ \A x : FlagIs(r, x) <=> (Good(flag) => flag.v[1] = x)
      /\ Read_option(T, r) = IF ~ Good(flag) THEN flag
                             ELSE IF flag.v[1] = 0 THEN Got(<<>>, flag.at)
                             ELSE IF flag.v[1] = 1 THEN Both(flag, p, <<p.v>>)
                             ELSE Failed
    BY DEF SomeOf, NoneOf, FlagIs, Read_option, OptionBehind
<1> HIDE DEF flag, p
<1>2. ~ Good(Failed)
    BY GotIs
<1> QED
    BY <1>1, <1>2

LEMMA FlaggedIs ==
    ASSUME NEW T, NEW r \in Reader
    PROVE  /\ FlagIs(r, 1) => Flagged(T).read[r] = SomeOf(T, r)
           /\ FlagIs(r, 0) => Flagged(T).read[r] = NoneOf(r)
           /\ Good(Flagged(T).read[r]) =>
                 Flagged(T).read[r] = SomeOf(T, r) \/ Flagged(T).read[r] = NoneOf(r)
<1> DEFINE flag == Slice(r, 1)
           p == T.read[At(r, flag.at)]
<1>1. /\ SomeOf(T, r) = IF ~ Good(flag) THEN flag ELSE Both(flag, p, <<p.v>>)
      /\ NoneOf(r) = IF ~ Good(flag) THEN flag ELSE Got(<<>>, flag.at)
      /\ \A x : FlagIs(r, x) <=> (Good(flag) => flag.v[1] = x)
    BY DEF SomeOf, NoneOf, FlagIs
<1>2. Flagged(T).read[r] = IF ~ Good(flag) THEN flag
                           ELSE IF flag.v[1] = 1 THEN Both(flag, p, <<p.v>>)
                           ELSE Got(<<>>, flag.at)
    BY DEF Flagged
<1> HIDE DEF flag, p
<1> QED
    BY <1>1, <1>2

(* An option is written and read, absent or present.                       *)
LEMMA OptCarries ==
    ASSUME NEW T, NEW U, NEW W, OptionWriter(U, W)
    PROVE  /\ Carries(Opt(T), U, <<>>, <<>>)
           /\ Carries(Flagged(T), U, <<>>, <<>>)
           /\ \A v, m : Carries(T, W, v, m) => /\ Carries(Opt(T), U, <<v>>, <<m>>)
                                               /\ Carries(Flagged(T), U, <<v>>, <<m>>)
<1>1. 0 \in Byte /\ 1 \in Byte
    BY WidthsHold DEF Widths, Byte
<1>2. ASSUME NEW r \in Reader PROVE Opt(T).read[r] = Read_option(T, r)
    BY DEF Opt
<1>3. ASSUME NEW b, NEW r, Fits(r, b) PROVE r \in Reader
    BY <1>3 DEF Fits
<1>4. Carries(Opt(T), U, <<>>, <<>>) /\ Carries(Flagged(T), U, <<>>, <<>>)
    <2>1. <<>> \in U.values /\ U.wire[<<>>] = << 0 >> /\ << 0 >> \in Seq(Byte)
        BY <1>1, OptionWrites
    <2>2. Reads(Opt(T), << 0 >>, <<>>)
        BY <1>2, <1>3, NoneReads, OptionIs DEF Reads
    <2>3. Reads(Flagged(T), << 0 >>, <<>>)
        BY <1>3, NoneReads, FlaggedIs DEF Reads
    <2> QED
        BY <2>1, <2>2, <2>3 DEF Carries
<1>5. ASSUME NEW v, NEW m, Carries(T, W, v, m)
      PROVE  Carries(Opt(T), U, <<v>>, <<m>>) /\ Carries(Flagged(T), U, <<v>>, <<m>>)
    <2> DEFINE c == W.wire[v]
    <2>1. v \in W.values /\ c \in Seq(Byte) /\ Reads(T, c, m)
        BY <1>5 DEF Carries
    <2>2. <<v>> \in U.values /\ U.wire[<<v>>] = << 1 >> \o c
        BY <2>1, OptionWrites
    <2> HIDE DEF c
    <2>3. << 1 >> \o c \in Seq(Byte)
        BY <1>1, <2>1
    <2>a. ASSUME NEW r, Fits(r, << 1 >> \o c)
          PROVE  r \in Reader /\ FlagIs(r, 1) /\ SomeOf(T, r) = Result(r, << 1 >> \o c, <<m>>)
        BY <1>3, <2>1, <2>a, SomeReads
    <2>4. Reads(Opt(T), << 1 >> \o c, <<m>>)
        BY <1>2, <2>a, OptionIs DEF Reads
    <2>5. Reads(Flagged(T), << 1 >> \o c, <<m>>)
        BY <2>a, FlaggedIs DEF Reads
    <2> QED
        BY <2>2, <2>3, <2>4, <2>5 DEF Carries
<1> QED
    BY <1>4, <1>5

LEMMA OptWriter ==
    ASSUME NEW W, NEW with
    PROVE  /\ OptionWriter(Opt(W), W) /\ OptionWriter(Flagged(W), W)
           /\ OptionWriter(Filled(W, with), W)
BY DEF OptionWriter, Opt, Flagged, Filled

LEMMA OptSound == ASSUME NEW T, Sound(T) PROVE Sound(Opt(T)) /\ Sound(Flagged(T))
<1>1. /\ Opt(T).values = Options(T.values) /\ Flagged(T).values = Options(T.values)
      /\ Opt(T).meant = Flagged(T).meant
      /\ Opt(T).meant = [o \in Options(T.values) |-> IF o = <<>> THEN <<>> ELSE <<T.meant[o[1]]>>]
    BY DEF Opt, Flagged
<1>2. ASSUME NEW o \in Options(T.values)
      PROVE  /\ Carries(Opt(T), Opt(T), o, Opt(T).meant[o])
             /\ Carries(Flagged(T), Flagged(T), o, Opt(T).meant[o])
    <2>1. CASE o = <<>>
        <3>1. Opt(T).meant[o] = <<>>
            BY <1>1, <2>1
        <3> QED
            BY <2>1, <3>1, OptWriter, OptCarries
    <2>2. CASE o # <<>>
        <3>1. PICK v \in T.values : o = <<v>>
            BY <2>2, OptionsAre
        <3>2. Carries(T, T, v, T.meant[v])
            BY DEF Sound
        <3>3. Opt(T).meant[o] = <<T.meant[v]>>
            BY <1>1, <2>2, <3>1
        <3> QED
            BY <3>1, <3>2, <3>3, OptWriter, OptCarries
    <2> QED
        BY <2>1, <2>2
<1> QED
    BY <1>1, <1>2 DEF Sound

LEMMA OptEcho == ASSUME NEW T, NEW W, Echo(T, W) PROVE Echo(Opt(T), Opt(W)) /\ Echo(Flagged(T), Opt(W))
<1>1. ASSUME NEW r \in Reader PROVE Opt(T).read[r] = Read_option(T, r)
    BY DEF Opt
<1>2. OptionWriter(Opt(W), W)
    BY OptWriter
<1>3. ASSUME NEW r \in Reader, NEW o, OptionKept(T, W, r, o)
      PROVE  Kept(Opt(T), Opt(W), r, o) /\ Kept(Flagged(T), Opt(W), r, o)
    BY <1>2, <1>3, OptCarries DEF OptionKept, Kept
<1>4. ASSUME NEW r \in Reader, Good(Opt(T).read[r]) PROVE OptionKept(T, W, r, Opt(T).read[r])
    BY <1>1, <1>4, OptionIs, SomeKept, NoneKept
<1>5. ASSUME NEW r \in Reader, Good(Flagged(T).read[r]) PROVE OptionKept(T, W, r, Flagged(T).read[r])
    BY <1>5, FlaggedIs, SomeKept, NoneKept
<1> QED
    BY <1>3, <1>4, <1>5 DEF Echo

(* A value that is read and then turned into another.                      *)
Turned(z, o, y) == z = IF Good(o) THEN Got(y, o.at) ELSE o

LEMMA TurnedReads ==
    ASSUME NEW r, NEW b, NEW x, NEW y, NEW z, NEW w, Turned(z, Result(r, b, x), w),
           Whole(r, b) => w = y
    PROVE  z = Result(r, b, y)
<1>1. CASE Whole(r, b)
    BY <1>1, Results DEF Turned
<1>2. CASE ~ Whole(r, b)
    BY <1>2, Results DEF Turned
<1> QED
    BY <1>1, <1>2

LEMMA TurnedGood ==
    ASSUME NEW z, NEW o, NEW y, Turned(z, o, y), Good(z)
    PROVE  Good(o) /\ z.v = y /\ z.at = o.at
<1>1. Good(o) /\ z = Got(y, o.at)
    BY DEF Turned
<1> QED
    BY <1>1 DEF Got

(* Options that are read with a default, and written as present.           *)
Fill(with, x) == IF x = <<>> THEN with ELSE x[1]

(* What is absent reads as the default.                                    *)
LEMMA FilledReads ==
    ASSUME NEW T, NEW with, NEW b, NEW x, Reads(Opt(T), b, x)
    PROVE  Reads(Filled(T, with), b, Fill(with, x))
<1> SUFFICES ASSUME NEW r, Fits(r, b)
             PROVE  Filled(T, with).read[r] = Result(r, b, Fill(with, x))
    BY DEF Reads
<1> DEFINE o == Read_option(T, r)
<1>1. r \in Reader
    BY DEF Fits
<1>2. o = Opt(T).read[r]
    BY <1>1 DEF Opt
<1>3. o = Result(r, b, x)
    BY <1>2 DEF Reads
<1>4. Turned(Filled(T, with).read[r], o, Fill(with, o.v))
    BY <1>1 DEF Filled, Unwrapped, Turned, Fill
<1> HIDE DEF o
<1>5. Whole(r, b) => Fill(with, o.v) = Fill(with, x)
    BY <1>3, Results
<1> QED
    BY <1>3, <1>4, <1>5, TurnedReads

LEMMA FilledCarries ==
    ASSUME NEW T, NEW with, NEW U, NEW W, OptionWriter(U, W)
    PROVE  /\ Carries(Filled(T, with), U, <<>>, with)
           /\ \A v, m : Carries(T, W, v, m) => Carries(Filled(T, with), U, <<v>>, m)
<1>1. Fill(with, <<>>) = with
    BY DEF Fill
<1>2. \A m : Fill(with, <<m>>) = m
    BY DEF Fill
<1>3. Carries(Opt(T), U, <<>>, <<>>)
    BY OptCarries
<1>4. Carries(Filled(T, with), U, <<>>, with)
    BY <1>1, <1>3, FilledReads DEF Carries
<1>5. ASSUME NEW v, NEW m, Carries(T, W, v, m) PROVE Carries(Filled(T, with), U, <<v>>, m)
    <2>1. Carries(Opt(T), U, <<v>>, <<m>>)
        BY <1>5, OptCarries
    <2>2. Reads(Filled(T, with), U.wire[<<v>>], Fill(with, <<m>>))
        BY <2>1, FilledReads DEF Carries
    <2>3. Reads(Filled(T, with), U.wire[<<v>>], m)
        BY <1>2, <2>2
    <2> QED
        BY <2>1, <2>3 DEF Carries
<1> QED
    BY <1>4, <1>5

LEMMA FilledSound == ASSUME NEW T, NEW with, Sound(T) PROVE Sound(Filled(T, with))
<1>1. /\ Filled(T, with).values = Options(T.values)
      /\ Filled(T, with).meant = [o \in Options(T.values) |-> IF o = <<>> THEN with ELSE T.meant[o[1]]]
    BY DEF Filled
<1>2. ASSUME NEW o \in Options(T.values)
      PROVE  Carries(Filled(T, with), Filled(T, with), o, Filled(T, with).meant[o])
    <2>1. CASE o = <<>>
        <3>1. Filled(T, with).meant[o] = with
            BY <1>1, <2>1
        <3> QED
            BY <2>1, <3>1, OptWriter, FilledCarries
    <2>2. CASE o # <<>>
        <3>1. PICK v \in T.values : o = <<v>>
            BY <2>2, OptionsAre
        <3>2. Carries(T, T, v, T.meant[v])
            BY DEF Sound
        <3>3. Filled(T, with).meant[o] = T.meant[v]
            BY <1>1, <2>2, <3>1
        <3> QED
            BY <3>1, <3>2, <3>3, OptWriter, FilledCarries
    <2> QED
        BY <2>1, <2>2
<1> QED
    BY <1>1, <1>2 DEF Sound

(* Always writes what Some of the value would be.                          *)
LEMMA AlwaysCarries ==
    ASSUME NEW T, NEW W, NEW v, NEW m, Carries(T, W, v, m)
    PROVE  /\ Carries(Opt(T), Always(W), v, <<m>>)
           /\ \A with : Carries(Filled(T, with), Always(W), v, m)
<1>1. v \in W.values
    BY DEF Carries
<1>2. v \in Always(W).values /\ Always(W).wire[v] = << 1 >> \o W.wire[v]
    BY <1>1 DEF Always
<1>3. Opt(W).wire[<<v>>] = << 1 >> \o W.wire[v]
    BY <1>1, OptWriter, OptionWrites
<1>4. Carries(Opt(T), Opt(W), <<v>>, <<m>>)
    BY OptWriter, OptCarries
<1>5. ASSUME NEW with PROVE Carries(Filled(T, with), Opt(W), <<v>>, m)
    BY OptWriter, FilledCarries
<1> QED
    BY <1>2, <1>3, <1>4, <1>5 DEF Carries

(* With its default, it is written as present.                             *)
LEMMA FilledEcho ==
    ASSUME NEW T, NEW W, NEW with, Echo(T, W), Carries(T, W, with, with)
    PROVE  Echo(Filled(T, with), Always(W))
<1> SUFFICES ASSUME NEW r \in Reader, Good(Filled(T, with).read[r])
             PROVE  Kept(Filled(T, with), Always(W), r, Filled(T, with).read[r])
    BY DEF Echo
<1> DEFINE o == Read_option(T, r)
           z == Filled(T, with).read[r]
<1>1. Turned(z, o, Fill(with, o.v))
    BY DEF Filled, Unwrapped, Turned, Fill
<1> HIDE DEF o, z
<1>2. Good(o) /\ z.v = Fill(with, o.v) /\ z.at = o.at
    BY <1>1, TurnedGood DEF z
<1>3. OptionKept(T, W, r, o)
    BY <1>2, OptionIs, SomeKept, NoneKept DEF o
<1>4. Carries(T, W, z.v, z.v)
    <2>1. CASE o.v = <<>>
        BY <1>2, <2>1 DEF Fill
    <2>2. ASSUME NEW v, o.v = <<v>>, Carries(T, W, v, v) PROVE Carries(T, W, z.v, z.v)
        BY <1>2, <2>2 DEF Fill
    <2> QED
        BY <1>3, <2>1, <2>2 DEF OptionKept
<1>5. Carries(Filled(T, with), Always(W), z.v, z.v)
    BY <1>4, AlwaysCarries
<1> QED
    BY <1>2, <1>3, <1>5 DEF Kept, OptionKept, z

(* A flag that is like the first one, if it is absent.                     *)
Like(n, v, o) == IF o # <<>> THEN o[1] ELSE IF n = 1 THEN v ELSE v[1]

LEMMA FlagLikeIs ==
    ASSUME NEW S, NEW n
    PROVE  LET T == Fields(S, Opt(Bool))
               X == AndFlagLike(S, n)
           IN /\ X.values = T.values /\ X.wire = T.wire
              /\ \A v \in T.values : X.meant[v] = <<S.meant[v[1]], Like(n, S.meant[v[1]], v[2])>>
              /\ \A r \in Reader : Turned(X.read[r], T.read[r],
                                          <<T.read[r].v[1], Like(n, T.read[r].v[1], T.read[r].v[2])>>)
BY DEF AndFlagLike, Turned, Like, &

(* An absent flag reads as the first one.                                  *)
LEMMA FlagLikeReads ==
    ASSUME NEW S, NEW n, NEW b, NEW x, NEW o, Reads(Fields(S, Opt(Bool)), b, <<x, o>>)
    PROVE  Reads(AndFlagLike(S, n), b, <<x, Like(n, x, o)>>)
<1> DEFINE T == Fields(S, Opt(Bool))
           X == AndFlagLike(S, n)
<1> SUFFICES ASSUME NEW r, Fits(r, b) PROVE X.read[r] = Result(r, b, <<x, Like(n, x, o)>>)
    BY DEF Reads
<1> DEFINE p == T.read[r]
           y == <<p.v[1], Like(n, p.v[1], p.v[2])>>
<1>1. p = Result(r, b, <<x, o>>)
    BY DEF Reads
<1>2. Turned(X.read[r], p, y)
    BY FlagLikeIs DEF Fits
<1>3. Whole(r, b) => y = <<x, Like(n, x, o)>>
    <2> HIDE DEF T
    <2>1. Whole(r, b) => p.v = <<x, o>>
        BY <1>1, Results
    <2> QED
        BY <2>1
<1> HIDE DEF p, y, X
<1>4. X.read[r] = Result(r, b, <<x, Like(n, x, o)>>)
    BY <1>1, <1>2, <1>3, TurnedReads
<1> QED
    BY <1>4

LEMMA FlagLikeSound ==
    ASSUME NEW S, NEW n, Sound(S), Sound(Fields(S, Opt(Bool)))
    PROVE  Sound(AndFlagLike(S, n))
<1> DEFINE T == Fields(S, Opt(Bool))
           X == AndFlagLike(S, n)
<1>1. /\ X.values = T.values /\ X.wire = T.wire
      /\ \A v \in T.values : X.meant[v] = <<S.meant[v[1]], Like(n, S.meant[v[1]], v[2])>>
    BY FlagLikeIs
<1>2. ASSUME NEW v \in T.values PROVE Carries(X, X, v, X.meant[v])
    <2>1. T.meant[v] = <<S.meant[v[1]], Opt(Bool).meant[v[2]]>> /\ v[2] \in Opt(Bool).values
        BY DEF Fields
    <2>2. Opt(Bool).meant[v[2]] = v[2]
        <3>1. v[2] \in Options(BOOLEAN)
            BY <2>1 DEF Opt, Bool, OneByte
        <3>2. \A w \in BOOLEAN : Bool.meant[w] = w
            BY DEF Bool, OneByte
        <3>3. Opt(Bool).meant[v[2]] = IF v[2] = <<>> THEN <<>> ELSE <<Bool.meant[v[2][1]]>>
            BY <2>1 DEF Opt
        <3>4. v[2] = <<>> \/ \E w \in BOOLEAN : v[2] = <<w>>
            BY <3>1, OptionsAre
        <3> QED
            BY <3>2, <3>3, <3>4
    <2>3. Carries(T, T, v, T.meant[v])
        BY DEF Sound
    <2> HIDE DEF T, X
    <2>4. Reads(X, T.wire[v], <<S.meant[v[1]], Like(n, S.meant[v[1]], v[2])>>)
        BY <2>1, <2>2, <2>3, FlagLikeReads DEF Carries, T, X
    <2> QED
        BY <1>1, <2>3, <2>4 DEF Carries
<1> HIDE DEF T, X
<1>3. Sound(X)
    BY <1>1, <1>2 DEF Sound
<1> QED
    BY <1>3 DEF X

(* Once read, it is written as present.                                    *)
LEMMA FlagLikeEcho ==
    ASSUME NEW S, NEW V, NEW n, Echo(S, V),
           \A r \in Reader : Good(S.read[r]) => Like(n, S.read[r].v, <<>>) \in BOOLEAN
    PROVE  Echo(AndFlagLike(S, n), Fields(V, Always(Bool)))
<1> DEFINE T == Fields(S, Opt(Bool))
           X == AndFlagLike(S, n)
           W == Fields(V, Always(Bool))
<1> SUFFICES ASSUME NEW r \in Reader, Good(X.read[r]) PROVE Kept(X, W, r, X.read[r])
    BY DEF Echo
<1> DEFINE z == X.read[r]
           p == T.read[r]
           o == S.read[r]
           q == Opt(Bool).read[At(r, o.at)]
           l == Like(n, o.v, q.v)
<1>1. Turned(z, p, <<p.v[1], Like(n, p.v[1], p.v[2])>>)
    BY FlagLikeIs
<1>2. Good(p) /\ z.v = <<p.v[1], Like(n, p.v[1], p.v[2])>> /\ z.at = p.at
    <2> DEFINE y == <<p.v[1], Like(n, p.v[1], p.v[2])>>
    <2> HIDE DEF X, T, y
    <2>1. Turned(z, p, y)
        BY <1>1 DEF y
    <2>2. Good(p) /\ z.v = y /\ z.at = p.at
        BY <2>1, TurnedGood
    <2> QED
        BY <2>2 DEF y
<1>3. FieldsRead(S, Opt(Bool), r, o, q, p)
    BY <1>2, FieldsGood
<1>4. Kept(S, V, r, o)
    BY <1>3 DEF Echo, FieldsRead
<1>5. Echo(Opt(Bool), Opt(Bool))
    BY BoolEcho, OptEcho
<1>6. Kept(Opt(Bool), Opt(Bool), r, q)
    BY <1>3, <1>4, <1>5, Onward DEF Kept, FieldsRead
<1>7. q.v \in Options(BOOLEAN)
    BY <1>6 DEF Kept, Carries, Opt, Bool, OneByte
<1>8. Like(n, o.v, <<>>) \in BOOLEAN
    BY <1>3 DEF FieldsRead
<1>9. z.v = <<o.v, l>> /\ z.at = q.at
    BY <1>2, <1>3 DEF FieldsRead
<1> HIDE DEF z, p, o, q
<1>10. l \in BOOLEAN
    <2>1. CASE q.v = <<>>
        BY <1>8, <2>1
    <2>2. ASSUME NEW w \in BOOLEAN, q.v = <<w>> PROVE l = w
        BY <2>2 DEF Like
    <2> HIDE DEF l
    <2> QED
        BY <1>7, <2>1, <2>2, OptionsAre
<1> HIDE DEF l
<1>11. Carries(Opt(Bool), Always(Bool), l, <<l>>)
    BY <1>10, BoolCarries, AlwaysCarries
<1>12. Carries(T, W, <<o.v, l>>, <<o.v, <<l>>>>)
    BY <1>4, <1>11, FieldsCarry DEF Kept
<1>13. Like(n, o.v, <<l>>) = l
    BY DEF Like
<1> HIDE DEF W
<1>14. Reads(X, W.wire[<<o.v, l>>], <<o.v, l>>)
    BY <1>12, <1>13, FlagLikeReads DEF Carries
<1> HIDE DEF X, T
<1>15. Carries(X, W, z.v, z.v)
    BY <1>9, <1>12, <1>14 DEF Carries
<1>16. z.at \in 0 .. Len(r.data)
    BY <1>6, <1>9 DEF Kept
<1>17. Kept(X, W, r, z)
    BY <1>15, <1>16 DEF Kept
<1> QED
    BY <1>17 DEF X, W, z

-----------------------------------------------------------------------------
(* Lists: item by item, written and read.                                  *)
IsWritten(g, W, s, n) == g = [k \in 0 .. n |-> IF k = 0 THEN <<>> ELSE g[k - 1] \o W.wire[s[k]]]

(* The recursive functions of a list exist.                                *)
LEMMA WrittenExist == ASSUME NEW W, NEW s, NEW n \in Nat PROVE \E g : IsWritten(g, W, s, n)
<1> DEFINE P == {m \in Nat : \E g : IsWritten(g, W, s, m)}
<1>1. 0 \in P
    <2> DEFINE g == [k \in 0 .. 0 |-> <<>>]
    <2>1. IsWritten(g, W, s, 0)
        BY DEF IsWritten
    <2> QED
        BY <2>1
<1>2. ASSUME NEW m \in Nat, m \in P PROVE m + 1 \in P
    <2>1. PICK g : IsWritten(g, W, s, m)
        BY <1>2
    <2> DEFINE Put(k, o) == o \o W.wire[s[k]]
               h == [k \in 0 .. m + 1 |-> IF k = m + 1 THEN Put(k, g[m]) ELSE g[k]]
    <2>2. ASSUME NEW k \in 0 .. m + 1
          PROVE  h[k] = IF k = 0 THEN <<>> ELSE Put(k, h[k - 1])
        <3>1. CASE k = m + 1
            <4>1. k # 0 /\ k - 1 = m /\ m \in 0 .. m + 1 /\ m # m + 1
                BY <3>1
            <4>2. h[m] = g[m] /\ h[k] = Put(k, g[m])
                BY <3>1, <4>1
            <4> HIDE DEF h, Put
            <4> QED
                BY <4>1, <4>2
        <3>2. CASE k # m + 1
            <4>1. k \in 0 .. m /\ h[k] = g[k]
                BY <3>2
            <4>2. g[k] = IF k = 0 THEN <<>> ELSE Put(k, g[k - 1])
                BY <2>1, <4>1 DEF IsWritten
            <4>3. k # 0 => k - 1 \in 0 .. m + 1 /\ k - 1 # m + 1
                BY <4>1
            <4>4. k # 0 => h[k - 1] = g[k - 1]
                BY <4>3
            <4> HIDE DEF h, Put
            <4> QED
                BY <4>1, <4>2, <4>4
        <3> QED
            BY <3>1, <3>2
    <2>3. h = [k \in 0 .. m + 1 |-> h[k]]
        OBVIOUS
    <2> HIDE DEF h
    <2>4. IsWritten(h, W, s, m + 1)
        BY <2>2, <2>3 DEF IsWritten
    <2> QED
        BY <2>4
<1> HIDE DEF P
<1>3. n \in P
    BY <1>1, <1>2, Upwards
<1> QED
    BY <1>3 DEF P

IsReadAfter(g, T, r, n) ==
    g = [k \in 0 .. n |-> IF k = 0 THEN Got(<<>>, r.offset)
                          ELSE Both(g[k - 1], T.read[At(r, g[k - 1].at)],
                                    Append(g[k - 1].v, T.read[At(r, g[k - 1].at)].v))]

LEMMA ReadAfterExist == ASSUME NEW T, NEW r, NEW n \in Nat PROVE \E g : IsReadAfter(g, T, r, n)
<1> DEFINE P == {m \in Nat : \E g : IsReadAfter(g, T, r, m)}
<1>1. 0 \in P
    <2> DEFINE g == [k \in 0 .. 0 |-> Got(<<>>, r.offset)]
    <2>1. IsReadAfter(g, T, r, 0)
        BY DEF IsReadAfter
    <2> QED
        BY <2>1
<1>2. ASSUME NEW m \in Nat, m \in P PROVE m + 1 \in P
    <2>1. PICK g : IsReadAfter(g, T, r, m)
        BY <1>2
    <2> DEFINE Put(k, o) == Both(o, T.read[At(r, o.at)], Append(o.v, T.read[At(r, o.at)].v))
               h == [k \in 0 .. m + 1 |-> IF k = m + 1 THEN Put(k, g[m]) ELSE g[k]]
    <2>2. ASSUME NEW k \in 0 .. m + 1
          PROVE  h[k] = IF k = 0 THEN Got(<<>>, r.offset) ELSE Put(k, h[k - 1])
        <3>1. CASE k = m + 1
            <4>1. k # 0 /\ k - 1 = m /\ m \in 0 .. m + 1 /\ m # m + 1
                BY <3>1
            <4>2. h[m] = g[m] /\ h[k] = Put(k, g[m])
                BY <3>1, <4>1
            <4> HIDE DEF h, Put
            <4> QED
                BY <4>1, <4>2
        <3>2. CASE k # m + 1
            <4>1. k \in 0 .. m /\ h[k] = g[k]
                BY <3>2
            <4>2. g[k] = IF k = 0 THEN Got(<<>>, r.offset) ELSE Put(k, g[k - 1])
                BY <2>1, <4>1 DEF IsReadAfter
            <4>3. k # 0 => k - 1 \in 0 .. m + 1 /\ k - 1 # m + 1
                BY <4>1
            <4>4. k # 0 => h[k - 1] = g[k - 1]
                BY <4>3
            <4> HIDE DEF h, Put
            <4> QED
                BY <4>1, <4>2, <4>4
        <3> QED
            BY <3>1, <3>2
    <2>3. h = [k \in 0 .. m + 1 |-> h[k]]
        OBVIOUS
    <2> HIDE DEF h
    <2>4. IsReadAfter(h, T, r, m + 1)
        BY <2>2, <2>3 DEF IsReadAfter
    <2> QED
        BY <2>4
<1> HIDE DEF P
<1>3. n \in P
    BY <1>1, <1>2, Upwards
<1> QED
    BY <1>3 DEF P

(* Their last value is what is written and read.                           *)
LEMMA WriteItemsIs ==
    ASSUME NEW W, NEW s, Len(s) \in Nat
    PROVE  \E u : IsWritten(u, W, s, Len(s)) /\ WriteItems(W, s) = u[Len(s)]
<1> DEFINE u == CHOOSE f : IsWritten(f, W, s, Len(s))
<1>1. IsWritten(u, W, s, Len(s))
    BY WrittenExist
<1>2. WriteItems(W, s) = u[Len(s)]
    BY DEF WriteItems, IsWritten
<1> QED
    BY <1>1, <1>2

LEMMA ReadItemsIs ==
    ASSUME NEW T, NEW r, NEW n \in Nat
    PROVE  \E g : IsReadAfter(g, T, r, n) /\ ReadItems(T, r, n) = g[n]
<1> DEFINE g == CHOOSE f : IsReadAfter(f, T, r, n)
<1>1. IsReadAfter(g, T, r, n)
    BY ReadAfterExist
<1>2. ReadItems(T, r, n) = g[n]
    BY DEF ReadItems, IsReadAfter
<1> QED
    BY <1>1, <1>2

Writes(u, W, s, n) ==
    /\ u[0] = <<>>
    /\ \A k \in Nat : k + 1 <= n => u[k + 1] = u[k] \o W.wire[s[k + 1]]

LEMMA WrittenStep ==
    ASSUME NEW u, NEW W, NEW s, NEW n \in Nat, IsWritten(u, W, s, n)
    PROVE  Writes(u, W, s, n)
<1>0. 0 \in 0 .. n
    OBVIOUS
<1>1. u[0] = <<>>
    BY <1>0 DEF IsWritten
<1>2. ASSUME NEW k \in Nat, k + 1 <= n PROVE u[k + 1] = u[k] \o W.wire[s[k + 1]]
    <2> DEFINE j == k + 1
    <2>1. j \in 0 .. n /\ j # 0 /\ j - 1 = k
        BY <1>2
    <2>2. u[j] = u[j - 1] \o W.wire[s[j]]
        <3> HIDE DEF j
        <3> QED
            BY <2>1 DEF IsWritten
    <2> QED
        BY <2>1, <2>2
<1> QED
    BY <1>1, <1>2 DEF Writes

ReadsAll(g, T, r, n) ==
    /\ g[0] = Got(<<>>, r.offset)
    /\ \A k \in Nat : k + 1 <= n =>
           g[k + 1] = Both(g[k], T.read[At(r, g[k].at)], Append(g[k].v, T.read[At(r, g[k].at)].v))

LEMMA ReadAfterStep ==
    ASSUME NEW g, NEW T, NEW r, NEW n \in Nat, IsReadAfter(g, T, r, n)
    PROVE  ReadsAll(g, T, r, n)
<1>0. 0 \in 0 .. n
    OBVIOUS
<1>1. g[0] = Got(<<>>, r.offset)
    BY <1>0 DEF IsReadAfter
<1>2. ASSUME NEW k \in Nat, k + 1 <= n
      PROVE  g[k + 1] = Both(g[k], T.read[At(r, g[k].at)], Append(g[k].v, T.read[At(r, g[k].at)].v))
    <2> DEFINE j == k + 1
    <2>1. j \in 0 .. n /\ j # 0 /\ j - 1 = k
        BY <1>2
    <2>2. g[j] = Both(g[j - 1], T.read[At(r, g[j - 1].at)],
                      Append(g[j - 1].v, T.read[At(r, g[j - 1].at)].v))
        <3> HIDE DEF j
        <3> QED
            BY <2>1 DEF IsReadAfter
    <2> QED
        BY <2>1, <2>2
<1> QED
    BY <1>1, <1>2 DEF ReadsAll

(* One item more.                                                          *)
LEMMA OneMore ==
    ASSUME NEW M, NEW m \in Seq(M), NEW k \in Nat, k + 1 <= Len(m)
    PROVE  Append(SubSeq(m, 1, k), m[k + 1]) = SubSeq(m, 1, k + 1)
<1> DEFINE j == k + 1
<1>1. j \in 1 .. Len(m) /\ 1 \in 1 .. Len(m) /\ j \in 1 .. Len(m) /\ j - 1 = k
    BY LenProperties
<1>2. SubSeq(m, 1, j) = SubSeq(m, 1, j - 1) \o <<m[j]>>
    <2> HIDE DEF j
    <2>1. j \in 1 .. Len(m)
        BY <1>1
    <2> QED
        BY <1>1, <2>1, SubSeqRecursiveSecond
<1>3. SubSeq(m, 1, k) \in Seq(M)
    <2>1. \A i \in 1 .. k : m[i] \in M
        BY <1>1
    <2> QED
        BY <2>1, SubSeqProperties
<1> DEFINE t == SubSeq(m, 1, k)
           e == m[k + 1]
<1>4. e \in M
    BY <1>1
<1>5. Append(t, e) = t \o <<e>>
    <2> HIDE DEF t, e
    <2> QED
        BY <1>3, <1>4, AppendIsConcat DEF t
<1> QED
    BY <1>1, <1>2, <1>5

(* The items of s, which mean m, are read where they were written.         *)
CarriesAll(T, W, s, m) == \A i \in 1 .. Len(s) : Carries(T, W, s[i], m[i])
ItemsRead(T, r, b, n, m) == Fits(r, b) => ReadItems(T, r, n) = Result(r, b, m)

(* All items of a list, by induction on how many were read.                *)
LEMMA ItemsCarry ==
    ASSUME NEW T, NEW W, NEW M, NEW m \in Seq(M), NEW s, Len(s) = Len(m), CarriesAll(T, W, s, m)
    PROVE  /\ WriteItems(W, s) \in Seq(Byte)
           /\ \A r : ItemsRead(T, r, WriteItems(W, s), Len(s), m)
<1> DEFINE n == Len(m)
<1>0. n \in Nat
    BY LenProperties
<1>1. PICK u : IsWritten(u, W, s, n) /\ WriteItems(W, s) = u[n]
    BY <1>0, WriteItemsIs
<1> HIDE DEF n
<1>a. /\ u[0] = <<>>
      /\ \A k \in Nat : k + 1 <= n => u[k + 1] = u[k] \o W.wire[s[k + 1]]
    <2>1. IsWritten(u, W, s, n)
        BY <1>1
    <2>2. Writes(u, W, s, n)
        BY <1>0, <2>1, WrittenStep
    <2> QED
        BY <2>2 DEF Writes
<1>2. ASSUME NEW k \in Nat, k + 1 <= n PROVE Carries(T, W, s[k + 1], m[k + 1])
    <2>1. k + 1 \in 1 .. n
        BY <1>0, <1>2
    <2> QED
        BY <2>1 DEF CarriesAll, n
<1>3. ASSUME NEW k \in Nat, k <= n PROVE u[k] \in Seq(Byte)
    <2> DEFINE P == {i \in Nat : i <= n => u[i] \in Seq(Byte)}
    <2>1. 0 \in P
        <3>1. u[0] \in Seq(Byte)
            <4>1. <<>> \in Seq(Byte)
                OBVIOUS
            <4> QED
                BY <1>a, <4>1
        <3> QED
            BY <3>1
    <2>2. ASSUME NEW i \in Nat, i \in P PROVE i + 1 \in P
        <3> SUFFICES ASSUME i + 1 <= n PROVE u[i + 1] \in Seq(Byte)
            OBVIOUS
        <3> DEFINE c == W.wire[s[i + 1]]
        <3>1. u[i + 1] = u[i] \o c
            BY <1>a
        <3>2. c \in Seq(Byte)
            BY <1>2 DEF Carries
        <3>3. u[i] \in Seq(Byte)
            BY <1>0, <2>2
        <3> HIDE DEF c
        <3> QED
            BY <3>1, <3>2, <3>3
    <2> HIDE DEF P
    <2>3. k \in P
        BY <2>1, <2>2, Upwards
    <2> QED
        BY <1>3, <2>3 DEF P
<1>4. ASSUME NEW r, Fits(r, u[n]) PROVE ReadItems(T, r, n) = Result(r, u[n], m)
    <2>1. PICK g : IsReadAfter(g, T, r, n) /\ ReadItems(T, r, n) = g[n]
        BY <1>0, ReadItemsIs
    <2>a. /\ g[0] = Got(<<>>, r.offset)
          /\ \A k \in Nat : k + 1 <= n =>
                g[k + 1] = Both(g[k], T.read[At(r, g[k].at)], Append(g[k].v, T.read[At(r, g[k].at)].v))
        <3>1. ReadsAll(g, T, r, n)
            BY <1>0, <2>1, ReadAfterStep
        <3> QED
            BY <3>1 DEF ReadsAll
    <2> DEFINE Upto(k) == SubSeq(m, 1, k)
               Fine(k) == Fits(r, u[k]) => g[k] = Result(r, u[k], Upto(k))
               P == {k \in Nat : k <= n => Fine(k)}
    <2>2. 0 \in P
        <3> SUFFICES ASSUME Fits(r, u[0]) PROVE g[0] = Result(r, u[0], Upto(0))
            OBVIOUS
        <3>1. u[0] = <<>> /\ g[0] = Got(<<>>, r.offset)
            BY <1>a, <2>a
        <3>2. Upto(0) = <<>>
            BY SubSeqEmpty
        <3>3. ReaderFacts(r)
            BY ReaderIs DEF Fits
        <3>4. r.offset + Len(<<>>) = r.offset /\ r.offset <= Len(r.data)
            BY <3>3 DEF ReaderFacts
        <3> HIDE DEF Upto
        <3> QED
            BY <3>1, <3>2, <3>4 DEF Result, Whole
    <2>3. ASSUME NEW k \in Nat, k \in P PROVE k + 1 \in P
        <3> SUFFICES ASSUME k + 1 <= n, Fits(r, u[k + 1])
                     PROVE  g[k + 1] = Result(r, u[k + 1], Upto(k + 1))
            OBVIOUS
        <3> DEFINE b == u[k]
                   c == W.wire[s[k + 1]]
                   e == m[k + 1]
                   o == g[k]
                   p == T.read[At(r, o.at)]
        <3>1. u[k + 1] = b \o c /\ g[k + 1] = Both(o, p, Append(o.v, p.v))
            BY <1>a, <2>a
        <3>0. k \in 0 .. n /\ k + 1 \in Nat /\ k + 1 <= n
            BY <1>0
        <3>2. b \in Seq(Byte) /\ c \in Seq(Byte) /\ Reads(T, c, e)
            <4>1. b \in Seq(Byte)
                BY <1>3, <3>0
            <4>2. Carries(T, W, s[k + 1], e)
                BY <1>2, <3>0
            <4> QED
                BY <4>1, <4>2 DEF Carries
        <3>3. k <= n
            BY <1>0
        <3>4. Append(Upto(k), e) = Upto(k + 1)
            BY OneMore DEF n
        <3>5. Fine(k)
            BY <2>3, <3>3
        <3> HIDE DEF Upto, e, c
        <3>6. Continues(r, b, c)
            BY <3>1, <3>2, Split
        <3>7. o = Result(r, b, Upto(k))
            BY <3>5, <3>6 DEF Continues
        <3>8. ASSUME Whole(r, b) PROVE p = Result(Behind(r, b), c, e)
            <4>1. At(r, o.at) = Behind(r, b)
                BY <3>7, <3>8, Results
            <4>2. Fits(Behind(r, b), c)
                BY <3>6, <3>8 DEF Continues
            <4> QED
                BY <3>2, <4>1, <4>2 DEF Reads
        <3> HIDE DEF o, p, b
        <3>9. Both2(r, b, c, o, p, Upto(k), e)
            BY <3>1, <3>2, <3>7, <3>8, Sequel
        <3>10. g[k + 1] = Result(r, b \o c, Append(o.v, p.v))
            BY <3>1, <3>9 DEF Both2
        <3>11. Whole(r, b \o c) => Append(o.v, p.v) = Upto(k + 1)
            BY <3>4, <3>9 DEF Both2
        <3>12. g[k + 1] = Result(r, b \o c, Upto(k + 1))
            BY <3>10, <3>11 DEF Result
        <3> QED
            BY <3>1, <3>12
    <2> HIDE DEF P
    <2>4. n \in P
        BY <1>0, <2>2, <2>3, Upwards
    <2>5. Upto(n) = m
        BY SubSeqFull DEF n
    <2> HIDE DEF Upto
    <2>6. g[n] = Result(r, u[n], m)
        BY <1>0, <1>4, <2>4, <2>5 DEF P
    <2> QED
        BY <2>1, <2>6
<1>5. u[n] \in Seq(Byte)
    BY <1>0, <1>3
<1> QED
    BY <1>1, <1>4, <1>5 DEF ItemsRead, n

(* A list: its count, and its items.                                       *)
LEMMA ListCarries ==
    ASSUME NEW T, NEW W, NEW M, NEW m \in Seq(M), NEW s \in Lists(W.values), Len(s) = Len(m),
           CarriesAll(T, W, s, m)
    PROVE  Carries(List(T), List(W), s, m)
<1> DEFINE k == Len(s)
           b == WriteVar[k]
           c == WriteItems(W, s)
<1>1. k \in Number /\ k \in Nat
    BY DEF Lists
<1>2. b \in Seq(Byte)
    BY <1>1, WriteVarBytes
<1>3. c \in Seq(Byte) /\ \A r : ItemsRead(T, r, c, k, m)
    BY ItemsCarry
<1>4. s \in List(W).values /\ List(W).wire[s] = b \o c
    BY DEF List
<1> HIDE DEF k, b, c
<1>5. b \o c \in Seq(Byte)
    BY <1>2, <1>3
<1>6. ASSUME NEW r, Fits(r, b \o c) PROVE List(T).read[r] = Result(r, b \o c, m)
    <2> DEFINE n == ReadVar(r)
    <2>1. Continues(r, b, c)
        BY <1>2, <1>3, <1>6, Split
    <2>2. n = Result(r, b, k)
        BY <1>1, <2>1, ReadVarReads DEF Continues, b
    <2>3. List(T).read[r] = IF Good(n) THEN ReadItems(T, At(r, n.at), n.v) ELSE n
        BY <1>6 DEF List, ReadList, Fits
    <2> HIDE DEF n
    <2>4. CASE Whole(r, b)
        <3>1. Good(n) /\ n.v = k /\ At(r, n.at) = Behind(r, b)
            BY <2>2, <2>4, Results
        <3>2. ReadItems(T, Behind(r, b), k) = Result(Behind(r, b), c, m)
            BY <1>3, <2>1, <2>4 DEF ItemsRead, Continues
        <3>3. Result(Behind(r, b), c, m) = Result(r, b \o c, m)
            BY <2>1, <2>4 DEF Continues, Result
        <3> QED
            BY <2>3, <3>1, <3>2, <3>3
    <2>5. CASE ~ Whole(r, b)
        <3>1. n = Failed /\ ~ Good(n)
            BY <2>2, <2>5, GotIs DEF Result
        <3>2. ~ Whole(r, b \o c)
            BY <2>1, <2>5 DEF Continues
        <3> QED
            BY <2>3, <3>1, <3>2 DEF Result
    <2> QED
        BY <2>4, <2>5
<1> QED
    BY <1>4, <1>5, <1>6 DEF Carries, Reads

LEMMA ListSound == ASSUME NEW T, Sound(T) PROVE Sound(List(T))
<1>1. /\ List(T).values = Lists(T.values)
      /\ List(T).meant = [s \in Lists(T.values) |-> [i \in DOMAIN s |-> T.meant[s[i]]]]
    BY DEF List
<1>2. ASSUME NEW s \in Lists(T.values) PROVE Carries(List(T), List(T), s, List(T).meant[s])
    <2> DEFINE M == {T.meant[v] : v \in T.values}
               k == Len(s)
               m == [i \in 1 .. k |-> T.meant[s[i]]]
    <2>1. s \in Seq(T.values) /\ k \in Nat /\ DOMAIN s = 1 .. k
        BY DEF Lists
    <2>2. ASSUME NEW i \in 1 .. k PROVE s[i] \in T.values
        BY <2>1
    <2>3. m \in Seq(M) /\ Len(m) = k
        <3>1. \A i \in 1 .. k : T.meant[s[i]] \in M
            BY <2>2
        <3> HIDE DEF M, k
        <3> QED
            BY <2>1, <3>1
    <2>4. ASSUME NEW i \in 1 .. k PROVE Carries(T, T, s[i], m[i])
        BY <2>2 DEF Sound
    <2>5. List(T).meant[s] = m
        BY <1>1, <2>1
    <2> HIDE DEF m, M
    <2>6. CarriesAll(T, T, s, m)
        BY <2>4 DEF CarriesAll
    <2> HIDE DEF k
    <2>7. Carries(List(T), List(T), s, m)
        BY <2>3, <2>6, ListCarries DEF k
    <2> QED
        BY <2>5, <2>7
<1> QED
    BY <1>1, <1>2 DEF Sound

(* Items that were read, of whatever buffer, can be written.               *)
LEMMA ReadsAllGood ==
    ASSUME NEW T, NEW W, Echo(T, W), NEW r \in Reader, NEW n \in Nat, NEW g, ReadsAll(g, T, r, n),
           Good(g[n])
    PROVE  /\ g[n].at \in 0 .. Len(r.data) /\ g[n].v \in Seq(W.values) /\ Len(g[n].v) = n
           /\ CarriesAll(T, W, g[n].v, g[n].v)
<1> DEFINE Fine(k) == Good(g[k]) => /\ g[k].at \in 0 .. Len(r.data)
                                    /\ g[k].v \in Seq(W.values) /\ Len(g[k].v) = k
                                    /\ CarriesAll(T, W, g[k].v, g[k].v)
           P == {k \in Nat : k <= n => Fine(k)}
<1>1. 0 \in P
    <2>1. g[0] = Got(<<>>, r.offset)
        BY DEF ReadsAll
    <2>2. g[0].v = <<>> /\ g[0].at = r.offset
        BY <2>1 DEF Got
    <2>3. r.offset \in 0 .. Len(r.data)
        BY ReaderIs DEF ReaderFacts
    <2>4. <<>> \in Seq(W.values) /\ Len(<<>>) = 0 /\ CarriesAll(T, W, <<>>, <<>>)
        BY DEF CarriesAll
    <2>5. Fine(0)
        BY <2>2, <2>3, <2>4
    <2> HIDE DEF Fine
    <2> QED
        BY <2>5
<1>2. ASSUME NEW k \in Nat, k \in P PROVE k + 1 \in P
    <2> SUFFICES ASSUME k + 1 <= n PROVE Fine(k + 1)
        OBVIOUS
    <2> DEFINE o == g[k]
               p == T.read[At(r, o.at)]
               z == g[k + 1]
    <2>1. z = Both(o, p, Append(o.v, p.v))
        BY DEF ReadsAll
    <2>2. k <= n
        OBVIOUS
    <2>3. Fine(k)
        BY <1>2, <2>2
    <2> SUFFICES ASSUME Good(z)
                 PROVE  /\ z.at \in 0 .. Len(r.data) /\ z.v \in Seq(W.values) /\ Len(z.v) = k + 1
                        /\ CarriesAll(T, W, z.v, z.v)
        OBVIOUS
    <2> DEFINE v == Append(o.v, p.v)
    <2> HIDE DEF z
    <2>4. Good(o) /\ Good(p) /\ z = Got(v, p.at)
        BY <2>1 DEF Both
    <2>5. /\ o.at \in 0 .. Len(r.data) /\ o.v \in Seq(W.values) /\ Len(o.v) = k
          /\ CarriesAll(T, W, o.v, o.v)
        BY <2>3, <2>4
    <2>6. Kept(T, W, r, p)
        BY <2>4, <2>5, Onward
    <2> DEFINE s == o.v
               e == p.v
    <2>7. e \in W.values /\ Carries(T, W, e, e)
        BY <2>6 DEF Kept, Carries
    <2>8. s \in Seq(W.values) /\ Len(s) = k /\ CarriesAll(T, W, s, s)
        BY <2>5
    <2>9. z.v = v /\ z.at = p.at
        <3> HIDE DEF v, p
        <3> QED
            BY <2>4 DEF Got
    <2>10. v = Append(s, e)
        OBVIOUS
    <2> HIDE DEF o, p, v, s, e
    <2>11. v \in Seq(W.values) /\ Len(v) = k + 1 /\ (\A i \in 1 .. k : v[i] = s[i]) /\ v[k + 1] = e
        BY <2>7, <2>8, <2>10, AppendProperties
    <2>12. ASSUME NEW i \in 1 .. k + 1 PROVE Carries(T, W, v[i], v[i])
        <3>1. CASE i \in 1 .. k
            BY <2>8, <2>11, <3>1 DEF CarriesAll
        <3>2. CASE i = k + 1
            BY <2>7, <2>11, <3>2
        <3> QED
            BY <3>1, <3>2
    <2>13. CarriesAll(T, W, v, v)
        BY <2>11, <2>12 DEF CarriesAll
    <2> QED
        BY <2>6, <2>9, <2>11, <2>13 DEF Kept
<1> HIDE DEF P
<1>3. n \in P
    BY <1>1, <1>2, Upwards
<1> QED
    BY <1>3 DEF P

LEMMA ListEcho == ASSUME NEW T, NEW W, Echo(T, W) PROVE Echo(List(T), List(W))
<1> SUFFICES ASSUME NEW r \in Reader, Good(List(T).read[r])
             PROVE  Kept(List(T), List(W), r, List(T).read[r])
    BY DEF Echo
<1> DEFINE n == ReadVar(r)
           q == At(r, n.at)
           z == List(T).read[r]
<1>1. z = IF Good(n) THEN ReadItems(T, q, n.v) ELSE n
    BY DEF List, ReadList
<1> HIDE DEF z
<1>2. Good(n) /\ z = ReadItems(T, q, n.v)
    BY <1>1 DEF z
<1>3. NumberIs(r, n)
    BY <1>2, ReadVarGood
<1>4. n.v \in Nat /\ n.at \in Nat /\ n.at <= Len(r.data)
    BY <1>3, ReaderIs, WordIs DEF NumberIs, Number, ReaderFacts
<1>5. q \in Reader /\ q.data = r.data
    BY <1>4, AtIs
<1> DEFINE k == n.v
<1> HIDE DEF q, n
<1>6. PICK g : IsReadAfter(g, T, q, k) /\ ReadItems(T, q, k) = g[k]
    BY <1>4, ReadItemsIs
<1>7. ReadsAll(g, T, q, k)
    BY <1>4, <1>6, ReadAfterStep
<1> HIDE DEF k
<1>8. z = g[k] /\ Good(g[k]) /\ k \in Nat
    BY <1>2, <1>4, <1>6 DEF k, z
<1>9. /\ z.at \in 0 .. Len(q.data) /\ z.v \in Seq(W.values) /\ Len(z.v) = k
      /\ CarriesAll(T, W, z.v, z.v)
    BY <1>5, <1>7, <1>8, ReadsAllGood
<1>10. z.v \in Lists(W.values)
    BY <1>3, <1>9 DEF Lists, NumberIs, k
<1>11. Carries(List(T), List(W), z.v, z.v)
    BY <1>9, <1>10, ListCarries
<1> QED
    BY <1>5, <1>9, <1>11 DEF Kept, z

-----------------------------------------------------------------------------
(* A payload chosen by a tag                                               *)
IsChoices(g, arms, n) ==
    g = [k \in 0 .. n |-> IF k = 0 THEN {}
                          ELSE g[k - 1] \cup ({arms[k][1]} \X arms[k][2].values)]

LEMMA ChoicesExist == ASSUME NEW arms, NEW n \in Nat PROVE \E g : IsChoices(g, arms, n)
<1> DEFINE P == {m \in Nat : \E g : IsChoices(g, arms, m)}
<1>1. 0 \in P
    <2> DEFINE g == [k \in 0 .. 0 |-> {}]
    <2>1. IsChoices(g, arms, 0)
        BY DEF IsChoices
    <2> QED
        BY <2>1
<1>2. ASSUME NEW m \in Nat, m \in P PROVE m + 1 \in P
    <2>1. PICK g : IsChoices(g, arms, m)
        BY <1>2
    <2> DEFINE Put(k, o) == o \cup ({arms[k][1]} \X arms[k][2].values)
               h == [k \in 0 .. m + 1 |-> IF k = m + 1 THEN Put(k, g[m]) ELSE g[k]]
    <2>2. ASSUME NEW k \in 0 .. m + 1
          PROVE  h[k] = IF k = 0 THEN {} ELSE Put(k, h[k - 1])
        <3>1. CASE k = m + 1
            <4>1. k # 0 /\ k - 1 = m /\ m \in 0 .. m + 1 /\ m # m + 1
                BY <3>1
            <4>2. h[m] = g[m] /\ h[k] = Put(k, g[m])
                BY <3>1, <4>1
            <4> HIDE DEF h, Put
            <4> QED
                BY <4>1, <4>2
        <3>2. CASE k # m + 1
            <4>1. k \in 0 .. m /\ h[k] = g[k]
                BY <3>2
            <4>2. g[k] = IF k = 0 THEN {} ELSE Put(k, g[k - 1])
                BY <2>1, <4>1 DEF IsChoices
            <4>3. k # 0 => k - 1 \in 0 .. m + 1 /\ k - 1 # m + 1
                BY <4>1
            <4>4. k # 0 => h[k - 1] = g[k - 1]
                BY <4>3
            <4> HIDE DEF h, Put
            <4> QED
                BY <4>1, <4>2, <4>4
        <3> QED
            BY <3>1, <3>2
    <2>3. h = [k \in 0 .. m + 1 |-> h[k]]
        OBVIOUS
    <2> HIDE DEF h
    <2>4. IsChoices(h, arms, m + 1)
        BY <2>2, <2>3 DEF IsChoices
    <2> QED
        BY <2>4
<1> HIDE DEF P
<1>3. n \in P
    BY <1>1, <1>2, Upwards
<1> QED
    BY <1>3 DEF P

Choice(arms, v, i) == \E x \in arms[i][2].values : v = <<arms[i][1], x>>

(* The values of a union are the values of its arms, with their tags.      *)
LEMMA ChoicesAre ==
    ASSUME NEW arms, Len(arms) \in Nat, NEW v
    PROVE  v \in Choices(arms) <=> \E i \in 1 .. Len(arms) : Choice(arms, v, i)
<1> DEFINE n == Len(arms)
           u == CHOOSE f : IsChoices(f, arms, n)
<1>1. IsChoices(u, arms, n)
    BY ChoicesExist
<1>2. Choices(arms) = u[n]
    BY DEF Choices, IsChoices
<1> HIDE DEF u
<1> DEFINE P == {k \in Nat : k <= n => (v \in u[k] <=> \E i \in 1 .. k : Choice(arms, v, i))}
<1>3. 0 \in P
    <2>1. 0 \in 0 .. n
        OBVIOUS
    <2>2. u[0] = {}
        BY <1>1, <2>1 DEF IsChoices
    <2> QED
        BY <2>2
<1>4. ASSUME NEW k \in Nat, k \in P PROVE k + 1 \in P
    <2> SUFFICES ASSUME k + 1 <= n
                 PROVE  v \in u[k + 1] <=> \E i \in 1 .. k + 1 : Choice(arms, v, i)
        OBVIOUS
    <2> DEFINE j == k + 1
    <2>1. j \in 0 .. n /\ j # 0 /\ j - 1 = k /\ k <= n
        OBVIOUS
    <2>2. u[j] = u[j - 1] \cup ({arms[j][1]} \X arms[j][2].values)
        <3> HIDE DEF j
        <3> QED
            BY <1>1, <2>1 DEF IsChoices
    <2>3. v \in {arms[j][1]} \X arms[j][2].values <=> Choice(arms, v, j)
        BY DEF Choice
    <2>4. v \in u[k] <=> \E i \in 1 .. k : Choice(arms, v, i)
        BY <1>4, <2>1
    <2>5. \A i : i \in 1 .. j <=> i \in 1 .. k \/ i = j
        OBVIOUS
    <2>6. v \in u[j] <=> v \in u[k] \/ Choice(arms, v, j)
        BY <2>1, <2>2, <2>3
    <2> HIDE DEF j
    <2>7. v \in u[j] <=> \E i \in 1 .. j : Choice(arms, v, i)
        BY <2>4, <2>5, <2>6
    <2> QED
        BY <2>7 DEF j
<1> HIDE DEF P
<1>5. n \in P
    BY <1>3, <1>4, Upwards
<1> QED
    BY <1>2, <1>5 DEF P

(* The tags differ.                                                        *)
Tags(arms) == /\ Len(arms) \in Nat /\ DOMAIN arms = 1 .. Len(arms)
              /\ \A i, j \in DOMAIN arms : arms[i][1] = arms[j][1] => i = j

(* A tag has one arm.                                                      *)
LEMMA ArmIs ==
    ASSUME NEW arms, Tags(arms), NEW i \in DOMAIN arms
    PROVE  Known(arms, arms[i][1]) /\ ArmOf(arms, arms[i][1]) = arms[i][2]
<1> DEFINE t == arms[i][1]
           k == CHOOSE j \in DOMAIN arms : arms[j][1] = t
<1>1. k \in DOMAIN arms /\ arms[k][1] = t
    OBVIOUS
<1>2. k = i
    BY <1>1 DEF Tags
<1>3. ArmOf(arms, t) = arms[k][2]
    BY DEF ArmOf
<1> HIDE DEF k
<1> QED
    BY <1>2, <1>3 DEF Known

UnionReads(tag, arms, other, r, z) ==
    LET t == tag.read[r]
        v == ArmOf(arms, t.v).read[At(r, t.at)]
    IN z = IF Good(t) /\ ~ Known(arms, t.v)
           THEN IF other = <<>> THEN Failed ELSE Got(<<t.v, other[1]>>, t.at)
           ELSE Both(t, v, <<t.v, v.v>>)

UnionWrites(tag, arms, U) ==
    /\ U.values = Choices(arms)
    /\ \A v \in Choices(arms) : /\ U.wire[v] = tag.wire[v[1]] \o ArmOf(arms, v[1]).wire[v[2]]
                                /\ U.meant[v] = <<v[1], ArmOf(arms, v[1]).meant[v[2]]>>

LEMMA UnionIs ==
    ASSUME NEW tag, NEW arms, NEW other
    PROVE  /\ UnionWrites(tag, arms, Union(tag, arms, other))
           /\ \A r \in Reader : UnionReads(tag, arms, other, r, Union(tag, arms, other).read[r])
BY DEF Union, UnionReads, UnionWrites

(* A payload is written and read by the arm of its tag.                    *)
LEMMA UnionCarries ==
    ASSUME NEW tag, NEW A, NEW B, NEW x, NEW y, Tags(A), Tags(B), NEW i \in DOMAIN A, NEW j \in DOMAIN B,
           A[i][1] = B[j][1], Carries(tag, tag, A[i][1], A[i][1]), NEW v, NEW m,
           Carries(A[i][2], B[j][2], v, m)
    PROVE  Carries(Union(tag, A, x), Union(tag, B, y), <<A[i][1], v>>, <<A[i][1], m>>)
<1> DEFINE t == A[i][1]
           S == A[i][2]
           W == B[j][2]
           U == Union(tag, A, x)
           V == Union(tag, B, y)
           b == tag.wire[t]
           c == W.wire[v]
<1>1. Known(A, t) /\ ArmOf(A, t) = S /\ ArmOf(B, t) = W
    BY ArmIs
<1>2. v \in W.values /\ b \in Seq(Byte) /\ c \in Seq(Byte) /\ Reads(tag, b, t) /\ Reads(S, c, m)
    BY DEF Carries
<1>3. <<t, v>> \in Choices(B)
    <2>1. Choice(B, <<t, v>>, j) /\ Len(B) \in Nat /\ j \in 1 .. Len(B)
        BY <1>2 DEF Choice, Tags
    <2> QED
        BY <2>1, ChoicesAre
<1>4. <<t, v>> \in V.values /\ V.wire[<<t, v>>] = b \o c
    <2>1. UnionWrites(tag, B, V)
        BY UnionIs
    <2>2. <<t, v>>[1] = t /\ <<t, v>>[2] = v
        OBVIOUS
    <2> DEFINE w == <<t, v>>
    <2> HIDE DEF V, w, t
    <2>3. w \in V.values /\ V.wire[w] = tag.wire[w[1]] \o ArmOf(B, w[1]).wire[w[2]]
        BY <1>3, <2>1 DEF UnionWrites, w
    <2> QED
        BY <1>1, <2>2, <2>3 DEF w
<1> HIDE DEF t, S, W, b, c
<1>5. b \o c \in Seq(Byte)
    BY <1>2
<1>6. ASSUME NEW r, Fits(r, b \o c) PROVE U.read[r] = Result(r, b \o c, <<t, m>>)
    <2> DEFINE o == tag.read[r]
               p == S.read[At(r, o.at)]
               q == ArmOf(A, o.v).read[At(r, o.at)]
               z == U.read[r]
    <2>1. Continues(r, b, c)
        BY <1>2, <1>6, Split
    <2>2. o = Result(r, b, t)
        BY <1>2, <2>1 DEF Continues, Reads
    <2>3. ASSUME Whole(r, b) PROVE p = Result(Behind(r, b), c, m)
        <3>1. At(r, o.at) = Behind(r, b)
            BY <2>2, <2>3, Results
        <3>2. Fits(Behind(r, b), c)
            BY <2>1, <2>3 DEF Continues
        <3> QED
            BY <1>2, <3>1, <3>2 DEF Reads
    <2>4. z = IF Good(o) /\ ~ Known(A, o.v)
              THEN IF x = <<>> THEN Failed ELSE Got(<<o.v, x[1]>>, o.at)
              ELSE Both(o, q, <<o.v, q.v>>)
        <3>1. r \in Reader
            BY <1>6 DEF Fits
        <3>2. UnionReads(tag, A, x, r, z)
            BY <3>1, UnionIs DEF U
        <3> QED
            BY <3>2 DEF UnionReads
    <2>5. Good(o) => o.v = t /\ q = p
        <3>1. Good(o) => o.v = t
            BY <2>2, Results
        <3> QED
            BY <1>1, <3>1
    <2> HIDE DEF z, o, p, q
    <2>6. ~ Good(o) => z = Both(o, p, <<t, p.v>>)
        BY <2>4 DEF Both
    <2>7. z = Both(o, p, <<t, p.v>>)
        BY <1>1, <2>4, <2>5, <2>6
    <2>8. Both2(r, b, c, o, p, t, m)
        BY <1>2, <1>6, <2>2, <2>3, Sequel
    <2>9. z = Result(r, b \o c, <<t, p.v>>) /\ (Whole(r, b \o c) => p.v = m)
        BY <2>7, <2>8 DEF Both2
    <2>10. z = Result(r, b \o c, <<t, m>>)
        BY <2>9 DEF Result
    <2> QED
        BY <2>10 DEF z
<1> HIDE DEF U, V
<1>7. Carries(U, V, <<t, v>>, <<t, m>>)
    BY <1>4, <1>5, <1>6 DEF Carries, Reads
<1> QED
    BY <1>7 DEF U, V, t

TagsSound(tag, arms) == \A i \in DOMAIN arms : Carries(tag, tag, arms[i][1], arms[i][1])
ArmsSound(arms) == \A i \in DOMAIN arms : Sound(arms[i][2])

LEMMA UnionSound ==
    ASSUME NEW tag, NEW arms, NEW other, Tags(arms), TagsSound(tag, arms), ArmsSound(arms)
    PROVE  Sound(Union(tag, arms, other))
<1> DEFINE U == Union(tag, arms, other)
<1>1. /\ U.values = Choices(arms)
      /\ \A v \in Choices(arms) : U.meant[v] = <<v[1], ArmOf(arms, v[1]).meant[v[2]]>>
    <2>1. UnionWrites(tag, arms, U)
        BY UnionIs
    <2> HIDE DEF U
    <2> QED
        BY <2>1 DEF UnionWrites
<1>2. ASSUME NEW v \in Choices(arms) PROVE Carries(U, U, v, U.meant[v])
    <2>1. PICK i \in DOMAIN arms : Choice(arms, v, i)
        BY ChoicesAre DEF Tags
    <2>2. PICK x \in arms[i][2].values : v = <<arms[i][1], x>>
        BY <2>1 DEF Choice
    <2>3. Carries(arms[i][2], arms[i][2], x, arms[i][2].meant[x])
        BY DEF ArmsSound, Sound
    <2>4. Carries(U, U, <<arms[i][1], x>>, <<arms[i][1], arms[i][2].meant[x]>>)
        BY <2>3, UnionCarries DEF TagsSound
    <2>5. v[1] = arms[i][1] /\ v[2] = x
        BY <2>2
    <2>6. U.meant[v] = <<arms[i][1], arms[i][2].meant[x]>>
        BY <1>1, <2>5, ArmIs
    <2> QED
        BY <2>2, <2>4, <2>6
<1> HIDE DEF U
<1>3. Sound(U)
    BY <1>1, <1>2 DEF Sound
<1> QED
    BY <1>3 DEF U

(* The arms of the writer have the tags of the reader's.                   *)
SameArms(A, B) ==
    /\ DOMAIN A = DOMAIN B
    /\ \A i \in DOMAIN A : A[i][1] = B[i][1] /\ Echo(A[i][2], B[i][2])
UnionKept(tag, T, W, arms, other, r, z) ==
    /\ z.at \in 0 .. Len(r.data) /\ Carries(tag, tag, z.v[1], z.v[1])
    /\ \/ Carries(T, W, z.v, z.v)
       \/ /\ other # <<>> /\ z.v[2] = other[1] /\ ~ Known(arms, z.v[1])
          /\ z.v = <<z.v[1], z.v[2]>>

(* What was read, of whatever buffer, has a known tag and can be written,  *)
(* or has an unknown one.                                                  *)
LEMMA UnionGood ==
    ASSUME NEW tag, NEW A, NEW B, NEW x, NEW y, Tags(A), Tags(B), SameArms(A, B), Echo(tag, tag),
           NEW r \in Reader, Good(Union(tag, A, x).read[r])
    PROVE  UnionKept(tag, Union(tag, A, x), Union(tag, B, y), A, x, r, Union(tag, A, x).read[r])
<1> DEFINE U == Union(tag, A, x)
           V == Union(tag, B, y)
           o == tag.read[r]
           q == ArmOf(A, o.v).read[At(r, o.at)]
           z == U.read[r]
<1>1. z = IF Good(o) /\ ~ Known(A, o.v)
          THEN IF x = <<>> THEN Failed ELSE Got(<<o.v, x[1]>>, o.at)
          ELSE Both(o, q, <<o.v, q.v>>)
    <2>1. UnionReads(tag, A, x, r, z)
        BY UnionIs
    <2> HIDE DEF z
    <2> QED
        BY <2>1 DEF UnionReads
<1> HIDE DEF z
<1>2. Good(z) /\ ~ Good(Failed)
    BY GotIs DEF z
<1>3. CASE Good(o) /\ ~ Known(A, o.v)
    <2>1. x # <<>> /\ z = Got(<<o.v, x[1]>>, o.at)
        BY <1>1, <1>2, <1>3
    <2>2. Kept(tag, tag, r, o)
        BY <1>3 DEF Echo
    <2> HIDE DEF o
    <2>3. z.v = <<o.v, x[1]>> /\ z.at = o.at
        BY <2>1 DEF Got
    <2>4. z.v[1] = o.v /\ z.v[2] = x[1]
        BY <2>3
    <2> QED
        BY <1>3, <2>1, <2>2, <2>3, <2>4 DEF Kept, UnionKept, z
<1>4. CASE ~ (Good(o) /\ ~ Known(A, o.v))
    <2>1. z = Both(o, q, <<o.v, q.v>>)
        BY <1>1, <1>4
    <2> HIDE DEF q
    <2>2. Good(o) /\ Good(q) /\ z = Got(<<o.v, q.v>>, q.at) /\ Known(A, o.v)
        BY <1>2, <1>4, <2>1 DEF Both
    <2>3. PICK i \in DOMAIN A : A[i][1] = o.v
        BY <2>2 DEF Known
    <2>4. ArmOf(A, o.v) = A[i][2]
        BY <2>3, ArmIs
    <2>5. Kept(tag, tag, r, o)
        BY <2>2 DEF Echo
    <2>6. Echo(A[i][2], B[i][2]) /\ A[i][1] = B[i][1] /\ i \in DOMAIN B
        BY DEF SameArms
    <2>7. q = A[i][2].read[At(r, o.at)]
        BY <2>4 DEF q
    <2>8. Kept(A[i][2], B[i][2], r, q)
        BY <2>2, <2>5, <2>6, <2>7, Onward DEF Kept
    <2>9. Carries(U, V, <<A[i][1], q.v>>, <<A[i][1], q.v>>)
        BY <2>3, <2>5, <2>6, <2>8, UnionCarries DEF Kept
    <2> HIDE DEF o, U, V
    <2>10. z.v = <<o.v, q.v>> /\ z.at = q.at
        BY <2>2 DEF Got
    <2>a. z.v[1] = o.v /\ Carries(tag, tag, o.v, o.v)
        BY <2>5, <2>10 DEF Kept
    <2>11. UnionKept(tag, U, V, A, x, r, z)
        BY <2>3, <2>8, <2>9, <2>10, <2>a DEF Kept, UnionKept
    <2> QED
        BY <2>11 DEF U, V, z
<1> QED
    BY <1>3, <1>4

LEMMA UnionEcho ==
    ASSUME NEW tag, NEW A, NEW B, NEW y, Tags(A), Tags(B), SameArms(A, B), Echo(tag, tag)
    PROVE  Echo(Union(tag, A, <<>>), Union(tag, B, y))
<1> DEFINE U == Union(tag, A, <<>>)
           V == Union(tag, B, y)
<1>1. ASSUME NEW r \in Reader, Good(U.read[r]) PROVE Kept(U, V, r, U.read[r])
    <2> DEFINE x == <<>>
    <2>1. UnionKept(tag, U, V, A, x, r, U.read[r])
        <3>1. U = Union(tag, A, x)
            OBVIOUS
        <3> HIDE DEF U, x
        <3> QED
            BY <1>1, <3>1, UnionGood
    <2> HIDE DEF U, V
    <2> QED
        BY <2>1 DEF UnionKept, Kept
<1> HIDE DEF U, V
<1>2. Echo(U, V)
    BY <1>1 DEF Echo
<1> QED
    BY <1>2 DEF U, V

-----------------------------------------------------------------------------
(* The models                                                              *)
LEMMA AndSound == ASSUME NEW S, NEW T, Sound(S), Sound(T) PROVE Sound(S & T)
BY FieldsSound DEF &

(* The same of what is handed back.                                        *)
LEMMA AndEcho ==
    ASSUME NEW S, NEW T, NEW V, NEW W, Echo(S, V), Echo(T, W)
    PROVE  Echo(S & T, V & W)
BY FieldsEcho DEF &

LEMMA StringsIs == Sound(Strings) /\ Echo(Strings, Strings)
BY StrSound, StrEcho, ListSound, ListEcho, OptSound, OptEcho DEF Strings

LEMMA PairsIs == Sound(Pairs) /\ Echo(Pairs, Pairs)
BY StrSound, StrEcho, AndSound, AndEcho, ListSound, ListEcho DEF Pairs

LEMMA FlagIsSound == Sound(Flag) /\ Echo(Flag, Always(Bool))
BY BoolSound, BoolEcho, BoolCarries, FilledSound, FilledEcho DEF Flag

(* Options of the simple types.                                            *)
LEMMA OptionsSound ==
    /\ Sound(Opt(Str)) /\ Sound(Opt(Float)) /\ Sound(Opt(I64)) /\ Sound(Opt(Bool))
    /\ Echo(Opt(Str), Opt(Str)) /\ Echo(Opt(Float), Opt(Float)) /\ Echo(Opt(I64), Opt(I64))
    /\ Echo(Opt(Bool), Opt(Bool))
BY StrSound, FloatSound, I64Is, BoolSound, StrEcho, FloatEcho, BoolEcho, OptSound, OptEcho

LEMMA ChapterSound == Sound(ChapterRead)
BY StrSound, OptionsSound, StringsIs, BoolSound, AndSound DEF ChapterRead

LEMMA ChapterEcho == Echo(ChapterRead, ChapterWrite)
BY StrEcho, OptionsSound, StringsIs, BoolEcho, AndEcho DEF ChapterRead, ChapterWrite

LEMMA EnumsAre ==
    /\ Sound(Enum(1)) /\ Sound(Enum(3)) /\ Sound(Enum(4))
    /\ Echo(Enum(1), U8) /\ Echo(Enum(3), U8) /\ Echo(Enum(4), U8)
<1>1. 1 \in Nat /\ 3 \in Nat /\ 4 \in Nat
    OBVIOUS
<1> QED
    BY <1>1, EnumSound, EnumEcho

LEMMA ChaptersIs ==
    /\ Sound(Opt(List(ChapterRead)))
    /\ Echo(Opt(List(ChapterRead)), Opt(List(ChapterWrite)))
BY ChapterSound, ChapterEcho, ListSound, ListEcho, OptSound, OptEcho

LEMMA MangaSound == Sound(MangaRead)
BY StrSound, OptionsSound, StringsIs, EnumsAre, ChaptersIs, AndSound DEF MangaRead

LEMMA MangaEcho == Echo(MangaRead, MangaWrite)
BY StrEcho, OptionsSound, StringsIs, EnumsAre, ChaptersIs, AndEcho DEF MangaRead, MangaWrite

LEMMA MangaPageSound == Sound(MangaPageRead)
BY MangaSound, ListSound, BoolSound, AndSound DEF MangaPageRead

LEMMA SortDefaultIs == Sound(SortDefaultRead) /\ Echo(SortDefaultRead, SortDefaultWrite)
BY I64Is, FlagIsSound, AndSound, BoolEcho, AndEcho DEF SortDefaultRead, SortDefaultWrite

LEMMA ListingIs == Sound(ListingRead) /\ Echo(ListingRead, ListingWrite)
BY StrSound, StrEcho, EnumsAre, AndSound, AndEcho DEF ListingRead, ListingWrite

LEMMA DeepLinkSound == Sound(DeepLinkRead)
BY OptionsSound, ListingIs, OptSound, AndSound DEF DeepLinkRead

LEMMA ResponseSound == Sound(ResponseWrite)
BY OptionsSound, PairsIs, U16Sound, I32Is, AndSound DEF ResponseWrite, RequestWrite

LEMMA CookieSound == Sound(CookieWrite)
BY OptionsSound, StrSound, BoolSound, AndSound DEF CookieWrite

LEMMA ListOfStr == Sound(List(Str)) /\ Echo(List(Str), List(Str))
BY StrSound, StrEcho, ListSound, ListEcho

(* A flag that is read with a default is a truth value, and so are the two *)
(* of a multi-select.                                                      *)
LEMMA FlagRead ==
    ASSUME NEW r \in Reader, Good(Flag.read[r])
    PROVE  Flag.read[r].v \in BOOLEAN
BY FlagIsSound DEF Echo, Kept, Carries, Always, Bool, OneByte

(* A select has one flag, and another that is like it if absent.           *)
LEMMA SelectIs == Sound(SelectRead) /\ Echo(SelectRead, SelectWrite)
<1>1. Sound(AndFlagLike(Flag, 1))
    <2>1. Sound(Fields(Flag, Opt(Bool)))
        BY FlagIsSound, OptionsSound, FieldsSound
    <2> QED
        BY <2>1, FlagIsSound, FlagLikeSound
<1>2. Echo(AndFlagLike(Flag, 1), Always(Bool) & Always(Bool))
    <2> DEFINE n == 1
    <2>1. ASSUME NEW r \in Reader, Good(Flag.read[r])
          PROVE  Like(n, Flag.read[r].v, <<>>) \in BOOLEAN
        BY <2>1, FlagRead DEF Like
    <2> HIDE DEF n
    <2>2. Echo(AndFlagLike(Flag, n), Fields(Always(Bool), Always(Bool)))
        BY <2>1, FlagIsSound, FlagLikeEcho
    <2> QED
        BY <2>2 DEF n, &
<1> QED
    BY <1>1, <1>2, ListOfStr, StringsIs, OptionsSound, AndSound, AndEcho DEF SelectRead, SelectWrite

(* A multi-select has two, and a third that is like the first.             *)
LEMMA MultiSelectIs == Sound(MultiSelectRead) /\ Echo(MultiSelectRead, MultiSelectWrite)
<1> DEFINE S == Fields(Flag, Flag)
           V == Fields(Always(Bool), Always(Bool))
<1>1. Sound(S) /\ Echo(S, V)
    BY FlagIsSound, FieldsSound, FieldsEcho
<1>2. ASSUME NEW r \in Reader, Good(S.read[r]) PROVE S.read[r].v[1] \in BOOLEAN
    <2>1. FieldsRead(Flag, Flag, r, Flag.read[r], Flag.read[At(r, Flag.read[r].at)], S.read[r])
        BY <1>2, FieldsGood
    <2> HIDE DEF S
    <2>2. Good(Flag.read[r]) /\ S.read[r].v[1] = Flag.read[r].v
        BY <2>1 DEF FieldsRead
    <2> QED
        BY <2>2, FlagRead
<1> DEFINE n == 2
<1>3. ASSUME NEW r \in Reader, Good(S.read[r]) PROVE Like(n, S.read[r].v, <<>>) \in BOOLEAN
    <2> HIDE DEF S
    <2> QED
        BY <1>2, <1>3 DEF Like
<1>4. Sound(AndFlagLike(S, n))
    <2> HIDE DEF S, n
    <2>1. Sound(Fields(S, Opt(Bool)))
        BY <1>1, OptionsSound, FieldsSound
    <2> QED
        BY <1>1, <2>1, FlagLikeSound
<1>5. Echo(AndFlagLike(S, n), Fields(V, Always(Bool)))
    <2> HIDE DEF S, V, n
    <2> QED
        BY <1>1, <1>3, FlagLikeEcho
<1>6. /\ Sound(AndFlagLike(Flag & Flag, 2))
      /\ Echo(AndFlagLike(Flag & Flag, 2), Always(Bool) & Always(Bool) & Always(Bool))
    BY <1>4, <1>5 DEF &
<1> QED
    BY <1>6, ListOfStr, StringsIs, AndSound, AndEcho DEF MultiSelectRead, MultiSelectWrite

(* Payloads with tags                                                      *)
LEMMA TagsAre ==
    /\ 0 .. 5 \subseteq Byte
    /\ FilterTags \subseteq Texts
<1>1. \A k \in 1 .. 7 : k \in Byte /\ k \in Byte \ NotUtf8
    BY TagAssumption
<1>2. 0 \in Byte
    BY WidthsHold DEF Widths, Byte
<1>3. 0 .. 5 \subseteq Byte
    <2>1. \A k \in 0 .. 5 : k = 0 \/ k \in 1 .. 7
        OBVIOUS
    <2> QED
        BY <1>1, <1>2, <2>1
<1>4. ASSUME NEW k \in 1 .. 7 PROVE <<k>> \in Texts
    <2>1. <<k>> \in Seq(Byte \ NotUtf8) /\ Len(<<k>>) = 1
        BY <1>1
    <2>2. 1 < Word \div 2
        BY WordIs
    <2> QED
        BY <2>1, <2>2 DEF Texts, Short
<1>5. FilterTags \subseteq {<<k>> : k \in 1 .. 7}
    BY DEF FilterTags, TextTag, SortTag, CheckTag, SelectTag, MultiSelectTag, NoteTag, RangeTag
<1> QED
    BY <1>3, <1>4, <1>5

(* Arms by their place.                                                    *)
LEMMA FourArms ==
    ASSUME NEW a, NEW b, NEW c, NEW d, a # b, a # c, a # d, b # c, b # d, c # d,
           NEW A, NEW B, NEW C, NEW D
    PROVE  LET arms == << <<a, A>>, <<b, B>>, <<c, C>>, <<d, D>> >> IN
              /\ Tags(arms)
              /\ DOMAIN arms = 1 .. 4
              /\ arms[1] = <<a, A>> /\ arms[2] = <<b, B>> /\ arms[3] = <<c, C>> /\ arms[4] = <<d, D>>
BY DEF Tags

LEMMA SixArms ==
    ASSUME NEW A, NEW B, NEW C, NEW D, NEW E, NEW F
    PROVE  LET arms == << <<0, A>>, <<1, B>>, <<2, C>>, <<3, D>>, <<4, E>>, <<5, F>> >> IN
              /\ Tags(arms)
              /\ DOMAIN arms = 1 .. 6
              /\ arms[1] = <<0, A>> /\ arms[2] = <<1, B>> /\ arms[3] = <<2, C>> /\ arms[4] = <<3, D>>
              /\ arms[5] = <<4, E>> /\ arms[6] = <<5, F>>
BY DEF Tags

LEMMA SevenArms ==
    ASSUME NEW A, NEW B, NEW C, NEW D, NEW E, NEW F, NEW G
    PROVE  LET arms == << <<TextTag, A>>, <<SortTag, B>>, <<CheckTag, C>>, <<SelectTag, D>>,
                          <<MultiSelectTag, E>>, <<NoteTag, F>>, <<RangeTag, G>> >> IN
              /\ Tags(arms)
              /\ DOMAIN arms = 1 .. 7
              /\ arms[1] = <<TextTag, A>> /\ arms[2] = <<SortTag, B>> /\ arms[3] = <<CheckTag, C>>
              /\ arms[4] = <<SelectTag, D>> /\ arms[5] = <<MultiSelectTag, E>>
              /\ arms[6] = <<NoteTag, F>> /\ arms[7] = <<RangeTag, G>>
BY DEF Tags, TextTag, SortTag, CheckTag, SelectTag, MultiSelectTag, NoteTag, RangeTag

LEMMA PageContentSound == Sound(PageContentRead)
<1> DEFINE A == << <<0, Str & Flagged(Pairs)>>, <<1, Str>>, <<2, I32>>, <<3, Str & Str>> >>
           F == Str & Flagged(Pairs)
           H == Str & Str
<1>1. Sound(F) /\ Sound(H)
    BY StrSound, PairsIs, OptSound, AndSound
<1>2. A = << <<0, F>>, <<1, Str>>, <<2, I32>>, <<3, H>> >>
    OBVIOUS
<1> HIDE DEF A, F, H
<1>3. /\ Tags(A) /\ DOMAIN A = 1 .. 4
      /\ A[1] = <<0, F>> /\ A[2] = <<1, Str>> /\ A[3] = <<2, I32>> /\ A[4] = <<3, H>>
    BY <1>2, FourArms
<1>4. ASSUME NEW i \in 1 .. 4
      PROVE  A[i][1] \in Byte /\ Sound(A[i][2])
    <2>1. i = 1 \/ i = 2 \/ i = 3 \/ i = 4
        OBVIOUS
    <2> QED
        BY <1>1, <1>3, <2>1, TagsAre, StrSound, I32Is
<1>5. TagsSound(U8, A)
    BY <1>3, <1>4, U8Carries DEF TagsSound
<1>6. ArmsSound(A)
    BY <1>3, <1>4 DEF ArmsSound
<1>7. Sound(Union(U8, A, <<>>))
    BY <1>3, <1>5, <1>6, UnionSound
<1> QED
    BY <1>7 DEF PageContentRead, A

LEMMA PageSound == Sound(PageRead)
BY PageContentSound, OptionsSound, BoolSound, AndSound DEF PageRead

LEMMA FilterValueSound == Sound(FilterValueWrite)
<1> DEFINE F1 == Str & Str
           F2 == Str & I32 & Bool
           F3 == Str & I64
           F4 == Str & List(Str) & List(Str)
           F5 == Str & Opt(Float) & Opt(Float)
           A == << <<0, F1>>, <<1, F2>>, <<2, F3>>, <<3, F1>>, <<4, F4>>, <<5, F5>> >>
<1>1. Sound(F1) /\ Sound(F2) /\ Sound(F3) /\ Sound(F4) /\ Sound(F5)
    BY StrSound, I32Is, I64Is, BoolSound, ListOfStr, OptionsSound, AndSound
<1>2. FilterValueWrite = Union(U8, A, <<>>)
    BY DEF FilterValueWrite
<1> HIDE DEF F1, F2, F3, F4, F5
<1>3. /\ Tags(A) /\ DOMAIN A = 1 .. 6
      /\ A[1] = <<0, F1>> /\ A[2] = <<1, F2>> /\ A[3] = <<2, F3>> /\ A[4] = <<3, F1>>
      /\ A[5] = <<4, F4>> /\ A[6] = <<5, F5>>
    BY SixArms
<1> HIDE DEF A
<1>4. ASSUME NEW i \in 1 .. 6 PROVE A[i][1] \in Byte /\ Sound(A[i][2])
    <2>1. i = 1 \/ i = 2 \/ i = 3 \/ i = 4 \/ i = 5 \/ i = 6
        OBVIOUS
    <2>2. 0 \in Byte /\ 1 \in Byte /\ 2 \in Byte /\ 3 \in Byte /\ 4 \in Byte /\ 5 \in Byte
        BY TagsAre
    <2> QED
        BY <1>1, <1>3, <2>1, <2>2
<1>5. TagsSound(U8, A) /\ ArmsSound(A)
    BY <1>3, <1>4, U8Carries DEF TagsSound, ArmsSound
<1> QED
    BY <1>2, <1>3, <1>5, UnionSound

(* The arms of a filter, as they are read and as they are written.         *)
ReadArms == << <<TextTag, Opt(Str)>>,
               <<SortTag, Filled(Bool, TRUE) & List(Str) & Opt(SortDefaultRead)>>,
               <<CheckTag, Opt(Str) & Flag & Opt(Bool)>>,
               <<SelectTag, SelectRead>>,
               <<MultiSelectTag, MultiSelectRead>>,
               <<NoteTag, Str>>,
               <<RangeTag, Opt(Float) & Opt(Float) & Flag>> >>
WriteArms == << <<TextTag, Opt(Str)>>,
                <<SortTag, Always(Bool) & List(Str) & Opt(SortDefaultWrite)>>,
                <<CheckTag, Opt(Str) & Always(Bool) & Opt(Bool)>>,
                <<SelectTag, SelectWrite>>,
                <<MultiSelectTag, MultiSelectWrite>>,
                <<NoteTag, Str>>,
                <<RangeTag, Opt(Float) & Opt(Float) & Always(Bool)>> >>

LEMMA ArmsAre ==
    /\ FilterConfigRead = Union(Str, ReadArms, << <<>> >>)
    /\ FilterConfigWrite = Union(Str, WriteArms, <<>>)
BY DEF FilterConfigRead, FilterConfigWrite, ReadArms, WriteArms

(* They have the same tags, those of FilterTags, and what is read can be   *)
(* written.                                                                *)
LEMMA ArmsOfFilters ==
    /\ Tags(ReadArms) /\ Tags(WriteArms)
    /\ TagsSound(Str, ReadArms) /\ ArmsSound(ReadArms)
    /\ SameArms(ReadArms, WriteArms)
    /\ \A t : Known(ReadArms, t) <=> t \in FilterTags
<1> DEFINE R2 == Filled(Bool, TRUE) & List(Str) & Opt(SortDefaultRead)
           W2 == Always(Bool) & List(Str) & Opt(SortDefaultWrite)
           R3 == Opt(Str) & Flag & Opt(Bool)
           W3 == Opt(Str) & Always(Bool) & Opt(Bool)
           R7 == Opt(Float) & Opt(Float) & Flag
           W7 == Opt(Float) & Opt(Float) & Always(Bool)
           A == << <<TextTag, Opt(Str)>>, <<SortTag, R2>>, <<CheckTag, R3>>, <<SelectTag, SelectRead>>,
                   <<MultiSelectTag, MultiSelectRead>>, <<NoteTag, Str>>, <<RangeTag, R7>> >>
           B == << <<TextTag, Opt(Str)>>, <<SortTag, W2>>, <<CheckTag, W3>>, <<SelectTag, SelectWrite>>,
                   <<MultiSelectTag, MultiSelectWrite>>, <<NoteTag, Str>>, <<RangeTag, W7>> >>
<1>1. ReadArms = A /\ WriteArms = B
    BY DEF ReadArms, WriteArms
<1>2. /\ Sound(R2) /\ Sound(R3) /\ Sound(R7)
      /\ Echo(R2, W2) /\ Echo(R3, W3) /\ Echo(R7, W7)
    <2>1. Sound(Filled(Bool, TRUE)) /\ Echo(Filled(Bool, TRUE), Always(Bool))
        BY BoolSound, BoolEcho, BoolCarries, FilledSound, FilledEcho
    <2>2. Sound(Opt(SortDefaultRead)) /\ Echo(Opt(SortDefaultRead), Opt(SortDefaultWrite))
        BY SortDefaultIs, OptSound, OptEcho
    <2> QED
        BY <2>1, <2>2, ListOfStr, OptionsSound, FlagIsSound, AndSound, AndEcho
<1> HIDE DEF R2, W2, R3, W3, R7, W7
<1>3. /\ Tags(A) /\ DOMAIN A = 1 .. 7
      /\ A[1] = <<TextTag, Opt(Str)>> /\ A[2] = <<SortTag, R2>> /\ A[3] = <<CheckTag, R3>>
      /\ A[4] = <<SelectTag, SelectRead>> /\ A[5] = <<MultiSelectTag, MultiSelectRead>>
      /\ A[6] = <<NoteTag, Str>> /\ A[7] = <<RangeTag, R7>>
    BY SevenArms
<1>4. /\ Tags(B) /\ DOMAIN B = 1 .. 7
      /\ B[1] = <<TextTag, Opt(Str)>> /\ B[2] = <<SortTag, W2>> /\ B[3] = <<CheckTag, W3>>
      /\ B[4] = <<SelectTag, SelectWrite>> /\ B[5] = <<MultiSelectTag, MultiSelectWrite>>
      /\ B[6] = <<NoteTag, Str>> /\ B[7] = <<RangeTag, W7>>
    BY SevenArms
<1> HIDE DEF A, B
<1>5. \A i \in 1 .. 7 : i = 1 \/ i = 2 \/ i = 3 \/ i = 4 \/ i = 5 \/ i = 6 \/ i = 7
    OBVIOUS
<1>6. ASSUME NEW i \in 1 .. 7
      PROVE  A[i][1] \in FilterTags /\ A[i][1] = B[i][1]
    BY <1>3, <1>4, <1>5 DEF FilterTags
<1>7. ASSUME NEW i \in 1 .. 7
      PROVE  Sound(A[i][2]) /\ Echo(A[i][2], B[i][2])
    BY <1>2, <1>3, <1>4, <1>5, OptionsSound, SelectIs, MultiSelectIs, StrSound, StrEcho
<1>8. TagsSound(Str, A)
    BY <1>3, <1>6, TagsAre, StrCarries DEF TagsSound
<1>9. ArmsSound(A) /\ SameArms(A, B)
    BY <1>3, <1>4, <1>6, <1>7 DEF ArmsSound, SameArms
<1>10. ASSUME NEW t PROVE Known(A, t) <=> t \in FilterTags
    <2>1. ASSUME t \in FilterTags PROVE \E i \in 1 .. 7 : A[i][1] = t
        <3>1. {1, 2, 3, 4, 5, 6, 7} \subseteq 1 .. 7
            OBVIOUS
        <3> QED
            BY <1>3, <2>1, <3>1 DEF FilterTags
    <2> QED
        BY <1>3, <1>6, <2>1 DEF Known
<1> QED
    BY <1>1, <1>3, <1>4, <1>8, <1>9, <1>10

LEMMA FilterConfigSound == Sound(FilterConfigRead)
<1> DEFINE x == << <<>> >>
<1> HIDE DEF x
<1>1. Sound(Union(Str, ReadArms, x))
    BY ArmsOfFilters, UnionSound
<1> QED
    BY <1>1, ArmsAre DEF x

(* A filter is read field by field and then turned into what it stands for. *)
LEMMA FilterReadIs ==
    /\ FilterRead.values = FilterFields.values /\ FilterRead.wire = FilterFields.wire
    /\ \A f \in FilterFields.values : FilterRead.meant[f] = FilterOf(FilterFields.meant[f])
    /\ \A r \in Reader :
           Turned(FilterRead.read[r], FilterFields.read[r], FilterOf(FilterFields.read[r].v))
<1>1. \E S, T : FilterFields = Fields(S, T)
    BY DEF FilterFields, &
<1>2. \E a, b, c, d, e : FilterFields = [values |-> a, wire |-> b, meant |-> c, read |-> d, sample |-> e]
    BY <1>1 DEF Fields
<1> QED
    BY <1>2 DEF FilterRead, Resolved, Turned

(* What the fields mean, turned.                                           *)
LEMMA FilterReads ==
    ASSUME NEW b, NEW x, Reads(FilterFields, b, x)
    PROVE  Reads(FilterRead, b, FilterOf(x))
<1> SUFFICES ASSUME NEW r, Fits(r, b) PROVE FilterRead.read[r] = Result(r, b, FilterOf(x))
    BY DEF Reads
<1> DEFINE o == FilterFields.read[r]
           y == FilterOf(x)
           w == FilterOf(o.v)
           z == FilterRead.read[r]
<1>1. Turned(z, o, w)
    BY FilterReadIs DEF Fits
<1>2. o = Result(r, b, x)
    BY DEF Reads
<1>3. Whole(r, b) => w = y
    <2>1. Whole(r, b) => o.v = x
        <3> HIDE DEF o
        <3> QED
            BY <1>2, Results
    <2> HIDE DEF o
    <2> QED
        BY <2>1
<1> HIDE DEF o, w, y, z
<1>4. z = Result(r, b, y)
    BY <1>1, <1>2, <1>3, TurnedReads
<1> QED
    BY <1>4 DEF z, y

LEMMA FilterSound == Sound(FilterRead)
<1>1. Sound(FilterFields)
    BY OptionsSound, FilterConfigSound, AndSound DEF FilterFields
<1>2. ASSUME NEW v \in FilterFields.values
      PROVE  Carries(FilterRead, FilterRead, v, FilterRead.meant[v])
    BY <1>1, FilterReadIs, FilterReads DEF Sound, Carries
<1> QED
    BY <1>2, FilterReadIs DEF Sound

(* What the fields of a filter read as.                                    *)
FilterParts(f, id, title, hide, tag, payload) ==
    f = <<<<<<id, title>>, hide>>, <<tag, payload>>>>
NameOf(id, title, tag) == IF id # <<>> THEN id[1] ELSE IF title # <<>> THEN title[1] ELSE tag
PayloadOf(tag, payload) == IF tag \in FilterTags THEN <<tag, payload>> ELSE <<TextTag, <<>>>>

(* What a filter becomes, by its fields.                                   *)
LEMMA FilterOfParts ==
    ASSUME NEW f, NEW id, NEW title, NEW hide, NEW tag, NEW payload,
           FilterParts(f, id, title, hide, tag, payload)
    PROVE  FilterOf(f) = <<<<<<NameOf(id, title, tag), title>>, hide>>, PayloadOf(tag, payload)>>
<1>1. /\ f[1][1][1] = id /\ f[1][1][2] = title /\ f[1][2] = hide
      /\ f[2] = <<tag, payload>> /\ f[2][1] = tag
    BY DEF FilterParts
<1> QED
    BY <1>1 DEF FilterOf, NameOf, PayloadOf

(* It stands for itself once it has an id and a known type.                *)
LEMMA FilterOfFilter ==
    ASSUME NEW i, NEW title, NEW hide, NEW tag, NEW payload
    PROVE  LET p == PayloadOf(tag, payload)
           IN FilterOf(<<<<<< <<i>>, title>>, hide>>, p>>) = <<<<<<i, title>>, hide>>, p>>
<1> DEFINE p == PayloadOf(tag, payload)
           f == <<<<<< <<i>>, title>>, hide>>, p>>
<1>1. PICK t, x : t \in FilterTags /\ p = <<t, x>>
    <2>1. TextTag \in FilterTags
        BY DEF FilterTags
    <2> QED
        BY <2>1 DEF PayloadOf
<1> HIDE DEF p
<1>2. FilterParts(f, <<i>>, title, hide, t, x)
    BY <1>1 DEF FilterParts
<1> DEFINE one == <<i>>
<1>3. one # <<>> /\ one[1] = i
    OBVIOUS
<1> HIDE DEF one
<1>4. NameOf(one, title, t) = i /\ PayloadOf(t, x) = p
    BY <1>1, <1>3 DEF NameOf, PayloadOf
<1>5. FilterParts(f, one, title, hide, t, x)
    BY <1>2 DEF one
<1> HIDE DEF f
<1>6. FilterOf(f) = <<<<<<i, title>>, hide>>, p>>
    BY <1>4, <1>5, FilterOfParts
<1> QED
    BY <1>6 DEF f, p

(* Whatever a filter reads as can be written, and reads as the same.       *)
LEMMA FilterWrites ==
    ASSUME NEW i \in Texts, NEW title, Carries(Opt(Str), Opt(Str), title, title),
           NEW hide, Carries(Opt(Bool), Opt(Bool), hide, hide),
           NEW tag, NEW payload,
           LET p == PayloadOf(tag, payload) IN Carries(FilterConfigRead, FilterConfigWrite, p, p)
    PROVE  LET w == <<<<<<i, title>>, hide>>, PayloadOf(tag, payload)>>
           IN  Carries(FilterRead, FilterWrite, w, w)
<1> DEFINE p == PayloadOf(tag, payload)
           one == <<i>>
           w == <<<<<<i, title>>, hide>>, p>>
           m == <<<<<<one, title>>, hide>>, p>>
<1>1. Carries(Opt(Str), Always(Str), i, one)
    BY StrCarries, AlwaysCarries
<1>2. FilterOf(m) = w
    BY FilterOfFilter
<1> HIDE DEF p, one
<1>3. Carries(FilterConfigRead, FilterConfigWrite, p, p)
    BY DEF p
<1>4. Carries(Fields(Opt(Str), Opt(Str)), Fields(Always(Str), Opt(Str)), <<i, title>>, <<one, title>>)
    BY <1>1, FieldsCarry
<1>5. Carries(Fields(Fields(Opt(Str), Opt(Str)), Opt(Bool)),
              Fields(Fields(Always(Str), Opt(Str)), Opt(Bool)),
              <<<<i, title>>, hide>>, <<<<one, title>>, hide>>)
    BY <1>4, FieldsCarry
<1> DEFINE R == Fields(Fields(Fields(Opt(Str), Opt(Str)), Opt(Bool)), FilterConfigRead)
           W == Fields(Fields(Fields(Always(Str), Opt(Str)), Opt(Bool)), FilterConfigWrite)
<1>6. Carries(R, W, w, m)
    BY <1>3, <1>5, FieldsCarry
<1>7. R = FilterFields /\ W = FilterWrite
    BY DEF FilterFields, FilterWrite, &
<1> HIDE DEF R, W, w, m
<1>8. Reads(FilterFields, FilterWrite.wire[w], m) /\ w \in FilterWrite.values
      /\ FilterWrite.wire[w] \in Seq(Byte)
    BY <1>6, <1>7 DEF Carries
<1>9. Reads(FilterRead, FilterWrite.wire[w], w)
    BY <1>2, <1>8, FilterReads
<1> QED
    BY <1>8, <1>9 DEF Carries, w, p

(* The payload a filter ends up with: its own, or that of a text without a *)
(* placeholder.                                                            *)
LEMMA PayloadKept ==
    ASSUME NEW r, NEW c, UnionKept(Str, FilterConfigRead, FilterConfigWrite, ReadArms, << <<>> >>, r, c)
    PROVE  LET p == PayloadOf(c.v[1], c.v[2])
           IN  Carries(FilterConfigRead, FilterConfigWrite, p, p) /\ c.v = <<c.v[1], c.v[2]>>
<1> DEFINE nothing == <<>>
           x == << <<>> >>
           U == FilterConfigRead
           V == FilterConfigWrite
           plain == <<TextTag, nothing>>
<1>1. Carries(U, V, plain, plain)
    <2>1. Tags(ReadArms) /\ Tags(WriteArms) /\ 1 \in DOMAIN ReadArms /\ 1 \in DOMAIN WriteArms
          /\ ReadArms[1] = <<TextTag, Opt(Str)>> /\ WriteArms[1] = <<TextTag, Opt(Str)>>
        <3>1. /\ ReadArms[1] = <<TextTag, Opt(Str)>> /\ 1 \in DOMAIN ReadArms
              /\ WriteArms[1] = <<TextTag, Opt(Str)>> /\ 1 \in DOMAIN WriteArms
            BY SevenArms DEF ReadArms, WriteArms
        <3> QED
            BY <3>1, ArmsOfFilters
    <2>2. Carries(Opt(Str), Opt(Str), nothing, nothing)
        BY OptWriter, OptCarries
    <2>3. Carries(Str, Str, TextTag, TextTag)
        BY TagsAre, StrCarries DEF FilterTags
    <2> DEFINE none == <<>>
    <2> HIDE DEF nothing, x, none
    <2>4. Carries(Union(Str, ReadArms, x), Union(Str, WriteArms, none), plain, plain)
        <3>1. ReadArms[1][1] = TextTag /\ ReadArms[1][2] = Opt(Str) /\ WriteArms[1][1] = TextTag
              /\ WriteArms[1][2] = Opt(Str)
            BY <2>1
        <3> QED
            BY <2>1, <2>2, <2>3, <3>1, UnionCarries
    <2> QED
        BY <2>4, ArmsAre DEF x, none
<1> HIDE DEF U, V
<1>2. c.v = <<c.v[1], c.v[2]>>
    <2>1. CASE Carries(U, V, c.v, c.v)
        <3>1. c.v \in Choices(WriteArms)
            <4> DEFINE none == <<>>
                       Z == Union(Str, WriteArms, none)
            <4>1. UnionWrites(Str, WriteArms, Z) /\ Z = V
                BY UnionIs, ArmsAre DEF V
            <4> HIDE DEF Z
            <4> QED
                BY <2>1, <4>1 DEF UnionWrites, Carries
        <3>2. PICK k \in 1 .. Len(WriteArms) : Choice(WriteArms, c.v, k)
            BY <3>1, ArmsOfFilters, ChoicesAre DEF Tags
        <3> QED
            BY <3>2 DEF Choice
    <2> QED
        BY <2>1 DEF UnionKept, U, V
<1>3. CASE c.v[1] \notin FilterTags
    <2>1. PayloadOf(c.v[1], c.v[2]) = plain
        BY <1>3 DEF PayloadOf
    <2> HIDE DEF plain
    <2> QED
        BY <1>1, <1>2, <2>1 DEF U, V
<1>4. CASE c.v[1] \in FilterTags
    <2>1. Known(ReadArms, c.v[1])
        BY <1>4, ArmsOfFilters
    <2>2. Carries(U, V, c.v, c.v)
        BY <2>1 DEF UnionKept, U, V
    <2>3. PayloadOf(c.v[1], c.v[2]) = c.v
        BY <1>2, <1>4 DEF PayloadOf
    <2> QED
        BY <1>2, <2>2, <2>3 DEF U, V
<1> QED
    BY <1>3, <1>4

LEMMA FilterConfigKept ==
    ASSUME NEW r \in Reader, Good(FilterConfigRead.read[r])
    PROVE  UnionKept(Str, FilterConfigRead, FilterConfigWrite, ReadArms, << <<>> >>, r,
                     FilterConfigRead.read[r])
<1> DEFINE x == << <<>> >>
           none == <<>>
<1> HIDE DEF x, none
<1>1. FilterConfigRead = Union(Str, ReadArms, x) /\ FilterConfigWrite = Union(Str, WriteArms, none)
    BY ArmsAre DEF x, none
<1>2. Good(Union(Str, ReadArms, x).read[r])
    BY <1>1
<1>3. UnionKept(Str, Union(Str, ReadArms, x), Union(Str, WriteArms, none), ReadArms, x, r,
                Union(Str, ReadArms, x).read[r])
    BY <1>2, ArmsOfFilters, StrEcho, UnionGood
<1> QED
    BY <1>1, <1>3 DEF x

LEMMA NameIsText ==
    ASSUME NEW id, Carries(Opt(Str), Opt(Str), id, id), NEW title,
           Carries(Opt(Str), Opt(Str), title, title), NEW tag \in Texts
    PROVE  NameOf(id, title, tag) \in Texts
<1>1. id \in Options(Texts) /\ title \in Options(Texts)
    BY DEF Carries, Opt, Str
<1>2. \A o \in Options(Texts) : o # <<>> => o[1] \in Texts
    BY OptionsAre
<1> QED
    BY <1>1, <1>2 DEF NameOf

(* A filter can be handed back: it has an id, and its type is known.       *)
LEMMA FilterEcho == Echo(FilterRead, FilterWrite)
<1> SUFFICES ASSUME NEW r \in Reader, Good(FilterRead.read[r])
             PROVE  Kept(FilterRead, FilterWrite, r, FilterRead.read[r])
    BY DEF Echo
<1> DEFINE S == Opt(Str)
           T2 == Fields(S, S)
           T3 == Fields(T2, Opt(Bool))
           T == Fields(T3, FilterConfigRead)
           z == FilterRead.read[r]
           o == T.read[r]
           b == T3.read[r]
           a == T2.read[r]
           id == S.read[r]
           title == S.read[At(r, id.at)]
           hide == Opt(Bool).read[At(r, a.at)]
           c == FilterConfigRead.read[At(r, b.at)]
           y == FilterOf(o.v)
<1>1. Turned(z, o, y)
    <2>1. T = FilterFields
        BY DEF FilterFields, &
    <2> HIDE DEF T
    <2> QED
        BY <2>1, FilterReadIs
<1>2. Good(o) /\ z.v = y /\ z.at = o.at
    <2>1. Good(z)
        OBVIOUS
    <2> HIDE DEF z, o, y
    <2> QED
        BY <1>1, <2>1, TurnedGood
<1>3. FieldsRead(T3, FilterConfigRead, r, b, c, o)
    <2> HIDE DEF T3
    <2> QED
        BY <1>2, FieldsGood
<1>4. FieldsRead(T2, Opt(Bool), r, a, hide, b)
    <2>1. Good(b)
        BY <1>3 DEF FieldsRead
    <2> HIDE DEF T2
    <2> QED
        BY <2>1, FieldsGood
<1>5. FieldsRead(S, S, r, id, title, a)
    <2>1. Good(a)
        BY <1>4 DEF FieldsRead
    <2> HIDE DEF S
    <2> QED
        BY <2>1, FieldsGood
<1>6. Kept(S, S, r, id)
    BY <1>5, OptionsSound DEF FieldsRead, Echo
<1>7. Kept(S, S, r, title)
    BY <1>5, <1>6, OptionsSound, Onward DEF FieldsRead, Kept
<1>8. Kept(Opt(Bool), Opt(Bool), r, hide)
    <2>1. Good(hide) /\ a.at = title.at
        BY <1>4, <1>5 DEF FieldsRead
    <2> QED
        BY <1>7, <2>1, OptionsSound, Onward DEF Kept
<1>9. UnionKept(Str, FilterConfigRead, FilterConfigWrite, ReadArms, << <<>> >>, r, c)
    <2>1. Good(c) /\ b.at = hide.at
        BY <1>3, <1>4 DEF FieldsRead
    <2> DEFINE q == At(r, b.at)
    <2>2. b.at \in 0 .. Len(r.data)
        BY <1>8, <2>1 DEF Kept
    <2>3. q \in Reader /\ q.data = r.data
        BY <2>2, AtIs, ReaderIs DEF ReaderFacts
    <2> HIDE DEF q, b
    <2>4. c = FilterConfigRead.read[q]
        BY DEF q
    <2> HIDE DEF c
    <2>5. UnionKept(Str, FilterConfigRead, FilterConfigWrite, ReadArms, << <<>> >>, q, c)
        BY <2>1, <2>3, <2>4, FilterConfigKept
    <2> QED
        BY <2>3, <2>5 DEF UnionKept
<1> HIDE DEF S, T, T2, T3, z, o, b, a, id, title, hide, c, y
<1>10. LET p == PayloadOf(c.v[1], c.v[2])
       IN  Carries(FilterConfigRead, FilterConfigWrite, p, p) /\ c.v = <<c.v[1], c.v[2]>>
    BY <1>9, PayloadKept
<1> DEFINE i == NameOf(id.v, title.v, c.v[1])
           p == PayloadOf(c.v[1], c.v[2])
           w == <<<<<<i, title.v>>, hide.v>>, p>>
<1>11. i \in Texts
    <2>1. c.v[1] \in Texts
        BY <1>9 DEF UnionKept, Carries, Str
    <2>2. Carries(S, S, id.v, id.v) /\ Carries(S, S, title.v, title.v)
        BY <1>6, <1>7 DEF Kept
    <2> QED
        BY <2>1, <2>2, NameIsText DEF S
<1>12. y = w
    <2>1. FilterParts(o.v, id.v, title.v, hide.v, c.v[1], c.v[2])
        BY <1>3, <1>4, <1>5, <1>10 DEF FieldsRead, FilterParts
    <2> QED
        BY <2>1, FilterOfParts DEF y
<1>13. Carries(FilterRead, FilterWrite, w, w)
    <2>1. Carries(S, S, title.v, title.v) /\ Carries(Opt(Bool), Opt(Bool), hide.v, hide.v)
        BY <1>7, <1>8 DEF Kept
    <2> HIDE DEF i
    <2> QED
        BY <1>10, <1>11, <2>1, FilterWrites DEF S
<1> HIDE DEF w
<1>14. z.at \in 0 .. Len(r.data)
    BY <1>2, <1>3, <1>9 DEF FieldsRead, UnionKept
<1>15. Kept(FilterRead, FilterWrite, r, z)
    BY <1>2, <1>12, <1>13, <1>14 DEF Kept
<1> QED
    BY <1>15 DEF z

(* Every model is read as it means what is written.                        *)
LEMMA AllSound == ASSUME NEW n \in Names PROVE Sound(Models[n])
<1>1. n \in {"manga", "manga_page", "chapter", "page", "content", "filter", "listing", "deep_link",
             "filter_value", "response", "cookie"}
    BY DEF Names, Models
<1>2. /\ Models["manga"] = MangaRead /\ Models["manga_page"] = MangaPageRead
      /\ Models["chapter"] = ChapterRead /\ Models["page"] = PageRead
      /\ Models["content"] = PageContentRead /\ Models["filter"] = FilterRead
      /\ Models["listing"] = ListingRead /\ Models["deep_link"] = DeepLinkRead
      /\ Models["filter_value"] = FilterValueWrite /\ Models["response"] = ResponseWrite
      /\ Models["cookie"] = CookieWrite
    BY DEF Models
<1> QED
    BY <1>1, <1>2, MangaSound, MangaPageSound, ChapterSound, PageSound, PageContentSound, FilterSound,
       ListingIs, DeepLinkSound, FilterValueSound, ResponseSound, CookieSound

(* Every model that is handed back can be.                                 *)
LEMMA AllEcho == ASSUME NEW n \in DOMAIN Writable PROVE n \in Names /\ Echo(Models[n], Writable[n])
<1>1. n \in {"manga", "chapter", "filter", "listing"}
    BY DEF Writable
<1>2. /\ Models["manga"] = MangaRead /\ Models["chapter"] = ChapterRead
      /\ Models["filter"] = FilterRead /\ Models["listing"] = ListingRead
      /\ {"manga", "chapter", "filter", "listing"} \subseteq Names
    BY DEF Models, Names
<1>3. /\ Writable["manga"] = MangaWrite /\ Writable["chapter"] = ChapterWrite
      /\ Writable["filter"] = FilterWrite /\ Writable["listing"] = ListingWrite
    BY DEF Writable
<1> QED
    BY <1>1, <1>2, <1>3, MangaEcho, ChapterEcho, FilterEcho, ListingIs

-----------------------------------------------------------------------------
(* A payload under way                                                     *)
From(s) == [data |-> s, offset |-> 0]

LEMMA FromIs ==
    ASSUME NEW s \in Seq(Byte), Short(s)
    PROVE  From(s) \in Reader /\ From(s).data = s /\ From(s).offset = 0
<1>1. Len(s) \in Nat
    OBVIOUS
<1> QED
    BY <1>1 DEF From, Reader

(* A buffer that holds the bytes b or their beginning gives m or an error. *)
Begins(s, b) == s \in Seq(Byte) /\ Len(s) <= Len(b) /\ \A j \in 1 .. Len(s) : s[j] = b[j]

LEMMA DecodeIs ==
    ASSUME NEW T, NEW b \in Seq(Byte), NEW m, Reads(T, b, m), Short(b), NEW s, Begins(s, b)
    PROVE  T.read[From(s)] = IF Len(s) = Len(b) THEN Got(m, Len(b)) ELSE Failed
<1> DEFINE r == From(s)
<1>1. s \in Seq(Byte) /\ Len(s) \in Nat /\ Len(b) \in Nat /\ Len(s) <= Len(b)
    BY DEF Begins
<1>2. Short(s) /\ Len(b) < Word
    BY <1>1, WordIs DEF Short
<1>3. r \in Reader /\ r.data = s /\ r.offset = 0
    BY <1>1, <1>2, FromIs
<1> HIDE DEF r
<1>4. Agrees(r, b)
    BY <1>1, <1>3 DEF Agrees, Begins
<1>5. Fits(r, b)
    BY <1>1, <1>2, <1>3, <1>4 DEF Fits
<1>6. T.read[r] = Result(r, b, m)
    BY <1>5 DEF Reads
<1>7. Whole(r, b) <=> Len(s) = Len(b)
    BY <1>1, <1>3 DEF Whole
<1>8. r.offset + Len(b) = Len(b)
    BY <1>1, <1>3
<1>9. T.read[r] = IF Len(s) = Len(b) THEN Got(m, Len(b)) ELSE Failed
    BY <1>6, <1>7, <1>8 DEF Result
<1> QED
    BY <1>9 DEF r

(* What holds of a payload under way: what was sent is one of the values,  *)
(* the bytes are what was written for it, or a proper beginning of that,   *)
(* or a buffer nothing is known about; and the result is what they give.   *)
UnderWay ==
    /\ name \in Names /\ sent \in Sends[name]
    /\ Short(Models[name].wire[sent])
    /\ bytes \in Seq(Byte) /\ Short(bytes)
    /\ fault \in {"none", "cut", "changed"}
    /\ fault = "none" => bytes = Models[name].wire[sent]
    /\ fault = "cut" => Begins(bytes, Models[name].wire[sent])
                        /\ Len(bytes) # Len(Models[name].wire[sent])
    /\ result = <<>> \/ result = <<Decode(name, bytes)>>

(* What was sent, as it is written and means.                              *)
LEMMA SentIs ==
    ASSUME NEW n \in Names, NEW v \in Sends[n]
    PROVE  /\ Models[n].wire[v] \in Seq(Byte)
           /\ Reads(Models[n], Models[n].wire[v], Models[n].meant[v])
BY PayloadAssumption, AllSound DEF Sound, Carries

LEMMA UnderWayInit == Init => UnderWay
<1> SUFFICES ASSUME Init PROVE UnderWay
    OBVIOUS
<1>1. Models[name].wire[sent] \in Seq(Byte)
    BY SentIs DEF Init
<1> QED
    BY <1>1 DEF Init, UnderWay

LEMMA UnderWayNext == UnderWay /\ [Next]_vars => UnderWay'
<1> SUFFICES ASSUME UnderWay, [Next]_vars PROVE UnderWay'
    OBVIOUS
<1> DEFINE b == Models[name].wire[sent]
<1>1. CASE Cut
    <2>1. PICK n \in 0 .. Len(bytes) - 1 : bytes' = SubSeq(bytes, 1, n)
        BY <1>1 DEF Cut
    <2>2. bytes = b /\ name' = name /\ sent' = sent /\ fault' = "cut" /\ result' = result
          /\ result = <<>> /\ Short(bytes)
        BY <1>1 DEF Cut, UnderWay
    <2>3. b' = b
        BY <2>2
    <2> HIDE DEF b
    <2>4. bytes \in Seq(Byte) /\ Len(bytes) \in Nat
        BY DEF UnderWay
    <2>5. n \in Nat /\ n < Len(bytes) /\ n <= Len(bytes)
        BY <2>1, <2>4
    <2>6. bytes' \in Seq(Byte) /\ Len(bytes') = n /\ \A j \in 1 .. n : bytes'[j] = bytes[j]
        BY <2>1, <2>4, <2>5
    <2>7. Begins(bytes', b) /\ Len(bytes') # Len(b)
        BY <2>2, <2>4, <2>5, <2>6 DEF Begins
    <2>8. Short(bytes')
        <3>1. Word \div 2 \in Nat
            BY WordIs
        <3> QED
            BY <2>2, <2>4, <2>5, <2>6, <3>1 DEF Short
    <2>9. Short(b')
        BY <2>2, <2>3
    <2> QED
        BY <2>2, <2>3, <2>6, <2>7, <2>8, <2>9 DEF UnderWay, b
<1>2. CASE Change
    <2>1. PICK i \in DOMAIN bytes, c \in Changes : bytes' = [bytes EXCEPT ![i] = c]
        BY <1>2 DEF Change
    <2>2. c \in Byte /\ bytes \in Seq(Byte) /\ Short(bytes)
        BY PayloadAssumption DEF UnderWay
    <2>3. bytes' \in Seq(Byte) /\ Len(bytes') = Len(bytes)
        BY <2>1, <2>2
    <2>4. Short(bytes')
        BY <2>2, <2>3 DEF Short
    <2>5. name' = name /\ sent' = sent /\ fault' = "changed" /\ result' = result /\ result = <<>>
        BY <1>2 DEF Change
    <2>6. b' = b /\ Short(b)
        BY <2>5 DEF UnderWay
    <2> QED
        BY <2>3, <2>4, <2>5, <2>6 DEF UnderWay
<1>3. CASE Receive
    <2>1. /\ name' = name /\ sent' = sent /\ bytes' = bytes /\ fault' = fault
          /\ result' = <<Decode(name, bytes)>>
        BY <1>3 DEF Receive
    <2>2. Decode(name, bytes)' = Decode(name, bytes) /\ b' = b
        BY <2>1
    <2> QED
        BY <2>1, <2>2 DEF UnderWay
<1>4. CASE UNCHANGED vars
    <2>1. name' = name /\ sent' = sent /\ bytes' = bytes /\ fault' = fault /\ result' = result
        BY <1>4 DEF vars
    <2>2. Decode(name, bytes)' = Decode(name, bytes) /\ b' = b
        BY <2>1
    <2> QED
        BY <2>1, <2>2 DEF UnderWay
<1> QED
    BY <1>1, <1>2, <1>3, <1>4 DEF Next

LEMMA UnderWayAlways == Spec => []UnderWay
<1>1. Init => UnderWay
    BY UnderWayInit
<1>2. UnderWay /\ [Next]_vars => UnderWay'
    BY UnderWayNext
<1> QED
    BY <1>1, <1>2, PTL DEF Spec

(* What a source sends is what Dart gets, for every model, every value and *)
(* every width of the numbers: every field in its place, the numbers at    *)
(* the ends of their range, the defaults of what is absent, and no byte    *)
(* left over (from_postcard in models.rs).                                 *)
THEOREM SentIsDecoded == Spec => []DecodesWhatWasSent
<1>1. UnderWay => DecodesWhatWasSent
    <2> SUFFICES ASSUME UnderWay, result # <<>>, fault = "none"
                 PROVE  result[1] = Got(Models[name].meant[sent], Len(bytes))
        BY DEF DecodesWhatWasSent
    <2> DEFINE T == Models[name]
               m == T.meant[sent]
    <2>1. Reads(T, bytes, m) /\ bytes \in Seq(Byte) /\ Short(bytes)
        BY SentIs DEF UnderWay
    <2>2. result[1] = T.read[From(bytes)]
        BY DEF UnderWay, Decode, From
    <2> HIDE DEF T, m
    <2>3. Begins(bytes, bytes)
        <3>1. Len(bytes) \in Nat
            BY <2>1
        <3> QED
            BY <2>1, <3>1 DEF Begins
    <2>4. T.read[From(bytes)] = IF Len(bytes) = Len(bytes) THEN Got(m, Len(bytes)) ELSE Failed
        BY <2>1, <2>3, DecodeIs
    <2> QED
        BY <2>2, <2>4 DEF m, T
<1> QED
    BY <1>1, UnderWayAlways, PTL

(* A payload that ends anywhere before its end is an error, whatever model *)
(* it is of, and never a shorter value (need in postcard.rs).              *)
THEOREM CutIsAnError == Spec => []CutIsNoticed
<1>1. UnderWay => CutIsNoticed
    <2> SUFFICES ASSUME UnderWay, result # <<>>, fault = "cut" PROVE result[1] = Failed
        BY DEF CutIsNoticed
    <2> DEFINE T == Models[name]
               b == T.wire[sent]
               m == T.meant[sent]
    <2>1. Reads(T, b, m) /\ b \in Seq(Byte) /\ Short(b)
        BY SentIs DEF UnderWay
    <2>2. result[1] = T.read[From(bytes)] /\ Begins(bytes, b) /\ Len(bytes) # Len(b)
        BY DEF UnderWay, Decode, From
    <2> HIDE DEF T, b, m
    <2>3. T.read[From(bytes)] = IF Len(bytes) = Len(b) THEN Got(m, Len(b)) ELSE Failed
        BY <2>1, <2>2, DecodeIs
    <2> QED
        BY <2>2, <2>3
<1> QED
    BY <1>1, UnderWayAlways, PTL

(* Whatever the host made of whatever bytes, it can be handed back: what   *)
(* to_postcard writes of it, from_postcard reads as the same value and     *)
(* leaves nothing (manga, chapters, filters, listings).                    *)
THEOREM EchoIsTheSame == Spec => []EchoIsStable
<1>1. UnderWay => EchoIsStable
    <2> DEFINE v == result[1].v
               again == Writable[name].wire[v]
    <2> SUFFICES ASSUME UnderWay, Received, name \in DOMAIN Writable, Short(again)
                 PROVE  Decode(name, again) = Got(v, Len(again))
        BY DEF EchoIsStable
    <2> DEFINE T == Models[name]
               W == Writable[name]
               r == From(bytes)
    <2>1. result[1] = T.read[r] /\ Good(T.read[r]) /\ r \in Reader
        BY FromIs DEF UnderWay, Received, Decode, From
    <2>2. Kept(T, W, r, T.read[r])
        BY <2>1, AllEcho DEF Echo
    <2>3. again \in Seq(Byte) /\ Reads(T, again, v)
        BY <2>1, <2>2 DEF Kept, Carries
    <2> HIDE DEF T, W, r, again, v
    <2>4. Begins(again, again)
        <3>1. Len(again) \in Nat
            BY <2>3
        <3> QED
            BY <2>3, <3>1 DEF Begins
    <2>5. T.read[From(again)] = IF Len(again) = Len(again) THEN Got(v, Len(again)) ELSE Failed
        <3>1. Short(again)
            OBVIOUS
        <3> QED
            BY <2>3, <2>4, <3>1, DecodeIs
    <2> QED
        BY <2>5 DEF Decode, From, T
<1> QED
    BY <1>1, UnderWayAlways, PTL
=============================================================================
