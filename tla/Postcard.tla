------------------------------ MODULE Postcard ------------------------------
(***************************************************************************)
(* The postcard reader and writer of the WASM host (postcard.rs).  A byte  *)
(* holds a number below Group and the flag that more follow (128 in the    *)
(* code), an unsigned number is below Word (2^64) and has at most Groups   *)
(* bytes (10, where the shift reaches 64), an i32 takes its part below     *)
(* Half (2^32), a u16 below Quarter (2^16), and a float is FloatLen bytes  *)
(* that nobody looks into (4).                                             *)
(*                                                                         *)
(* A type is a record: the values a source may send, how one is written on *)
(* the wire, what it means to the reader, what the reader makes of a       *)
(* buffer from an offset on, and samples of the values for the runs.       *)
(*                                                                         *)
(* Values: a string is the sequence of its bytes, an absent option <<>>    *)
(* and a present one <<v>>, a list a sequence, a struct its fields paired  *)
(* from the left, <<<<a, b>>, c>>, and a value of an enum with payloads    *)
(* <<tag, payload>>.                                                       *)
(***************************************************************************)
EXTENDS Integers, Sequences

CONSTANTS Group, Groups, Word, Half, Quarter, FloatLen,
          NotUtf8              \* the bytes that no text contains

(* What the k-th group of a number counts, from 0: 1 << shift. *)
Place[k \in 0 .. Groups] == IF k = 0 THEN 1 ELSE Group * Place[k - 1]

ASSUME WidthAssumption ==
    /\ {Group, Groups, Word, Half, Quarter, FloatLen} \subseteq Nat
    /\ Group > 1 /\ Groups > 0 /\ FloatLen > 0
    /\ Place[Groups - 1] < Word /\ Word <= Place[Groups]
    /\ Half % 2 = 0 /\ Word % 2 = 0 /\ 2 < Half /\ Half <= Word
    /\ 0 < Quarter /\ Quarter <= Word

Byte == 0 .. 2 * Group - 1
Number == 0 .. Word - 1

(* A reader: its data and its offset.  No buffer is longer than half of    *)
(* what a number counts.                                                   *)
Short(s) == Len(s) < Word \div 2
Reader == {r \in [data : Seq(Byte), offset : Nat] :
              r.offset <= Len(r.data) /\ Short(r.data)}
At(r, i) == [r EXCEPT !.offset = i]

(* What reading gives: a value and the offset behind it, or an error. *)
Got(v, at) == [is |-> "value", v |-> v, at |-> at]
Failed == [is |-> "error", v |-> <<>>, at |-> 0]
Panicked == [is |-> "panic", v |-> <<>>, at |-> 0]

Good(o) == o.is = "value"

-----------------------------------------------------------------------------
(* Bytes and numbers *)

(* The sum wraps: a length near the end of the range looks short enough,   *)
(* and the slice that follows panics.                                      *)
Need(r, n) == (r.offset + n) % Word <= Len(r.data)
Slice(r, n) ==
    IF ~ Need(r, n) THEN Failed
    ELSE IF r.offset + n >= Word THEN Panicked
    ELSE Got(SubSeq(r.data, r.offset + 1, r.offset + n), r.offset + n)

WriteVar[v \in Number] ==
    IF v >= Group THEN <<Group + (v % Group)>> \o WriteVar[v \div Group] ELSE <<v>>

(* One pass of read_var_u64, on what the passes before it have left. *)
More(v, at) == [is |-> "more", v |-> v, at |-> at]
NextGroup(r, k, o) ==
    IF o.is # "more" THEN o
    ELSE IF ~ Need(At(r, o.at), 1) THEN Failed
    ELSE LET byte == r.data[o.at + 1]
             sum == (o.v + (byte % Group) * Place[k - 1]) % Word
         IN IF byte < Group THEN Got(sum, o.at + 1)
            ELSE IF k = Groups THEN Failed
            ELSE More(sum, o.at + 1)

ReadVar(r) ==
    LET After[k \in 0 .. Groups] ==
            IF k = 0 THEN More(0, r.offset) ELSE NextGroup(r, k, After[k - 1])
    IN After[Groups]

ZigzagEncode(v) == IF v >= 0 THEN 2 * v ELSE -2 * v - 1
(* Bug: the negative numbers are off by one. *)
ZigzagDecode_OffByOne(u) == IF u % 2 = 0 THEN u \div 2 ELSE -(u \div 2)

ZigzagDecode(u) == IF u % 2 = 0 THEN u \div 2 ELSE -(u \div 2) - 1

(* Bug: a text is as long as the buffer lets it be. *)
ReadString_Clips(r) ==
    LET n == ReadVar(r)
        end == IF n.at + n.v > Len(r.data) THEN Len(r.data) ELSE n.at + n.v
        text == Got(SubSeq(r.data, n.at + 1, end), end)
    IN IF ~ Good(n) THEN n
       ELSE IF \E j \in DOMAIN text.v : text.v[j] \in NotUtf8 THEN Failed ELSE text

(* The text behind n, its length. *)
ReadText(r, n) ==
    LET text == Slice(At(r, n.at), n.v)
    IN IF ~ Good(n) THEN n
       ELSE IF n.v = 0 THEN Got(<<>>, n.at)
       ELSE IF ~ Good(text) THEN text
       ELSE IF \E j \in DOMAIN text.v : text.v[j] \in NotUtf8 THEN Failed
       ELSE text

ReadString(r) == ReadText(r, ReadVar(r))

-----------------------------------------------------------------------------
(* Types *)

Texts == {s \in Seq(Byte \ NotUtf8) : Short(s)}
Str == [values |-> Texts,
        wire |-> [v \in Texts |-> WriteVar[Len(v)] \o v],
        meant |-> [v \in Texts |-> v],
        read |-> [r \in Reader |-> ReadString(r)],
        sample |-> [k \in Nat |-> SubSeq(<<10, 9 + (k % 3)>>, 1, k % 3)]]

(* What is one byte on the wire, b of the value, and value `as` of it. *)
OneByte(S, b, as, m, sample) ==
    [values |-> S,
     wire |-> [v \in S |-> <<b[v]>>],
     meant |-> m,
     read |-> [r \in Reader |-> LET byte == Slice(r, 1) IN
                  IF Good(byte) THEN Got(as[byte.v[1]], byte.at) ELSE byte],
     sample |-> sample]

Bool == OneByte(BOOLEAN, [v \in BOOLEAN |-> IF v THEN 1 ELSE 0],
                [x \in Byte |-> x # 0], [v \in BOOLEAN |-> v], [k \in Nat |-> k % 2 = 1])
Same == [x \in Byte |-> x]
U8 == OneByte(Byte, Same, Same, Same, [k \in Nat |-> k % 3])

(* An enum that reads every number above `last` as 0. *)
Enum(last) ==
    LET known == [x \in Byte |-> IF x > last THEN 0 ELSE x]
    IN OneByte(Byte, Same, known, known, [k \in Nat |-> k % (last + 2)])

Converted(n, as) == IF Good(n) THEN Got(as[n.v], n.at) ELSE n

(* What is a number on the wire: u of the value, and value `as` of it. *)
OneNumber(S, u, as, sample) ==
    [values |-> S,
     wire |-> [v \in S |-> WriteVar[u[v]]],
     meant |-> [v \in S |-> v],
     read |-> [r \in Reader |-> Converted(ReadVar(r), as)],
     sample |-> sample]

U16 == OneNumber(0 .. Quarter - 1, [v \in 0 .. Quarter - 1 |-> v],
                 [u \in Number |-> u % Quarter],
                 [k \in Nat |-> <<0, 1, Quarter - 1>>[(k % 3) + 1]])
Signed(w) == -(w \div 2) .. (w \div 2) - 1
Ends(w) == [k \in Nat |-> <<0, -1, 1, -(w \div 2), w \div 2 - 1>>[(k % 5) + 1]]
I32 == OneNumber(Signed(Half), [v \in Signed(Half) |-> ZigzagEncode(v)],
                 [u \in Number |-> ZigzagDecode(u % Half)], Ends(Half))
I64 == OneNumber(Signed(Word), [v \in Signed(Word) |-> ZigzagEncode(v)],
                 [u \in Number |-> ZigzagDecode(u)], Ends(Word))

Floats == {s \in Seq(Byte) : Len(s) = FloatLen}
Float == [values |-> Floats,
          wire |-> [v \in Floats |-> v],
          meant |-> [v \in Floats |-> v],
          read |-> [r \in Reader |-> Slice(r, FloatLen)],
          sample |-> [k \in Nat |-> [i \in 1 .. FloatLen |-> (k + i) % 2]]]

-----------------------------------------------------------------------------
(* Types made of types *)

(* After the value o, value p of what stands behind it. *)
Both(o, p, v) == IF ~ Good(o) THEN o ELSE IF ~ Good(p) THEN p ELSE Got(v, p.at)

Options(S) == {o \in Seq(S) : Len(o) <= 1}
OnWire(T) == [o \in Options(T.values) |-> IF o = <<>> THEN <<0>> ELSE <<1>> \o T.wire[o[1]]]
OptionBehind(flag, T, r) ==
    LET v == T.read[At(r, flag.at)]
    IN IF ~ Good(flag) THEN flag
       ELSE IF flag.v[1] = 0 THEN Got(<<>>, flag.at)
       ELSE IF flag.v[1] = 1 THEN Both(flag, v, <<v.v>>)
       ELSE Failed
Read_option(T, r) == OptionBehind(Slice(r, 1), T, r)

Opt(T) ==
    [values |-> Options(T.values),
     wire |-> OnWire(T),
     meant |-> [o \in Options(T.values) |-> IF o = <<>> THEN <<>> ELSE <<T.meant[o[1]]>>],
     read |-> [r \in Reader |-> Read_option(T, r)],
     sample |-> [k \in Nat |-> IF k % 3 = 0 THEN <<>> ELSE <<T.sample[k \div 3]>>]]

(* An option whose flag is a u8 that only 1 sets. *)
Flagged(T) ==
    [values |-> Options(T.values),
     wire |-> OnWire(T),
     meant |-> Opt(T).meant,
     read |-> [r \in Reader |->
                  LET flag == Slice(r, 1)
                      v == T.read[At(r, flag.at)]
                  IN IF ~ Good(flag) THEN flag
                     ELSE IF flag.v[1] = 1 THEN Both(flag, v, <<v.v>>)
                     ELSE Got(<<>>, flag.at)],
     sample |-> Opt(T).sample]

(* An option that is read with unwrap_or. *)
Unwrapped(o, with) ==
    IF ~ Good(o) THEN o ELSE Got(IF o.v = <<>> THEN with ELSE o.v[1], o.at)
Filled(T, with) ==
    [values |-> Options(T.values),
     wire |-> OnWire(T),
     meant |-> [o \in Options(T.values) |-> IF o = <<>> THEN with ELSE T.meant[o[1]]],
     read |-> [r \in Reader |-> Unwrapped(Read_option(T, r), with)],
     sample |-> Opt(T).sample]

(* ... and written as Some.  Written only: it has no reader. *)
Always(T) ==
    [values |-> T.values,
     wire |-> [v \in T.values |-> <<1>> \o T.wire[v]]]

(* A list, read item by item as often as its count says. *)
Lists(S) == {s \in Seq(S) : Len(s) \in Number}
WriteItems(T, s) ==
    LET Upto[k \in 0 .. Len(s)] == IF k = 0 THEN <<>> ELSE Upto[k - 1] \o T.wire[s[k]]
    IN Upto[Len(s)]
ReadItems(T, r, count) ==
    LET After[k \in 0 .. count] ==
            IF k = 0 THEN Got(<<>>, r.offset)
            ELSE LET o == After[k - 1]
                     p == T.read[At(r, o.at)]
                 IN Both(o, p, Append(o.v, p.v))
    IN After[count]
ReadList(T, r, n) == IF Good(n) THEN ReadItems(T, At(r, n.at), n.v) ELSE n

List(T) ==
    [values |-> Lists(T.values),
     wire |-> [s \in Lists(T.values) |-> WriteVar[Len(s)] \o WriteItems(T, s)],
     meant |-> [s \in Lists(T.values) |-> [i \in DOMAIN s |-> T.meant[s[i]]]],
     read |-> [r \in Reader |-> ReadList(T, r, ReadVar(r))],
     sample |-> [k \in Nat |-> [i \in 1 .. (k % 3) |-> T.sample[k + i]]]]

(* The fields of S, and T behind them. *)
Fields(S, T) ==
    [values |-> S.values \X T.values,
     wire |-> [v \in S.values \X T.values |-> S.wire[v[1]] \o T.wire[v[2]]],
     meant |-> [v \in S.values \X T.values |-> <<S.meant[v[1]], T.meant[v[2]]>>],
     read |-> [r \in Reader |->
                  LET o == S.read[r]
                      p == T.read[At(r, o.at)]
                  IN Both(o, p, <<o.v, p.v>>)],
     sample |-> [k \in Nat |-> <<S.sample[k + 5], T.sample[k + 7 + k \div 4]>>]]

S & T == Fields(S, T)

(* ... a flag whose default is the first of the n fields of S. *)
AndFlagLike(S, n) ==
    LET Default(v, o) == IF o # <<>> THEN o[1] ELSE IF n = 1 THEN v ELSE v[1]
        T == S & Opt(Bool)
    IN [values |-> T.values,
        wire |-> T.wire,
        meant |-> [v \in T.values |-> <<S.meant[v[1]], Default(S.meant[v[1]], v[2])>>],
        read |-> [r \in Reader |->
                     LET o == T.read[r]
                     IN IF Good(o) THEN Got(<<o.v[1], Default(o.v[1], o.v[2])>>, o.at) ELSE o],
        sample |-> T.sample]

Pairs == List(Str & Str)            \* read_map, write_map

(* A payload chosen by a tag: the type of the tag, the tags with their     *)
(* payloads, and what the payload of an unknown tag reads as (<<>>: an     *)
(* error).                                                                 *)
Choices(arms) ==
    LET Upto[n \in 0 .. Len(arms)] ==
            IF n = 0 THEN {} ELSE Upto[n - 1] \cup ({arms[n][1]} \X arms[n][2].values)
    IN Upto[Len(arms)]
Known(arms, t) == \E i \in DOMAIN arms : arms[i][1] = t
ArmOf(arms, t) == arms[CHOOSE i \in DOMAIN arms : arms[i][1] = t][2]

Union(tag, arms, other) ==
    LET values == Choices(arms)
        Arm(t) == ArmOf(arms, t)
    IN [values |-> values,
        wire |-> [v \in values |-> tag.wire[v[1]] \o Arm(v[1]).wire[v[2]]],
        meant |-> [v \in values |-> <<v[1], Arm(v[1]).meant[v[2]]>>],
        read |-> [r \in Reader |->
                     LET t == tag.read[r]
                         v == Arm(t.v).read[At(r, t.at)]
                     IN IF Good(t) /\ ~ Known(arms, t.v)
                        THEN IF other = <<>> THEN Failed ELSE Got(<<t.v, other[1]>>, t.at)
                        ELSE Both(t, v, <<t.v, v.v>>)],
        sample |-> [k \in Nat |-> LET a == arms[(k % Len(arms)) + 1]
                                  IN <<a[1], a[2].sample[k \div Len(arms)]>>]]

=============================================================================
