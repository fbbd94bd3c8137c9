-------------------------------- MODULE Wire --------------------------------
(***************************************************************************)
(* The protobuf wire format as the generated *_vtproto.pb.go files read    *)
(* and write it: the parts every message type shares.  The three generated *)
(* files carry one copy each of encodeVarint, sov and skip, and inline the *)
(* same tag, length and varint loops in every UnmarshalVT.                 *)
(*                                                                         *)
(*   - a byte is a number in 0..255, a Go string or []byte a sequence of   *)
(*     bytes (nil and empty encode alike and EqualVT does not tell them    *)
(*     apart);                                                             *)
(*   - a 64-bit integer is the sequence of its 7-bit groups, lowest first, *)
(*     without trailing zero groups: 0 is <<>>, 2^64 - 1 is nine 127s and  *)
(*     a 1.  An int32 is held as the uint64 that the code converts it to;  *)
(*   - a pointer to a message is <<>> (nil) or <<m>>, and so is the result *)
(*     of a decoder: <<>> stands for any error it returns.                 *)
(*                                                                         *)
(* An operator that takes another as a parameter names, in its comment, an *)
(* instance of the generated lines it stands for.                          *)
(***************************************************************************)
EXTENDS Naturals, Sequences, SequencesExt, FiniteSetsExt

Nil == <<>>

Groups(n) ==
    IF n = 0 THEN <<>>
    ELSE IF n < 128 THEN <<n>>
    ELSE IF n < 16384 THEN <<n % 128, n \div 128>>
    ELSE <<n % 128, (n \div 128) % 128, n \div 16384>>

\* The number of bytes encodeVarint needs for v.
sov(v) == IF v = <<>> THEN 1 ELSE Len(v)

encodeVarint(v) ==
    IF v = <<>> THEN <<0>>
    ELSE [i \in 1..Len(v) |-> IF i < Len(v) THEN 128 + v[i] ELSE v[i]]

-----------------------------------------------------------------------------
(* Writing.  MarshalToSizedBufferVT fills its buffer from the end, field    *)
(* after field downwards, so the bytes come out in field order.             *)

Delimited(tag, s) == <<tag>> \o encodeVarint(Groups(Len(s))) \o s

\* A singular string or bytes field is left out when it is empty.
PutString(tag, s) == IF s = <<>> THEN <<>> ELSE Delimited(tag, s)

PutStrings(tag, ss) == FlattenSeq([i \in 1..Len(ss) |-> Delimited(tag, ss[i])])

PutVarint(tag, v) == IF v = <<>> THEN <<>> ELSE <<tag>> \o encodeVarint(v)

PutBool(tag, b) == IF b THEN <<tag, 1>> ELSE <<>>

\* A nil message marshals to nothing (actor_vtproto.pb.go:203-205).
Body(Marshal(_), p) == IF p = Nil THEN <<>> ELSE Marshal(p[1])

\* A singular message field: written, even if empty, unless it is nil
\* (actor_vtproto.pb.go:214-223).
PutSub(tag, Marshal(_), p) ==
    IF p = Nil THEN <<>> ELSE Delimited(tag, Body(Marshal, p))

\* A repeated one: a nil element is written as an empty message
\* (remote_vtproto.pb.go:408-419).
PutSubs(tag, Marshal(_), ps) ==
    FlattenSeq([i \in 1..Len(ps) |-> Delimited(tag, Body(Marshal, ps[i]))])

\* MarshalVT: a buffer of exactly SizeVT bytes, filled from the end; then its
\* first n bytes, n the number of bytes written.  Too small a buffer panics.
MarshalVT(size, body) ==
    IF Len(body) > size THEN Nil
    ELSE <<SubSeq([i \in 1..(size - Len(body)) |-> 0] \o body, 1, Len(body))>>

-----------------------------------------------------------------------------
(* Sizes, computed field by field and independently of the bytes.           *)

SizeDelimited(l) == 1 + l + sov(Groups(l))

SizeString(s) == IF Len(s) > 0 THEN SizeDelimited(Len(s)) ELSE 0

SizeStrings(ss) == FoldLeft(LAMBDA n, s : n + SizeDelimited(Len(s)), 0, ss)

SizeVarint(v) == IF v = <<>> THEN 0 ELSE 1 + sov(v)

SizeBool(b) == IF b THEN 2 ELSE 0

\* remote_vtproto.pb.go:830-832
SizeBody(Size(_), p) == IF p = Nil THEN 0 ELSE Size(p[1])

\* actor_vtproto.pb.go:438-441
SizeSub(Size(_), p) == IF p = Nil THEN 0 ELSE SizeDelimited(SizeBody(Size, p))

\* remote_vtproto.pb.go:819-824
SizeSubs(Size(_), ps) ==
    FoldLeft(LAMBDA n, p : n + SizeDelimited(SizeBody(Size, p)), 0, ps)

-----------------------------------------------------------------------------
(* Reading.                                                                 *)

\* An integer in groups, without its trailing zero groups.
Trim(v) == SubSeq(v, 1, Max({0} \cup {k \in 1..Len(v) : v[k] # 0}))

\* Ten groups are read at most; of the tenth only the lowest bit is in the
\* 64-bit integer.  Running out of bytes, or an eleventh group, is an error.
Varint(data, i) ==
    LET last == {j \in i..Min({i + 9, Len(data)}) : data[j] < 128}
    IN IF last = {} THEN Nil
       ELSE <<[val  |-> Trim([k \in 1..(Min(last) - i + 1) |->
                           data[i + k - 1] % (IF k = 10 THEN 2 ELSE 128)]),
               next |-> Min(last) + 1]>>

\* A length or a tag as a number, up to 2^28 - 1: a longer length exceeds every
\* buffer of the model, and no schema has a field number past 2^25.
Small(v) == Len(v) <= 4

Number(v) == FoldRight(LAMBDA g, n : g + 128 * n, v, 0)

\* What follows the tag w at position at, as its wire type says; v is the varint
\* found there.
Tagged(data, w, at, v) ==
    LET elem(val, body, next) ==
            <<[num |-> w \div 8, wt |-> w % 8, val |-> val, body |-> body,
               next |-> next]>>
        end == v[1].next + Number(v[1].val)
    IN CASE w % 8 = 0 /\ v # Nil -> elem(v[1].val, <<>>, v[1].next)
         [] w % 8 = 1 -> elem(<<>>, <<>>, at + 8)
         [] w % 8 = 2 /\ v # Nil /\ Small(v[1].val) ->
               elem(<<>>, SubSeq(data, v[1].next, Min({end - 1, Len(data)})), end)
         [] w % 8 \in {3, 4} -> elem(<<>>, <<>>, at)
         [] w % 8 = 5 -> elem(<<>>, <<>>, at + 4)
         [] OTHER -> Nil

\* One tag and what follows it.  next may lie beyond the end of data; the
\* callers check it.
Element(data, i) ==
    LET after(tag) ==
            IF tag = Nil \/ ~Small(tag[1].val) THEN Nil
            ELSE Tagged(data, Number(tag[1].val), tag[1].next,
                        Varint(data, tag[1].next))
    IN after(Varint(data, i))

\* Where the element that starts at i ends, inside depth open groups; a group
\* ends with its end tag.
RECURSIVE skip(_, _, _)
skip(data, i, depth) ==
    LET after(e, d) ==
            IF e = Nil \/ (e[1].wt = 4 /\ depth = 0) THEN Nil
            ELSE IF d = 0 THEN <<e[1].next>> ELSE skip(data, e[1].next, d)
        within(e) ==
            after(e, CASE e[1].wt = 3 -> depth + 1
                       [] e[1].wt = 4 -> depth - 1
                       [] OTHER -> depth)
    IN IF i > Len(data) THEN Nil ELSE within(Element(data, i))

\* An element with its raw bytes, and the elements read after it.
Prepend(data, i, e, next, rest) ==
    IF rest = Nil THEN Nil
    ELSE <<<<[num |-> e.num, wt |-> e.wt, val |-> e.val, body |-> e.body,
              raw |-> SubSeq(data, i, next - 1)]>> \o rest[1]>>

\* A mutant of Elements that takes what there is of the last field.
RECURSIVE ElementsUnchecked(_, _)
ElementsUnchecked(data, i) ==
    LET until(e, next) ==
            IF e = Nil \/ e[1].num = 0 THEN Nil
            ELSE Prepend(data, i, e[1], next, ElementsUnchecked(data, next))
        clipped(e, end) ==
            IF end = Nil THEN Nil ELSE until(e, Min({end[1], Len(data) + 1}))
    IN IF i = Len(data) + 1 THEN <<<<>>>>
       ELSE clipped(Element(data, i), skip(data, i, 0))

\* The loop of every UnmarshalVT over the elements of data from i on, as the
\* sequence of the elements it reaches, each with its raw bytes.
RECURSIVE Elements(_, _)
Elements(data, i) ==
    LET until(e, end) ==
            IF e = Nil \/ e[1].num = 0 \/ end = Nil THEN Nil
            ELSE IF end[1] > Len(data) + 1 THEN Nil
            ELSE Prepend(data, i, e[1], end[1], Elements(data, end[1]))
    IN IF i = Len(data) + 1 THEN <<<<>>>>
       ELSE until(Element(data, i), skip(data, i, 0))

\* UnmarshalVT: Field(m, e) is the switch over the field numbers
\* (actor_vtproto.pb.go:466-580).
UnmarshalVT(Field(_, _), m, data) ==
    LET fold(es) ==
            IF es = Nil THEN Nil
            ELSE FoldLeft(LAMBDA p, e : IF p = Nil THEN Nil ELSE Field(p[1], e),
                          <<m>>, es[1])
    IN fold(Elements(data, 1))

\* The default case keeps the raw bytes of a field the type does not have.
Unknown(m, e) == <<[m EXCEPT !.unknownFields = @ \o e.raw]>>

GetString(m, e, f) == IF e.wt # 2 THEN Nil ELSE <<[m EXCEPT ![f] = e.body]>>

GetStrings(m, e, f) == IF e.wt # 2 THEN Nil ELSE <<[m EXCEPT ![f] = Append(@, e.body)]>>

GetUint64(m, e, f) == IF e.wt # 0 THEN Nil ELSE <<[m EXCEPT ![f] = e.val]>>

GetBool(m, e, f) == IF e.wt # 0 THEN Nil ELSE <<[m EXCEPT ![f] = e.val # <<>>]>>

\* An int32 keeps the low 32 bits: four groups and four bits of the fifth, the
\* top one being the sign.
GetInt32(m, e, f) ==
    LET extend(low) ==
            IF low[5] >= 8 THEN SubSeq(low, 1, 4) \o <<low[5] + 112, 127, 127, 127, 127, 1>>
            ELSE Trim(low)
        val == extend([k \in 1..5 |-> IF k > Len(e.val) THEN 0
                                      ELSE e.val[k] % (IF k = 5 THEN 16 ELSE 128)])
    IN IF e.wt # 0 THEN Nil ELSE <<[m EXCEPT ![f] = val]>>

\* A singular message field decodes into the message that is there already
\* (actor_vtproto.pb.go:610-645), an element of a repeated one into a new message
\* (remote_vtproto.pb.go:933-974).
GetSub(m, e, f, Unmarshal(_, _), empty) ==
    LET put(p) == IF p = Nil THEN Nil ELSE <<[m EXCEPT ![f] = p]>>
    IN IF e.wt # 2 THEN Nil
       ELSE put(Unmarshal(IF m[f] = Nil THEN empty ELSE m[f][1], e.body))

GetSubs(m, e, f, Unmarshal(_, _), empty) ==
    LET put(p) == IF p = Nil THEN Nil ELSE <<[m EXCEPT ![f] = Append(@, p)]>>
    IN IF e.wt # 2 THEN Nil ELSE put(Unmarshal(empty, e.body))

-----------------------------------------------------------------------------
(* Comparing and copying.                                                   *)

\* actor_vtproto.pb.go:99-109
EqualSub(Equal(_, _), p, q) ==
    (p = Nil /\ q = Nil) \/ (p # Nil /\ q # Nil /\ Equal(p[1], q[1]))

\* In a repeated field a nil element counts as an empty message
\* (remote_vtproto.pb.go:138-158).
EqualSubs(Equal(_, _), ps, qs, empty) ==
    LET at(rs, i) == IF rs[i] = Nil THEN empty ELSE rs[i][1]
    IN /\ Len(ps) = Len(qs)
       /\ \A i \in 1..Len(ps) : Equal(at(ps, i), at(qs, i))

\* A pointer is copied deeply (actor_vtproto.pb.go:41-53), and so is each one of a
\* repeated field (remote_vtproto.pb.go:59-65).
CloneSub(Clone(_), p) == IF p = Nil THEN Nil ELSE <<Clone(p[1])>>

CloneSubs(Clone(_), ps) == [i \in 1..Len(ps) |-> CloneSub(Clone, ps[i])]
=============================================================================
