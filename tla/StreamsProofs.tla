--------------------------- MODULE StreamsProofs ---------------------------
(***************************************************************************)
(* Proofs about Streams, for any number of messages with any content and   *)
(* any number of connections: writers of an address follow each other, and *)
(* what arrives arrives once and in order.                                 *)
(*                                                                         *)
(* A message goes from the router to the inbox of one writer, into a       *)
(* batch, into an envelope, and to the reader.  The argument follows it:   *)
(* the messages further along the line of a writer are older than those    *)
(* behind them, all that any writer has ever held is older than what the   *)
(* router still has, and no message is in two lines.                       *)
(***************************************************************************)
EXTENDS Streams, SequenceTheorems, FiniteSetTheorems, TLAPS

----------------------------------------------------------------------------
(* Sequences of anything *)

IsSeq(s) == s \in Seq(Range(s))

(* A function on 1..n is a sequence. *)
LEMMA FunctionSeq ==
  ASSUME NEW n \in Nat, NEW f, f = [i \in 1..n |-> f[i]]
  PROVE  /\ IsSeq(f) /\ Len(f) = n /\ DOMAIN f = 1..n
<1>1. DOMAIN f = 1..n
  BY Zenon
<1>2. f \in [1..n -> Range(f)]
  BY Zenon, <1>1 DEF Range
<1>3. f \in Seq(Range(f))
  BY Zenon, <1>2, SeqDef
<1>4. Len(f) = n
  BY <1>1, <1>3
<1>5. QED
  BY Zenon, <1>1, <1>3, <1>4 DEF IsSeq

(* A sequence over any set is a sequence over its range. *)
LEMMA SeqIsSeq ==
  ASSUME NEW S, NEW s \in Seq(S)
  PROVE  /\ IsSeq(s) /\ Len(s) \in Nat /\ DOMAIN s = 1..Len(s)
         /\ Range(s) = {s[i] : i \in 1..Len(s)} /\ Range(s) \subseteq S
         /\ s = [i \in 1..Len(s) |-> s[i]]
<1>1. /\ Len(s) \in Nat /\ DOMAIN s = 1..Len(s) /\ s \in [1..Len(s) -> S]
  BY LenProperties
<1>2. s = [i \in 1..Len(s) |-> s[i]]
  BY Zenon, <1>1
<1>3. IsSeq(s)
  BY Zenon, <1>1, <1>2, FunctionSeq
<1>4. QED
  BY Zenon, <1>1, <1>2, <1>3 DEF Range

(* What the length and the elements of a sequence are *)
LEMMA SeqShape ==
  ASSUME NEW s, IsSeq(s)
  PROVE  /\ Len(s) \in Nat /\ DOMAIN s = 1..Len(s)
         /\ Range(s) = {s[i] : i \in 1..Len(s)}
  BY Zenon, SeqIsSeq DEF IsSeq

(* A sequence is a sequence over any set that has its elements. *)
LEMMA SeqWiden ==
  ASSUME NEW s, IsSeq(s), NEW S, Range(s) \subseteq S
  PROVE  s \in Seq(S)
<1>1. /\ Len(s) \in Nat /\ DOMAIN s = 1..Len(s) /\ s = [i \in 1..Len(s) |-> s[i]]
  BY Zenon, SeqIsSeq DEF IsSeq
<1>2. \A i \in 1..Len(s) : s[i] \in S
  BY Zenon, <1>1 DEF Range
<1>3. s \in [1..Len(s) -> S]
  BY Zenon, <1>1, <1>2
<1>4. PICK n \in Nat : s \in [1..n -> S]
  BY Zenon, <1>1, <1>3
<1>5. QED
  BY <1>4, SeqDef

(* Append: one more element, at the end *)
LEMMA AppendShape ==
  ASSUME NEW s, IsSeq(s), NEW e
  PROVE  /\ IsSeq(Append(s, e)) /\ Len(Append(s, e)) = Len(s) + 1
         /\ \A i \in 1..Len(s) : Append(s, e)[i] = s[i]
         /\ Append(s, e)[Len(s) + 1] = e
         /\ Range(Append(s, e)) = Range(s) \cup {e}
<1>. DEFINE S == Range(s) \cup {e}
            a == Append(s, e)
<1>1. s \in Seq(S) /\ e \in S
  BY Zenon, SeqWiden
<1>2. /\ a \in Seq(S) /\ Len(a) = Len(s) + 1 /\ a[Len(s) + 1] = e
      /\ \A i \in 1..Len(s) : a[i] = s[i]
  BY <1>1, AppendProperties
<1>3. Len(s) \in Nat /\ \A i \in 1..(Len(s) + 1) : i \in 1..Len(s) \/ i = Len(s) + 1
  BY <1>1
<1>4. 1..Len(s) \subseteq 1..(Len(s) + 1) /\ Len(s) + 1 \in 1..(Len(s) + 1)
  BY <1>3
<1>5. /\ Range(a) = {a[i] : i \in 1..(Len(s) + 1)}
      /\ Range(s) = {s[i] : i \in 1..Len(s)}
  BY Zenon, <1>1, <1>2, SeqIsSeq
<1>6. Range(a) = Range(s) \cup {e}
  BY Zenon, <1>2, <1>3, <1>4, <1>5
<1>7. QED
  BY Zenon, <1>2, <1>6, SeqIsSeq

(* Tail: the rest, one place earlier *)
LEMMA TailShape ==
  ASSUME NEW s, IsSeq(s), s # <<>>
  PROVE  /\ IsSeq(Tail(s)) /\ Len(Tail(s)) = Len(s) - 1 /\ Len(s) \in Nat
         /\ 1 \in 1..Len(s) /\ Head(s) = s[1]
         /\ \A i \in 1..Len(Tail(s)) : i + 1 \in 2..Len(s) /\ Tail(s)[i] = s[i + 1]
         /\ Head(s) \in Range(s) /\ Range(Tail(s)) \subseteq Range(s)
<1>1. /\ Tail(s) \in Seq(Range(s)) /\ Len(Tail(s)) = Len(s) - 1 /\ Len(s) \in Nat
      /\ \A i \in 1..Len(Tail(s)) : Tail(s)[i] = s[i + 1]
      /\ Len(s) # 0
  BY HeadTailProperties, EmptySeq DEF IsSeq
<1>2. /\ 1 \in 1..Len(s) /\ \A i \in 1..Len(Tail(s)) : i + 1 \in 2..Len(s)
  BY <1>1
<1>3. Head(s) = s[1]
  BY DEF IsSeq
<1>4. Head(s) \in Range(s)
  BY Zenon, <1>2, <1>3, SeqShape
<1>5. IsSeq(Tail(s)) /\ Range(Tail(s)) \subseteq Range(s)
  BY Zenon, <1>1, SeqIsSeq
<1>6. QED
  BY Zenon, <1>1, <1>2, <1>3, <1>4, <1>5

(* Concatenation: the elements of the one, then those of the other *)
LEMMA ConcatShape ==
  ASSUME NEW s, NEW t, IsSeq(s), IsSeq(t)
  PROVE  /\ IsSeq(s \o t) /\ Len(s \o t) = Len(s) + Len(t)
         /\ \A i \in 1..Len(s) : (s \o t)[i] = s[i]
         /\ \A i \in 1..(Len(s) + Len(t)) : i > Len(s) =>
              i - Len(s) \in 1..Len(t) /\ (s \o t)[i] = t[i - Len(s)]
<1>. DEFINE S == Range(s) \cup Range(t)
<1>1. Len(s) \in Nat /\ Len(t) \in Nat
  BY Zenon, SeqShape
<1>2. s \in Seq(S) /\ t \in Seq(S)
  BY Zenon, SeqWiden
<1>3. /\ s \o t \in Seq(S) /\ Len(s \o t) = Len(s) + Len(t)
      /\ \A i \in 1..(Len(s) + Len(t)) :
           (s \o t)[i] = IF i <= Len(s) THEN s[i] ELSE t[i - Len(s)]
  BY <1>2, ConcatProperties
<1>4. \A i \in 1..Len(s) : i \in 1..(Len(s) + Len(t)) /\ i <= Len(s)
  BY <1>1
<1>5. \A i \in 1..(Len(s) + Len(t)) : i > Len(s) => ~(i <= Len(s)) /\ i - Len(s) \in 1..Len(t)
  BY <1>1
<1>6. QED
  BY Zenon, <1>2, <1>3, <1>4, <1>5, SeqIsSeq

----------------------------------------------------------------------------
(* The line of a writer: what the reader has delivered (d), the envelopes  *)
(* on their way (f), the batch in Invoke (b) and the inbox (q)             *)

Before(S, T) == \A m \in S, n \in T : m < n

(* The router has notices among its messages. *)
Sorted(s) ==
  \A i, j \in 1..Len(s) :
    i < j /\ s[i] # Unreachable /\ s[j] # Unreachable => s[i] < s[j]

Flying(f) == UNION {Payloads(f[k].messages) : k \in 1..Len(f)}
Held(d, f, b, q) == Payloads(d) \cup Flying(f) \cup Range(b) \cup Range(q)

FlightOK(f) ==
  /\ IsSeq(f)
  /\ \A k \in 1..Len(f) : IsSeq(f[k].messages) /\ Increasing(f[k].messages)
  /\ \A k, l \in 1..Len(f) :
       k < l => Before(Payloads(f[k].messages), Payloads(f[l].messages))

LineOK(d, f, b, q) ==
  /\ IsSeq(d) /\ Increasing(d)
  /\ FlightOK(f)
  /\ b \in Seq(Messages) /\ Sorted(b)
  /\ q \in Seq(Messages) /\ Sorted(q)
  /\ Held(d, f, b, q) \subseteq Messages
  /\ Before(Payloads(d), Flying(f) \cup Range(b) \cup Range(q))
  /\ Before(Flying(f), Range(b) \cup Range(q))
  /\ Before(Range(b), Range(q))

(* Messages are numbers from 1. *)
LEMMA MessagesAreNumbers ==
  /\ Len(Content) \in Nat /\ Messages = 1..Len(Content)
  /\ Messages \subseteq Nat /\ Unreachable \notin Messages /\ Empty \notin Messages
<1>1. Len(Content) \in Nat /\ Messages = 1..Len(Content)
  BY Zenon, StreamsAssumption, SeqIsSeq DEF Messages
<1>2. Messages \subseteq Nat /\ Unreachable \notin Messages
  BY <1>1 DEF Unreachable
<1>3. QED
  BY Zenon, <1>1, <1>2, StreamsAssumption DEF Messages

(* The empty sequence has no place in a line. *)
LEMMA NothingInLine ==
  /\ <<>> \in Seq(Messages) /\ Sorted(<<>>) /\ Range(<<>>) = {}
  /\ IsSeq(<<>>) /\ Payloads(<<>>) = {} /\ Increasing(<<>>)
  /\ FlightOK(<<>>) /\ Flying(<<>>) = {}
<1>1. <<>> \in Seq(Messages) /\ Len(<<>>) = 0 /\ \A i \in 1..Len(<<>>) : FALSE
  BY EmptySeq
<1>2. IsSeq(<<>>) /\ Range(<<>>) = {<<>>[i] : i \in 1..Len(<<>>)}
  BY Zenon, <1>1, SeqIsSeq
<1>3. Range(<<>>) = {}
  BY Zenon, <1>1, <1>2
<1>4. QED
  BY Zenon, <1>1, <1>2, <1>3 DEF Sorted, Payloads, Increasing, FlightOK, Flying

(* run: the inbox becomes the batch. *)
LEMMA LineTake ==
  ASSUME NEW d, NEW f, NEW q, LineOK(d, f, <<>>, q)
  PROVE  LineOK(d, f, q, <<>>) /\ Held(d, f, q, <<>>) \subseteq Held(d, f, <<>>, q)
<1>1. Held(d, f, q, <<>>) = Held(d, f, <<>>, q)
  BY Zenon DEF Held
<1>2. /\ Before(Payloads(d), Flying(f) \cup Range(q) \cup Range(<<>>))
      /\ Before(Flying(f), Range(q) \cup Range(<<>>))
      /\ Before(Range(q), Range(<<>>))
  BY Zenon, NothingInLine DEF LineOK, Before
<1>3. QED
  BY Zenon, <1>1, <1>2, NothingInLine DEF LineOK

(* Invoke that fails: the batch is gone. *)
LEMMA LineLose ==
  ASSUME NEW d, NEW f, NEW b, NEW q, LineOK(d, f, b, q)
  PROVE  LineOK(d, f, <<>>, q) /\ Held(d, f, <<>>, q) \subseteq Held(d, f, b, q)
<1>1. Held(d, f, <<>>, q) \subseteq Held(d, f, b, q)
  BY Zenon, NothingInLine DEF Held
<1>2. /\ Before(Payloads(d), Flying(f) \cup Range(<<>>) \cup Range(q))
      /\ Before(Flying(f), Range(<<>>) \cup Range(q))
      /\ Before(Range(<<>>), Range(q))
  BY Zenon, NothingInLine DEF LineOK, Before
<1>3. QED
  BY Zenon, <1>1, <1>2, NothingInLine DEF LineOK

(* A connection that closes: what was on its way is gone. *)
LEMMA LineDrop ==
  ASSUME NEW d, NEW f, NEW b, NEW q, LineOK(d, f, b, q)
  PROVE  LineOK(d, <<>>, b, q) /\ Held(d, <<>>, b, q) \subseteq Held(d, f, b, q)
<1>1. Held(d, <<>>, b, q) \subseteq Held(d, f, b, q)
  BY Zenon, NothingInLine DEF Held
<1>2. /\ Before(Payloads(d), Flying(<<>>) \cup Range(b) \cup Range(q))
      /\ Before(Flying(<<>>), Range(b) \cup Range(q))
  BY Zenon, NothingInLine DEF LineOK, Before
<1>3. QED
  BY Zenon, <1>1, <1>2, NothingInLine DEF LineOK

(* Sorted: a later element may join at the end. *)
LEMMA SortedAppend ==
  ASSUME NEW S, NEW s \in Seq(S), Sorted(s), NEW m,
         m = Unreachable \/ Before(Range(s) \ {Unreachable}, {m})
  PROVE  Sorted(Append(s, m))
<1>1. IsSeq(s) /\ Len(s) \in Nat /\ Range(s) = {s[i] : i \in 1..Len(s)}
  BY Zenon, SeqIsSeq
<1>2. /\ Len(Append(s, m)) = Len(s) + 1 /\ Append(s, m)[Len(s) + 1] = m
      /\ \A i \in 1..Len(s) : Append(s, m)[i] = s[i]
  BY <1>1, AppendShape
<1>3. \A i, j \in 1..(Len(s) + 1) : i < j =>
        i \in 1..Len(s) /\ (j \in 1..Len(s) \/ j = Len(s) + 1)
  BY <1>1
<1>4. QED
  BY Zenon, <1>1, <1>2, <1>3 DEF Sorted, Before

(* Send: a message newer than all of the line joins the inbox. *)
LEMMA LinePush ==
  ASSUME NEW d, NEW f, NEW b, NEW q, LineOK(d, f, b, q),
         NEW m \in Messages, Before(Held(d, f, b, q), {m})
  PROVE  /\ LineOK(d, f, b, Append(q, m))
         /\ Held(d, f, b, Append(q, m)) = Held(d, f, b, q) \cup {m}
<1>1. IsSeq(q)
  BY Zenon, SeqIsSeq DEF LineOK
<1>2. IsSeq(Append(q, m)) /\ Range(Append(q, m)) = Range(q) \cup {m}
  BY Zenon, <1>1, AppendShape
<1>3. Range(q) \subseteq Messages
  BY Zenon DEF LineOK, Held
<1>4. Append(q, m) \in Seq(Messages)
  BY Zenon, <1>2, <1>3, SeqWiden
<1>5. Sorted(Append(q, m))
  BY Zenon, SortedAppend DEF LineOK, Before, Held
<1>6. Held(d, f, b, Append(q, m)) = Held(d, f, b, q) \cup {m}
  BY Zenon, <1>2 DEF Held
<1>7. /\ Before(Payloads(d), Flying(f) \cup Range(b) \cup Range(Append(q, m)))
      /\ Before(Flying(f), Range(b) \cup Range(Append(q, m)))
      /\ Before(Range(b), Range(Append(q, m)))
  BY Zenon, <1>2 DEF LineOK, Held, Before
<1>8. QED
  BY Zenon, <1>4, <1>5, <1>6, <1>7 DEF LineOK

(* The payloads of a sequence, by their places *)
LEMMA PayloadsByPlace ==
  ASSUME NEW s, IsSeq(s)
  PROVE  \A m : m \in Payloads(s) <=> m # Empty /\ \E i \in 1..Len(s) : m = s[i].data
<1>1. Range(s) = {s[i] : i \in 1..Len(s)}
  BY Zenon, SeqShape
<1>2. QED
  BY <1>1 DEF Payloads

(* Invoke: the envelope has a place for every message of the batch, with   *)
(* its payload or, when it does not serialize, none.                       *)
LEMMA EncodeShape ==
  ASSUME NEW b \in Seq(Messages)
  PROVE  /\ IsSeq(EncodeBatch(b).messages) /\ Len(EncodeBatch(b).messages) = Len(b)
         /\ \A i \in 1..Len(b) : EncodeBatch(b).messages[i].data \in {b[i], Empty}
<1>. DEFINE c == [i \in 1..Len(b) |-> Content[b[i]]]
<1>1. Len(b) \in Nat /\ \A i \in 1..Len(b) : b[i] \in Messages
  BY ElementOfSeq
<1>2. Len(c) = Len(b) /\ \A i \in 1..Len(b) : c[i].data = b[i]
  <2>1. \A i \in 1..Len(b) : c[i] = Content[b[i]]
    BY Zenon
  <2>2. c = [i \in 1..Len(b) |-> c[i]]
    BY Zenon, <2>1
  <2>3. Len(c) = Len(b)
    BY Zenon, <1>1, <2>2, FunctionSeq
  <2>4. QED
    BY Zenon, <1>1, <2>1, <2>3, StreamsAssumption DEF Messages
<1>. DEFINE T == Tables(c)
<1>3. Encode(c).messages = [i \in 1..Len(c) |-> EncodeMessage(T[i - 1], c[i])]
  BY DEF Encode
<1>. DEFINE ms == [i \in 1..Len(b) |-> EncodeMessage(T[i - 1], c[i])]
<1>4. EncodeBatch(b).messages = ms
  BY Zenon, <1>2, <1>3 DEF EncodeBatch
<1>5. \A i \in 1..Len(b) : ms[i] = EncodeMessage(T[i - 1], c[i])
  BY Zenon
<1>6. ms = [i \in 1..Len(b) |-> ms[i]]
  BY Zenon, <1>5
<1>7. IsSeq(ms) /\ Len(ms) = Len(b)
  BY Zenon, <1>1, <1>6, FunctionSeq
<1>8. \A x, y : EncodeMessage(x, y).data \in {y.data, Empty}
  BY DEF EncodeMessage
<1>9. HIDE DEF c, ms
<1>10. \A i \in 1..Len(b) : ms[i].data \in {b[i], Empty}
  BY ZenonT(30), <1>2, <1>5, <1>8
<1>11. QED
  BY Zenon, <1>4, <1>7, <1>10

(* Then the payloads are those of the batch, in its order. *)
LEMMA EncodeKeepsOrder ==
  ASSUME NEW b \in Seq(Messages), Sorted(b)
  PROVE  /\ IsSeq(EncodeBatch(b).messages) /\ Increasing(EncodeBatch(b).messages)
         /\ Payloads(EncodeBatch(b).messages) \subseteq Range(b)
<1>. DEFINE ms == EncodeBatch(b).messages
<1>1. /\ IsSeq(ms) /\ Len(ms) = Len(b)
      /\ \A i \in 1..Len(b) : ms[i].data = b[i] \/ ms[i].data = Empty
  BY Zenon, EncodeShape
<1>2. Range(b) = {b[i] : i \in 1..Len(b)} /\ Range(b) \subseteq Messages
  BY Zenon, SeqIsSeq
<1>3. Increasing(ms)
  <2>1. \A i \in 1..Len(b) : b[i] # Unreachable
    BY Zenon, <1>2, MessagesAreNumbers
  <2>2. QED
    BY Zenon, <1>1, <2>1 DEF Increasing, Sorted
<1>4. ASSUME NEW m \in Payloads(ms) PROVE m \in Range(b)
  <2>1. PICK i \in 1..Len(b) : m = ms[i].data /\ m # Empty
    BY Zenon, <1>1, <1>4, PayloadsByPlace
  <2>2. QED
    BY Zenon, <1>1, <1>2, <2>1
<1>5. QED
  BY Zenon, <1>1, <1>3, <1>4

(* Invoke: the batch becomes the last envelope on its way. *)
LEMMA LineSend ==
  ASSUME NEW d, NEW f, NEW b, NEW q, LineOK(d, f, b, q)
  PROVE  /\ LineOK(d, Append(f, EncodeBatch(b)), <<>>, q)
         /\ Held(d, Append(f, EncodeBatch(b)), <<>>, q) \subseteq Held(d, f, b, q)
<1>. DEFINE e == EncodeBatch(b)
            g == Append(f, e)
<1>1. /\ IsSeq(e.messages) /\ Increasing(e.messages) /\ Payloads(e.messages) \subseteq Range(b)
  BY Zenon, EncodeKeepsOrder DEF LineOK
<1>2. IsSeq(f) /\ Len(f) \in Nat
  BY Zenon, SeqShape DEF LineOK, FlightOK
<1>3. /\ IsSeq(g) /\ Len(g) = Len(f) + 1 /\ g[Len(f) + 1] = e
      /\ \A k \in 1..Len(f) : g[k] = f[k]
  BY <1>2, AppendShape
<1>4. /\ \A k \in 1..(Len(f) + 1) : k \in 1..Len(f) \/ k = Len(f) + 1
      /\ \A k, l \in 1..(Len(f) + 1) : k < l => k \in 1..Len(f)
  BY <1>2
<1>5. Flying(g) \subseteq Flying(f) \cup Payloads(e.messages)
  BY Zenon, <1>3, <1>4 DEF Flying
<1>6. FlightOK(g)
  <2>1. \A k \in 1..Len(g) : IsSeq(g[k].messages) /\ Increasing(g[k].messages)
    BY Zenon, <1>1, <1>3, <1>4 DEF LineOK, FlightOK
  <2>2. ASSUME NEW k \in 1..Len(g), NEW l \in 1..Len(g), k < l
        PROVE  Before(Payloads(g[k].messages), Payloads(g[l].messages))
    <3>1. k \in 1..Len(f) /\ g[k] = f[k]
      BY Zenon, <1>3, <1>4, <2>2
    <3>2. CASE l \in 1..Len(f)
      BY Zenon, <1>3, <2>2, <3>1, <3>2 DEF LineOK, FlightOK
    <3>3. CASE l = Len(f) + 1
      <4>1. Payloads(f[k].messages) \subseteq Flying(f)
        BY Zenon, <3>1 DEF Flying
      <4>2. QED
        BY Zenon, <1>1, <1>3, <3>1, <3>3, <4>1 DEF LineOK, Before
    <3>4. QED
      BY Zenon, <1>3, <1>4, <3>2, <3>3
  <2>3. QED
    BY Zenon, <1>3, <2>1, <2>2 DEF FlightOK
<1>7. Held(d, g, <<>>, q) \subseteq Held(d, f, b, q)
  BY Zenon, <1>1, <1>5, NothingInLine DEF Held
<1>8. /\ Before(Payloads(d), Flying(g) \cup Range(<<>>) \cup Range(q))
      /\ Before(Flying(g), Range(<<>>) \cup Range(q))
      /\ Before(Range(<<>>), Range(q))
  BY Zenon, <1>1, <1>5, NothingInLine DEF LineOK, Before
<1>9. QED
  BY Zenon, <1>6, <1>7, <1>8, NothingInLine DEF LineOK

(* One increasing sequence after another that is newer *)
LEMMA IncreasingConcat ==
  ASSUME NEW d, NEW x, IsSeq(d), IsSeq(x), Increasing(d), Increasing(x),
         Before(Payloads(d), Payloads(x))
  PROVE  /\ IsSeq(d \o x) /\ Increasing(d \o x)
         /\ Payloads(d \o x) \subseteq Payloads(d) \cup Payloads(x)
<1>. DEFINE y == d \o x
            D == Len(d)
<1>1. D \in Nat /\ Len(x) \in Nat
  BY Zenon, SeqShape
<1>2. /\ IsSeq(y) /\ Len(y) = D + Len(x)
      /\ \A i \in 1..D : y[i] = d[i]
      /\ \A i \in 1..(D + Len(x)) : i > D => i - D \in 1..Len(x) /\ y[i] = x[i - D]
  BY ConcatShape
<1>3. /\ \A i \in 1..(D + Len(x)) : i \in 1..D \/ i > D
      /\ \A i, j \in 1..(D + Len(x)) : i < j /\ i > D => j > D /\ i - D < j - D
  BY <1>1
<1>4. ASSUME NEW i \in 1..(D + Len(x)), NEW j \in 1..(D + Len(x)), i < j,
             y[i].data # Empty, y[j].data # Empty
      PROVE  y[i].data < y[j].data
  <2>1. CASE j \in 1..D
    <3>1. i \in 1..D
      BY <1>1, <1>4, <2>1
    <3>2. QED
      BY Zenon, <1>2, <1>4, <2>1, <3>1 DEF Increasing
  <2>2. CASE i > D
    <3>1. /\ i - D \in 1..Len(x) /\ j - D \in 1..Len(x) /\ i - D < j - D
          /\ y[i] = x[i - D] /\ y[j] = x[j - D]
      BY Zenon, <1>2, <1>3, <1>4, <2>2
    <3>2. QED
      BY Zenon, <1>4, <3>1 DEF Increasing
  <2>3. CASE i \in 1..D /\ j > D
    <3>1. y[i].data \in Payloads(d) /\ y[j].data \in Payloads(x)
      BY Zenon, <1>2, <1>4, <2>3, PayloadsByPlace
    <3>2. QED
      BY Zenon, <3>1 DEF Before
  <2>4. QED
    BY Zenon, <1>3, <2>1, <2>2, <2>3
<1>5. ASSUME NEW m \in Payloads(y) PROVE m \in Payloads(d) \cup Payloads(x)
  <2>0. \A n : n \in Payloads(y) <=> n # Empty /\ \E i \in 1..Len(y) : n = y[i].data
    BY Zenon, <1>2, PayloadsByPlace
  <2>1. PICK i \in 1..(D + Len(x)) : m = y[i].data /\ m # Empty
    BY Zenon, <1>2, <1>5, <2>0
  <2>2. CASE i \in 1..D
    BY Zenon, <1>2, <2>1, <2>2, PayloadsByPlace
  <2>3. CASE i > D
    BY Zenon, <1>2, <2>1, <2>3, PayloadsByPlace
  <2>4. QED
    BY Zenon, <1>3, <2>2, <2>3
<1>6. QED
  BY Zenon, <1>2, <1>4, <1>5 DEF Increasing

(* Receive: of the first envelope a beginning is delivered, the rest is    *)
(* gone.                                                                   *)
LEMMA LineReceive ==
  ASSUME NEW d, NEW f, NEW b, NEW q, LineOK(d, f, b, q), f # <<>>,
         NEW last \in 0..Len(Head(f).messages), NEW x,
         x = [i \in 1..last |-> Decode(Head(f), Head(f).messages[i])]
  PROVE  /\ LineOK(d \o x, Tail(f), b, q)
         /\ Held(d \o x, Tail(f), b, q) \subseteq Held(d, f, b, q)
<1>. DEFINE e == f[1]
            ms == e.messages
<1>1. /\ IsSeq(Tail(f)) /\ Len(Tail(f)) = Len(f) - 1 /\ Len(f) \in Nat
      /\ 1 \in 1..Len(f) /\ Head(f) = e
      /\ \A k \in 1..Len(Tail(f)) : k + 1 \in 2..Len(f) /\ Tail(f)[k] = f[k + 1]
  BY Zenon, TailShape DEF LineOK, FlightOK
<1>2. IsSeq(ms) /\ Increasing(ms) /\ Len(ms) \in Nat /\ last \in 0..Len(ms)
  BY Zenon, <1>1, SeqShape DEF LineOK, FlightOK
<1>3. last \in Nat /\ \A i \in 1..last : i \in 1..Len(ms)
  BY <1>2
<1>4. /\ IsSeq(x) /\ Len(x) = last
      /\ \A i \in 1..last : x[i].data = ms[i].data
  <2>1. \A i \in 1..last : x[i] = Decode(e, ms[i])
    BY Zenon, <1>1
  <2>2. x = [i \in 1..last |-> x[i]]
    BY Zenon
  <2>3. IsSeq(x) /\ Len(x) = last
    BY ZenonT(30), <1>3, <2>2, FunctionSeq
  <2>4. \A m : Decode(e, m).data = m.data
    BY DEF Decode
  <2>5. QED
    BY Zenon, <2>1, <2>3, <2>4
<1>5. Payloads(x) \subseteq Payloads(ms) /\ Payloads(ms) \subseteq Flying(f)
  <2>1. ASSUME NEW m \in Payloads(x) PROVE m \in Payloads(ms)
    <3>1. PICK i \in 1..last : m = x[i].data /\ m # Empty
      BY Zenon, <1>4, PayloadsByPlace
    <3>2. QED
      BY Zenon, <1>2, <1>3, <1>4, <3>1, PayloadsByPlace
  <2>2. QED
    BY Zenon, <1>1, <2>1 DEF Flying
<1>6. Increasing(x)
  <2>1. ASSUME NEW i \in 1..Len(x), NEW j \in 1..Len(x), i < j,
               x[i].data # Empty, x[j].data # Empty
        PROVE  x[i].data < x[j].data
    <3>1. /\ i \in 1..Len(ms) /\ j \in 1..Len(ms)
          /\ x[i].data = ms[i].data /\ x[j].data = ms[j].data
      BY Zenon, <1>3, <1>4
    <3>2. QED
      BY Zenon, <1>2, <2>1, <3>1 DEF Increasing
  <2>2. QED
    BY Zenon, <2>1 DEF Increasing
<1>7. IsSeq(d) /\ Increasing(d) /\ Before(Payloads(d), Payloads(x))
  BY Zenon, <1>5 DEF LineOK, Before
<1>. DEFINE y == d \o x
<1>8. /\ IsSeq(y) /\ Increasing(y) /\ Payloads(y) \subseteq Payloads(d) \cup Payloads(x)
  BY Zenon, <1>4, <1>6, <1>7, IncreasingConcat
<1>9. /\ FlightOK(Tail(f)) /\ Flying(Tail(f)) \subseteq Flying(f)
      /\ Before(Payloads(ms), Flying(Tail(f)))
  <2>1. \A k, l \in 1..Len(Tail(f)) :
          k + 1 \in 1..Len(f) /\ 1 < k + 1 /\ (k < l => k + 1 < l + 1)
    BY <1>1
  <2>2. /\ \A k \in 1..Len(Tail(f)) :
             /\ IsSeq(Tail(f)[k].messages) /\ Increasing(Tail(f)[k].messages)
             /\ Payloads(Tail(f)[k].messages) \subseteq Flying(f)
             /\ Before(Payloads(ms), Payloads(Tail(f)[k].messages))
    BY Zenon, <1>1, <2>1 DEF LineOK, FlightOK, Flying
  <2>3. \A k, l \in 1..Len(Tail(f)) : k < l =>
          Before(Payloads(Tail(f)[k].messages), Payloads(Tail(f)[l].messages))
    BY Zenon, <1>1, <2>1 DEF LineOK, FlightOK
  <2>4. Flying(Tail(f)) \subseteq Flying(f) /\ Before(Payloads(ms), Flying(Tail(f)))
    BY Zenon, <2>2 DEF Flying, Before
  <2>5. QED
    BY Zenon, <1>1, <2>2, <2>3, <2>4 DEF FlightOK
<1>10. Held(y, Tail(f), b, q) \subseteq Held(d, f, b, q)
  BY Zenon, <1>5, <1>8, <1>9 DEF Held
<1>11. /\ Before(Payloads(y), Flying(Tail(f)) \cup Range(b) \cup Range(q))
       /\ Before(Flying(Tail(f)), Range(b) \cup Range(q))
  BY Zenon, <1>5, <1>8, <1>9 DEF LineOK, Before
<1>12. QED
  BY Zenon, <1>8, <1>9, <1>10, <1>11 DEF LineOK

----------------------------------------------------------------------------
(* The invariant *)

LineInv(w) == LineOK(delivered[w], wire[w], batch[w], inbox[w])
HeldBy(w) == Held(delivered[w], wire[w], batch[w], inbox[w])

(* What the router still has, and what it has passed on or given up *)
Waiting == Range(router) \ {Unreachable}
Coming == Waiting \cup ({rmsg} \ {0})
Used == dead \cup UNION {HeldBy(w) : w \in Writers}

DomainInv ==
  /\ DOMAIN delivered = Writers /\ DOMAIN wire = Writers
  /\ DOMAIN batch = Writers /\ DOMAIN inbox = Writers

RouterInv ==
  /\ router \in Seq(Messages \cup {Unreachable}) /\ Sorted(router)
  /\ rmsg \in Messages \cup {0} /\ (rpc # "idle" => rmsg # 0)
  /\ rmsg # 0 => Before({rmsg}, Waiting)

AgeInv ==
  /\ sent \in Nat /\ dead \subseteq Messages
  /\ Before(Used, Coming)
  /\ \A m \in Used \cup Coming : m <= sent

ApartInv ==
  /\ \A w \in Writers : HeldBy(w) \cap dead = {}
  /\ \A v, w \in Writers : v # w => HeldBy(v) \cap HeldBy(w) = {}

StreamInv == DomainInv /\ RouterInv /\ AgeInv /\ ApartInv /\ \A w \in Writers : LineInv(w)

(* Nothing new comes, and what a writer holds it held before: then the     *)
(* ages and the lines stay apart as they were.                             *)
LEMMA NothingNew ==
  ASSUME AgeInv, ApartInv, dead' = dead, sent' = sent, Coming' \subseteq Coming,
         \A w \in Writers : HeldBy(w)' \subseteq HeldBy(w)
  PROVE  AgeInv' /\ ApartInv'
<1>1. Used' \subseteq Used
  BY ZenonT(30) DEF Used
<1>2. AgeInv'
  BY Zenon, <1>1 DEF AgeInv, Before
<1>3. ApartInv'
  BY Zenon DEF ApartInv
<1>4. QED
  BY Zenon, <1>2, <1>3

(* A step in the line of one writer *)
LEMMA LineStep ==
  ASSUME StreamInv, NEW w \in Writers, UNCHANGED <<sent, router, rpc, rmsg, dead>>, DomainInv',
         \A v \in Writers : v # w =>
           /\ delivered'[v] = delivered[v] /\ wire'[v] = wire[v]
           /\ batch'[v] = batch[v] /\ inbox'[v] = inbox[v],
         LineInv(w)', HeldBy(w)' \subseteq HeldBy(w)
  PROVE  StreamInv'
<1>1. \A v \in Writers : LineInv(v)' /\ HeldBy(v)' \subseteq HeldBy(v)
  BY Zenon DEF StreamInv, LineInv, HeldBy
<1>2. Coming' = Coming /\ RouterInv'
  BY Zenon DEF StreamInv, RouterInv, Coming, Waiting
<1>3. AgeInv' /\ ApartInv'
  BY Zenon, <1>1, <1>2, NothingNew DEF StreamInv
<1>4. QED
  BY Zenon, <1>1, <1>2, <1>3 DEF StreamInv

(* A step of the router that takes messages on or gives them up *)
LEMMA RouterStepKeeps ==
  ASSUME StreamInv, UNCHANGED <<sent, inbox, batch, wire, delivered>>, dead' = dead,
         RouterInv', Coming' \subseteq Coming
  PROVE  StreamInv'
<1>1. \A w \in Writers : LineInv(w)' /\ HeldBy(w)' = HeldBy(w)
  BY Zenon DEF StreamInv, LineInv, HeldBy
<1>2. AgeInv' /\ ApartInv'
  BY Zenon, <1>1, NothingNew DEF StreamInv
<1>3. QED
  BY Zenon, <1>1, <1>2 DEF StreamInv, DomainInv

(* What the inbox of the router is: a notice or a message at its head *)
LEMMA RouterHead ==
  ASSUME RouterInv, router # <<>>
  PROVE  /\ Tail(router) \in Seq(Messages \cup {Unreachable}) /\ Sorted(Tail(router))
         /\ Head(router) \in Messages \cup {Unreachable}
         /\ Range(Tail(router)) \subseteq Range(router) /\ Head(router) \in Range(router)
         /\ Head(router) # Unreachable =>
              Before({Head(router)}, Range(Tail(router)) \ {Unreachable})
<1>. DEFINE r == router
<1>1. IsSeq(r) /\ Range(r) \subseteq Messages \cup {Unreachable}
  BY Zenon, SeqIsSeq DEF RouterInv
<1>2. /\ IsSeq(Tail(r)) /\ Len(Tail(r)) = Len(r) - 1 /\ Len(r) \in Nat
      /\ 1 \in 1..Len(r) /\ Head(r) = r[1]
      /\ \A i \in 1..Len(Tail(r)) : i + 1 \in 2..Len(r) /\ Tail(r)[i] = r[i + 1]
      /\ Head(r) \in Range(r) /\ Range(Tail(r)) \subseteq Range(r)
  BY Zenon, <1>1, TailShape
<1>3. \A i, j \in 1..Len(Tail(r)) :
        i + 1 \in 1..Len(r) /\ 1 < i + 1 /\ (i < j => i + 1 < j + 1)
  BY <1>2
<1>4. Tail(r) \in Seq(Messages \cup {Unreachable})
  BY Zenon, <1>1, <1>2, SeqWiden
<1>5. Sorted(Tail(r))
  BY Zenon, <1>2, <1>3 DEF RouterInv, Sorted
<1>6. Range(Tail(r)) = {Tail(r)[i] : i \in 1..Len(Tail(r))}
  BY Zenon, <1>2, SeqShape
<1>7. Head(r) # Unreachable => Before({Head(r)}, Range(Tail(r)) \ {Unreachable})
  <2>1. ASSUME Head(r) # Unreachable, NEW n \in Range(Tail(r)) \ {Unreachable}
        PROVE  Head(r) < n
    <3>1. PICK i \in 1..Len(Tail(r)) : n = r[i + 1]
      BY Zenon, <1>2, <1>6
    <3>2. i + 1 \in 1..Len(r) /\ 1 < i + 1
      BY Zenon, <1>3
    <3>3. QED
      BY Zenon, <1>2, <2>1, <3>1, <3>2 DEF RouterInv, Sorted
  <2>2. QED
    BY Zenon, <2>1 DEF Before
<1>8. QED
  BY ZenonT(30), <1>1, <1>2, <1>4, <1>5, <1>7

(* handleTerminateStream takes a notice. *)
LEMMA HandleTerminateStep ==
  ASSUME StreamInv, HandleTerminate
  PROVE  StreamInv'
<1>1. /\ router # <<>> /\ router' = Tail(router)
      /\ UNCHANGED <<sent, rpc, rmsg, inbox, batch, wire, delivered, dead>>
  BY Zenon DEF HandleTerminate, writerVars, connVars, history
<1>2. /\ router' \in Seq(Messages \cup {Unreachable}) /\ Sorted(router')
      /\ Range(router') \subseteq Range(router)
  BY Zenon, <1>1, RouterHead DEF StreamInv
<1>3. Waiting' \subseteq Waiting /\ Coming' \subseteq Coming
  BY Zenon, <1>1, <1>2 DEF Waiting, Coming
<1>4. RouterInv'
  BY Zenon, <1>1, <1>2, <1>3 DEF StreamInv, RouterInv, Before
<1>5. QED
  BY Zenon, <1>1, <1>3, <1>4, RouterStepKeeps

(* deliverStream takes the oldest message. *)
LEMMA DeliverStreamStep ==
  ASSUME StreamInv, DeliverStream
  PROVE  StreamInv'
<1>1. /\ router # <<>> /\ router' = Tail(router) /\ rmsg' = Head(router)
      /\ Head(router) # Unreachable
      /\ UNCHANGED <<sent, inbox, batch, wire, delivered, dead>>
  BY Zenon DEF DeliverStream, writerVars, connVars, history
<1>2. /\ router' \in Seq(Messages \cup {Unreachable}) /\ Sorted(router')
      /\ rmsg' \in Messages /\ rmsg' \in Range(router)
      /\ Range(router') \subseteq Range(router) /\ Before({rmsg'}, Waiting')
  BY Zenon, <1>1, RouterHead DEF StreamInv, Waiting
<1>3. Coming' \subseteq Coming
  BY Zenon, <1>1, <1>2 DEF Waiting, Coming
<1>4. rmsg' # 0
  BY Zenon, <1>2, MessagesAreNumbers DEF Unreachable
<1>5. RouterInv'
  BY Zenon, <1>2, <1>4 DEF RouterInv
<1>6. QED
  BY Zenon, <1>1, <1>3, <1>5, RouterStepKeeps

(* A notice or a message joins the inbox of the router. *)
LEMMA RouterAppend ==
  ASSUME RouterInv, NEW m \in Messages \cup {Unreachable},
         m = Unreachable \/ Before(Waiting, {m})
  PROVE  /\ Append(router, m) \in Seq(Messages \cup {Unreachable})
         /\ Sorted(Append(router, m)) /\ Range(Append(router, m)) = Range(router) \cup {m}
<1>1. IsSeq(router) /\ Range(router) \subseteq Messages \cup {Unreachable}
  BY Zenon, SeqIsSeq DEF RouterInv
<1>2. IsSeq(Append(router, m)) /\ Range(Append(router, m)) = Range(router) \cup {m}
  BY Zenon, <1>1, AppendShape
<1>3. Append(router, m) \in Seq(Messages \cup {Unreachable})
  BY Zenon, <1>1, <1>2, SeqWiden
<1>4. Sorted(Append(router, m))
  BY Zenon, SortedAppend DEF RouterInv, Waiting
<1>5. QED
  BY Zenon, <1>2, <1>3, <1>4

(* Shutdown: the notice *)
LEMMA ShutdownNotifyStep ==
  ASSUME StreamInv, NEW w \in Writers, ShutdownNotify(w)
  PROVE  StreamInv'
<1>1. /\ router' = Append(router, Unreachable)
      /\ UNCHANGED <<sent, rpc, rmsg, inbox, batch, wire, delivered, dead>>
  BY Zenon DEF ShutdownNotify, routerVars, connVars, history
<1>2. /\ router' \in Seq(Messages \cup {Unreachable}) /\ Sorted(router')
      /\ Range(router') = Range(router) \cup {Unreachable}
  BY Zenon, <1>1, RouterAppend DEF StreamInv
<1>3. Waiting' = Waiting /\ Coming' = Coming
  BY Zenon, <1>1, <1>2 DEF Waiting, Coming
<1>4. RouterInv'
  BY Zenon, <1>1, <1>2, <1>3 DEF StreamInv, RouterInv
<1>5. QED
  BY Zenon, <1>1, <1>3, <1>4, RouterStepKeeps

(* Remote.Send: the newest message of all *)
LEMMA SendStep ==
  ASSUME StreamInv, Send
  PROVE  StreamInv'
<1>. DEFINE n == sent + 1
<1>1. /\ sent < Len(Content) /\ sent' = n /\ router' = Append(router, n)
      /\ UNCHANGED <<rpc, rmsg, inbox, batch, wire, delivered, dead>>
  BY Zenon DEF Send, routerVars, writerVars, connVars, history
<1>2. n \in Messages /\ n \in Nat /\ n # Unreachable /\ n <= n
  BY <1>1, MessagesAreNumbers DEF StreamInv, AgeInv, Unreachable
<1>3. /\ \A w \in Writers : LineInv(w)' /\ HeldBy(w)' = HeldBy(w)
      /\ Used' = Used
  BY Zenon, <1>1 DEF StreamInv, LineInv, HeldBy, Used
<1>4. Used \cup Coming \subseteq Messages
  <2>1. Used \subseteq Messages
    BY Zenon DEF StreamInv, AgeInv, LineInv, LineOK, HeldBy, Used
  <2>2. Range(router) \subseteq Messages \cup {Unreachable}
    BY Zenon, SeqIsSeq DEF StreamInv, RouterInv
  <2>3. QED
    BY Zenon, <2>1, <2>2 DEF StreamInv, RouterInv, Coming, Waiting
<1>5. \A m \in Used \cup Coming : m < n /\ m <= n
  <2>1. \A m \in Messages : m <= sent => m < n /\ m <= n
    BY MessagesAreNumbers DEF StreamInv, AgeInv
  <2>2. QED
    BY Zenon, <1>4, <2>1 DEF StreamInv, AgeInv
<1>6. /\ router' \in Seq(Messages \cup {Unreachable}) /\ Sorted(router')
      /\ Range(router') = Range(router) \cup {n}
  <2>1. Before(Waiting, {n})
    BY Zenon, <1>5 DEF Before, Coming
  <2>2. QED
    BY Zenon, <1>1, <1>2, <2>1, RouterAppend DEF StreamInv
<1>7. Waiting' = Waiting \cup {n} /\ Coming' = Coming \cup {n}
  <2>1. Waiting' = Waiting \cup {n}
    BY <1>2, <1>6 DEF Waiting
  <2>2. QED
    BY Zenon, <1>1, <2>1 DEF Coming
<1>8. RouterInv'
  <2>1. rmsg # 0 => rmsg < n
    BY Zenon, <1>5 DEF Coming
  <2>2. rmsg' # 0 => Before({rmsg'}, Waiting')
    BY Zenon, <1>1, <1>7, <2>1 DEF StreamInv, RouterInv, Before
  <2>3. QED
    BY Zenon, <1>1, <1>6, <2>2 DEF StreamInv, RouterInv
<1>9. AgeInv'
  <2>1. Before(Used', Coming')
    BY Zenon, <1>3, <1>5, <1>7 DEF StreamInv, AgeInv, Before
  <2>2. \A m \in Used' \cup Coming' : m <= sent'
    BY Zenon, <1>1, <1>2, <1>3, <1>5, <1>7
  <2>3. QED
    BY Zenon, <1>1, <1>2, <2>1, <2>2 DEF StreamInv, AgeInv
<1>10. ApartInv' /\ DomainInv'
  BY Zenon, <1>1, <1>3 DEF StreamInv, ApartInv, DomainInv
<1>11. QED
  BY Zenon, <1>3, <1>8, <1>9, <1>10 DEF StreamInv

(* What the router has, no writer holds. *)
LEMMA NewerIsNotHeld ==
  ASSUME AgeInv, NEW m \in Coming, m \in Messages
  PROVE  \A w \in Writers : m \notin HeldBy(w)
<1>1. ~(m < m)
  BY MessagesAreNumbers
<1>2. QED
  BY Zenon, <1>1 DEF AgeInv, Before, Used

(* SendLocal: a message for which there is no writer becomes a dead        *)
(* letter.  It is newer than all a writer holds.                           *)
LEMMA SendGetStep ==
  ASSUME StreamInv, SendGet
  PROVE  StreamInv'
<1>1. /\ rpc = "get"
      /\ UNCHANGED <<sent, router, inbox, batch, wire, delivered>>
  BY Zenon DEF SendGet, writerVars, connVars
<1>2. CASE registered # 0
  <2>1. rpc' = "push" /\ rmsg' = rmsg /\ dead' = dead
    BY Zenon, <1>2 DEF SendGet
  <2>2. Waiting' = Waiting /\ Coming' = Coming
    BY Zenon, <1>1, <2>1 DEF Waiting, Coming
  <2>3. RouterInv'
    BY Zenon, <1>1, <2>1, <2>2 DEF StreamInv, RouterInv
  <2>4. QED
    BY Zenon, <1>1, <2>1, <2>2, <2>3, RouterStepKeeps
<1>3. CASE registered = 0
  <2>1. rpc' = "idle" /\ rmsg' = 0 /\ dead' = dead \cup {rmsg}
    BY Zenon, <1>3 DEF SendGet
  <2>2. rmsg # 0 /\ rmsg \in Messages /\ Before({rmsg}, Waiting) /\ rmsg \in Coming
    BY Zenon, <1>1 DEF StreamInv, RouterInv, Coming
  <2>3. Waiting' = Waiting /\ Coming' = Waiting
    BY Zenon, <1>1, <2>1 DEF Waiting, Coming
  <2>4. /\ \A w \in Writers : LineInv(w)' /\ HeldBy(w)' = HeldBy(w)
        /\ Used' = Used \cup {rmsg}
    BY Zenon, <1>1, <2>1 DEF StreamInv, LineInv, HeldBy, Used
  <2>5. RouterInv'
    BY Zenon, <1>1, <2>1, <2>3 DEF StreamInv, RouterInv
  <2>6. AgeInv'
    BY Zenon, <1>1, <2>1, <2>2, <2>3, <2>4 DEF StreamInv, AgeInv, Before, Coming
  <2>7. ApartInv'
    <3>1. \A w \in Writers : rmsg \notin HeldBy(w)
      BY Zenon, <2>2, NewerIsNotHeld DEF StreamInv
    <3>2. QED
      BY Zenon, <2>1, <2>4, <3>1 DEF StreamInv, ApartInv
  <2>8. DomainInv'
    BY Zenon, <1>1 DEF StreamInv, DomainInv
  <2>9. QED
    BY Zenon, <2>4, <2>5, <2>6, <2>7, <2>8 DEF StreamInv
<1>4. QED
  BY Zenon, <1>2, <1>3

(* Send of a process: the message of the router, newer than all of them,   *)
(* joins the line of one writer.                                           *)
LEMMA SendPushStep ==
  ASSUME StreamInv, SendPush
  PROVE  StreamInv'
<1>1. /\ rpc = "push" /\ rpc' = "idle" /\ rmsg' = 0
      /\ inbox' = [inbox EXCEPT ![proc] = Append(@, rmsg)]
      /\ UNCHANGED <<sent, router, batch, wire, delivered, dead>>
  BY Zenon DEF SendPush, connVars, history
<1>2. rmsg # 0 /\ rmsg \in Messages /\ Before({rmsg}, Waiting) /\ rmsg \in Coming
  BY Zenon, <1>1 DEF StreamInv, RouterInv, Coming
<1>3. Waiting' = Waiting /\ Coming' = Waiting
  BY Zenon, <1>1 DEF Waiting, Coming
<1>4. DomainInv' /\ \A w \in Writers :
        inbox'[w] = IF w = proc THEN Append(inbox[w], rmsg) ELSE inbox[w]
  BY Zenon, <1>1 DEF StreamInv, DomainInv
<1>5. ASSUME NEW w \in Writers, w # proc
      PROVE  LineInv(w)' /\ HeldBy(w)' = HeldBy(w)
  BY Zenon, <1>1, <1>4, <1>5 DEF StreamInv, LineInv, HeldBy
<1>6. ASSUME NEW w \in Writers, w = proc
      PROVE  LineInv(w)' /\ HeldBy(w)' = HeldBy(w) \cup {rmsg}
  <2>1. inbox'[w] = Append(inbox[w], rmsg)
    BY Zenon, <1>4, <1>6
  <2>2. /\ LineOK(delivered[w], wire[w], batch[w], inbox[w])
        /\ Before(Held(delivered[w], wire[w], batch[w], inbox[w]), {rmsg})
    BY Zenon, <1>2 DEF StreamInv, LineInv, AgeInv, Used, HeldBy, Before
  <2>3. /\ LineOK(delivered[w], wire[w], batch[w], Append(inbox[w], rmsg))
        /\ Held(delivered[w], wire[w], batch[w], Append(inbox[w], rmsg))
             = Held(delivered[w], wire[w], batch[w], inbox[w]) \cup {rmsg}
    BY <1>2, <2>2, LinePush
  <2>4. QED
    BY Zenon, <1>1, <2>1, <2>3 DEF LineInv, HeldBy
<1>7. RouterInv'
  BY Zenon, <1>1, <1>3 DEF StreamInv, RouterInv
<1>8. AgeInv'
  <2>1. Used' \subseteq Used \cup {rmsg}
    <3>1. \A w \in Writers : HeldBy(w)' \subseteq HeldBy(w) \cup {rmsg}
      BY Zenon, <1>5, <1>6
    <3>2. ASSUME NEW m \in Used' PROVE m \in Used \cup {rmsg}
      <4>1. m \in dead' \/ \E w \in Writers : m \in HeldBy(w)'
        BY Zenon, <3>2 DEF Used
      <4>2. m \in dead \/ m = rmsg \/ \E w \in Writers : m \in HeldBy(w)
        BY Zenon, <1>1, <3>1, <4>1
      <4>3. QED
        BY Zenon, <4>2 DEF Used
    <3>3. QED
      BY Zenon, <3>2
  <2>2. QED
    BY Zenon, <1>1, <1>2, <1>3, <2>1 DEF StreamInv, AgeInv, Before, Coming
<1>9. ApartInv'
  <2>1. rmsg \notin dead /\ \A w \in Writers : rmsg \notin HeldBy(w)
    <3>1. ~(rmsg < rmsg)
      BY <1>2, MessagesAreNumbers
    <3>2. QED
      BY Zenon, <1>2, <3>1 DEF StreamInv, AgeInv, Before, Used
  <2>2. ASSUME NEW w \in Writers PROVE HeldBy(w)' \cap dead' = {}
    BY Zenon, <1>1, <1>5, <1>6, <2>1 DEF StreamInv, ApartInv
  <2>3. ASSUME NEW v \in Writers, NEW w \in Writers, v # w
        PROVE  HeldBy(v)' \cap HeldBy(w)' = {}
    <3>1. HeldBy(v) \cap HeldBy(w) = {}
      BY Zenon, <2>3 DEF StreamInv, ApartInv
    <3>2. CASE v = proc
      BY ZenonT(30), <1>5, <1>6, <2>1, <2>3, <3>1, <3>2
    <3>3. CASE v # proc
      BY ZenonT(30), <1>5, <1>6, <2>1, <3>1, <3>3
    <3>4. QED
      BY Zenon, <3>2, <3>3
  <2>4. QED
    BY Zenon, <2>2, <2>3 DEF ApartInv
<1>10. QED
  BY Zenon, <1>4, <1>5, <1>6, <1>7, <1>8, <1>9 DEF StreamInv

(* run takes a batch. *)
LEMMA TakeBatchStep ==
  ASSUME StreamInv, NEW w \in Writers, TakeBatch(w)
  PROVE  StreamInv'
<1>1. /\ batch[w] = <<>>
      /\ batch' = [batch EXCEPT ![w] = inbox[w]] /\ inbox' = [inbox EXCEPT ![w] = <<>>]
      /\ UNCHANGED <<sent, router, rpc, rmsg, dead, wire, delivered>>
  BY Zenon DEF TakeBatch, routerVars, connVars, history
<1>2. /\ DomainInv' /\ batch'[w] = inbox[w] /\ inbox'[w] = <<>>
      /\ \A v \in Writers : v # w => batch'[v] = batch[v] /\ inbox'[v] = inbox[v]
  BY ZenonT(30), <1>1 DEF StreamInv, DomainInv
<1>3. LineInv(w)' /\ HeldBy(w)' \subseteq HeldBy(w)
  BY ZenonT(30), <1>1, <1>2, LineTake DEF StreamInv, LineInv, HeldBy
<1>4. QED
  BY ZenonT(30), <1>1, <1>2, <1>3, LineStep

(* Invoke puts the batch on the wire or loses it. *)
LEMMA InvokeStep ==
  ASSUME StreamInv, NEW w \in Writers, Invoke(w)
  PROVE  StreamInv'
<1>1. /\ batch' = [batch EXCEPT ![w] = <<>>]
      /\ UNCHANGED <<sent, router, rpc, rmsg, dead, inbox, delivered>>
      /\ \/ wire' = [wire EXCEPT ![w] = Append(@, EncodeBatch(batch[w]))]
         \/ wire' = wire
  BY Zenon DEF Invoke, routerVars
<1>2. /\ DomainInv' /\ batch'[w] = <<>>
      /\ wire'[w] = Append(wire[w], EncodeBatch(batch[w])) \/ wire'[w] = wire[w]
      /\ \A v \in Writers : v # w => batch'[v] = batch[v] /\ wire'[v] = wire[v]
  BY Zenon, <1>1 DEF StreamInv, DomainInv
<1>3. LineInv(w)' /\ HeldBy(w)' \subseteq HeldBy(w)
  <2>1. CASE wire'[w] = wire[w]
    BY ZenonT(30), <1>1, <1>2, <2>1, LineLose DEF StreamInv, LineInv, HeldBy
  <2>2. CASE wire'[w] = Append(wire[w], EncodeBatch(batch[w]))
    <3>1. LineOK(delivered[w], wire[w], batch[w], inbox[w])
      BY Zenon DEF StreamInv, LineInv
    <3>2. /\ LineOK(delivered[w], wire'[w], <<>>, inbox[w])
          /\ Held(delivered[w], wire'[w], <<>>, inbox[w])
               \subseteq Held(delivered[w], wire[w], batch[w], inbox[w])
      BY Zenon, <2>2, <3>1, LineSend
    <3>3. QED
      BY Zenon, <1>1, <1>2, <3>2 DEF LineInv, HeldBy
  <2>3. QED
    BY ZenonT(30), <1>2, <2>1, <2>2
<1>4. QED
  BY Zenon, <1>1, <1>2, <1>3, LineStep

(* Receive delivers from the first envelope. *)
LEMMA ReceiveStep ==
  ASSUME StreamInv, NEW w \in Writers, Receive(w)
  PROVE  StreamInv'
<1>. DEFINE e == Head(wire[w])
            X(last) == [i \in 1..last |-> Decode(e, e.messages[i])]
<1>1. /\ wire[w] # <<>> /\ wire' = [wire EXCEPT ![w] = Tail(@)]
      /\ UNCHANGED <<sent, router, rpc, rmsg, dead, inbox, batch>>
      /\ \E last \in 0..Len(e.messages) :
           delivered' = [delivered EXCEPT ![w] = @ \o X(last)]
  BY Zenon DEF Receive, routerVars, writerVars
<1>2. PICK last \in 0..Len(e.messages) : delivered' = [delivered EXCEPT ![w] = @ \o X(last)]
  BY Zenon, <1>1
<1>3. /\ DomainInv' /\ wire'[w] = Tail(wire[w]) /\ delivered'[w] = delivered[w] \o X(last)
      /\ \A v \in Writers : v # w => delivered'[v] = delivered[v] /\ wire'[v] = wire[v]
  BY Zenon, <1>1, <1>2 DEF StreamInv, DomainInv
<1>4. LineInv(w)' /\ HeldBy(w)' \subseteq HeldBy(w)
  <2>1. LineOK(delivered[w], wire[w], batch[w], inbox[w])
    BY Zenon DEF StreamInv, LineInv
  <2>2. /\ LineOK(delivered[w] \o X(last), Tail(wire[w]), batch[w], inbox[w])
        /\ Held(delivered[w] \o X(last), Tail(wire[w]), batch[w], inbox[w])
             \subseteq Held(delivered[w], wire[w], batch[w], inbox[w])
    BY Zenon, <1>1, <2>1, LineReceive
  <2>3. QED
    BY ZenonT(30), <1>1, <1>3, <2>2 DEF LineInv, HeldBy
<1>5. QED
  BY Zenon, <1>1, <1>3, <1>4, LineStep

(* What was on its way is dropped. *)
LEMMA DropStep ==
  ASSUME StreamInv, NEW w \in Writers, Drop(w)
  PROVE  StreamInv'
<1>1. /\ wire' = [wire EXCEPT ![w] = <<>>]
      /\ UNCHANGED <<sent, router, rpc, rmsg, dead, inbox, batch, delivered>>
  BY Zenon DEF Drop, routerVars, writerVars
<1>2. /\ DomainInv' /\ wire'[w] = <<>>
      /\ \A v \in Writers : v # w => wire'[v] = wire[v]
  BY Zenon, <1>1 DEF StreamInv, DomainInv
<1>3. LineInv(w)' /\ HeldBy(w)' \subseteq HeldBy(w)
  <2>1. LineOK(delivered[w], wire[w], batch[w], inbox[w])
    BY Zenon DEF StreamInv, LineInv
  <2>2. /\ LineOK(delivered[w], <<>>, batch[w], inbox[w])
        /\ Held(delivered[w], <<>>, batch[w], inbox[w])
             \subseteq Held(delivered[w], wire[w], batch[w], inbox[w])
    BY Zenon, <2>1, LineDrop
  <2>3. QED
    BY Zenon, <1>1, <1>2, <2>2 DEF LineInv, HeldBy
<1>4. QED
  BY Zenon, <1>1, <1>2, <1>3, LineStep

(* The other steps move no message. *)
LEMMA OtherStep ==
  ASSUME StreamInv, UNCHANGED <<sent, router, rmsg, inbox, batch, wire, delivered, dead>>,
         rpc' # "idle" => rpc # "idle"
  PROVE  StreamInv'
<1>1. Waiting' = Waiting /\ Coming' = Coming
  BY Zenon DEF Waiting, Coming
<1>2. RouterInv'
  BY Zenon, <1>1 DEF StreamInv, RouterInv
<1>3. QED
  BY Zenon, <1>1, <1>2, RouterStepKeeps

(* Messages move along the lines in their order: the inductive invariant   *)
(* of the router (streamRouter.Receive), the writers (Invoke, Shutdown),   *)
(* the connections and the readers (Receive).                              *)
THEOREM StreamInvariant == Spec => []StreamInv
<1>1. Init => StreamInv
  <2>1. SUFFICES ASSUME Init PROVE StreamInv
    OBVIOUS
  <2>2. DomainInv /\ sent = 0 /\ router = <<>> /\ rmsg = 0 /\ rpc = "idle" /\ dead = {}
    BY Zenon, <2>1 DEF Init, DomainInv
  <2>3. \A w \in Writers : /\ delivered[w] = <<>> /\ wire[w] = <<>>
                           /\ batch[w] = <<>> /\ inbox[w] = <<>>
    BY Zenon, <2>1 DEF Init
  <2>4. Held(<<>>, <<>>, <<>>, <<>>) = {}
    BY Zenon, NothingInLine DEF Held
  <2>5. \A w \in Writers : LineInv(w) /\ HeldBy(w) = {}
    BY ZenonT(30), <2>3, <2>4, NothingInLine DEF LineInv, HeldBy, LineOK, Before
  <2>6. Coming = {} /\ Used = {}
    BY Zenon, <2>2, <2>5, NothingInLine DEF Coming, Waiting, Used
  <2>7. RouterInv
    BY Zenon, <2>2, NothingInLine, EmptySeq DEF RouterInv
  <2>8. AgeInv /\ ApartInv
    <3>1. sent \in Nat
      BY <2>2
    <3>2. QED
      BY ZenonT(30), <2>2, <2>5, <2>6, <3>1 DEF AgeInv, ApartInv, Before
  <2>9. QED
    BY Zenon, <2>2, <2>5, <2>7, <2>8 DEF StreamInv
<1>2. StreamInv /\ [Next]_vars => StreamInv'
  <2>1. SUFFICES ASSUME StreamInv, [Next]_vars PROVE StreamInv'
    OBVIOUS
  <2>2. CASE Send
    BY ZenonT(30), <2>1, <2>2, SendStep
  <2>3. CASE RouterStep
    <3>1. CASE HandleTerminate
      BY Zenon, <2>1, <3>1, HandleTerminateStep
    <3>2. CASE DeliverStream
      BY Zenon, <2>1, <3>2, DeliverStreamStep
    <3>3. CASE SpawnProc
      BY Zenon, <2>1, <3>3, OtherStep DEF SpawnProc, connVars, history
    <3>4. CASE SpawnDuplicate
      BY ZenonT(30), <2>1, <3>4, OtherStep DEF SpawnDuplicate, connVars, history
    <3>5. CASE Started
      BY ZenonT(30), <2>1, <3>5, OtherStep DEF Started, writerVars, connVars, history
    <3>6. CASE SendGet
      BY Zenon, <2>1, <3>6, SendGetStep
    <3>7. CASE SendPush
      BY Zenon, <2>1, <3>7, SendPushStep
    <3>8. QED
      BY ZenonT(30), <2>3, <3>1, <3>2, <3>3, <3>4, <3>5, <3>6, <3>7 DEF RouterStep
  <2>4. ASSUME NEW w \in Writers, WriterStep(w) \/ Cut(w) \/ ReaderStep(w)
        PROVE  StreamInv'
    <3>1. CASE Dial(w)
      BY Zenon, <2>1, <3>1, OtherStep DEF Dial, routerVars, history
    <3>2. CASE TakeBatch(w)
      BY Zenon, <2>1, <3>2, TakeBatchStep
    <3>3. CASE Invoke(w)
      BY Zenon, <2>1, <3>3, InvokeStep
    <3>4. CASE Closed(w)
      BY ZenonT(30), <2>1, <3>4, OtherStep DEF Closed, routerVars, connVars, history
    <3>5. CASE ShutdownNotify(w)
      BY Zenon, <2>1, <3>5, ShutdownNotifyStep
    <3>6. CASE ShutdownStop(w)
      BY Zenon, <2>1, <3>6, OtherStep DEF ShutdownStop, routerVars, connVars, history
    <3>7. CASE ShutdownRemove(w)
      BY ZenonT(30), <2>1, <3>7, OtherStep DEF ShutdownRemove, routerVars, connVars, history
    <3>8. CASE Cut(w)
      BY ZenonT(30), <2>1, <3>8, OtherStep DEF Cut, routerVars, writerVars, history
    <3>9. CASE Receive(w)
      BY Zenon, <2>1, <3>9, ReceiveStep
    <3>10. CASE Drop(w)
      BY Zenon, <2>1, <3>10, DropStep
    <3>11. QED
      BY ZenonT(30), <2>4, <3>1, <3>2, <3>3, <3>4, <3>5, <3>6, <3>7, <3>8, <3>9, <3>10
         DEF WriterStep, ReaderStep
  <2>5. CASE (\E w \in Writers : InvokePanic(w)) \/ UNCHANGED vars
    BY Zenon, <2>1, <2>5, OtherStep
       DEF InvokePanic, vars, routerVars, writerVars, connVars, history
  <2>6. QED
    BY ZenonT(30), <2>1, <2>2, <2>3, <2>4, <2>5 DEF Next, Running, Elsewhere
<1>3. QED
  BY <1>1, <1>2, PTL DEF Spec

(* OnceInOrder: over one connection messages arrive in the order of        *)
(* Remote.Send, none arrives over two connections, and none for which the  *)
(* engine broadcast a DeadLetterEvent arrives at all.                      *)
THEOREM DeliveredOnceInOrder == Spec => []OnceInOrder
<1>1. StreamInv => OnceInOrder
  <2>1. \A w \in Writers : Payloads(delivered[w]) \subseteq HeldBy(w)
    BY Zenon DEF HeldBy, Held
  <2>2. QED
    BY Zenon, <2>1 DEF StreamInv, LineInv, LineOK, ApartInv, OnceInOrder
<1>2. QED
  BY <1>1, StreamInvariant, PTL

----------------------------------------------------------------------------
(* A step that starts no writer keeps the registered one, unless it is the *)
(* last step of its Shutdown.                                              *)
LEMMA WriterKeeps ==
  ASSUME OneWriter, DOMAIN wpc = Writers, NEW w \in Writers, NEW l,
         wpc' = [wpc EXCEPT ![w] = l], registered' = registered,
         wpc[w] \in {"dial", "up"} \cup Closing
  PROVE  OneWriter' /\ DOMAIN wpc' = Writers
<1>1. /\ DOMAIN wpc' = Writers
      /\ \A v \in Writers : v # w => wpc'[v] = wpc[v]
  BY Zenon
<1>2. registered = w
  BY Zenon DEF OneWriter
<1>3. QED
  BY Zenon, <1>1, <1>2 DEF OneWriter, Closing

(* OneWriter: between Registry.add and the end of its Shutdown a writer is *)
(* the registered one, so that Registry.Remove, which goes by the ID, takes*)
(* out no other, and a new connection waits for the end of the old one.    *)
THEOREM WritersFollowEachOther == Spec => []OneWriter
<1>. DEFINE I == OneWriter /\ DOMAIN wpc = Writers
<1>0. 0 \notin Writers
  BY Zenon, MessagesAreNumbers DEF Messages, Writers, Unreachable
<1>1. Init => I
  BY Zenon DEF Init, OneWriter, Closing
<1>2. I /\ [Next]_vars => I'
  <2>1. SUFFICES ASSUME I, [Next]_vars PROVE I'
    OBVIOUS
  <2>2. CASE UNCHANGED <<wpc, registered>>
    BY Zenon, <2>1, <2>2 DEF OneWriter
  <2>3. CASE SpawnProc
    <3>1. /\ registered = 0 /\ registered' = created + 1
          /\ wpc' = [wpc EXCEPT ![created + 1] = "dial"]
      BY Zenon, <2>3 DEF SpawnProc
    <3>2. \A v \in Writers : wpc[v] \notin {"dial", "up"} \cup Closing
      BY Zenon, <1>0, <2>1, <3>1 DEF OneWriter
    <3>3. \A v \in Writers : v # created + 1 => wpc'[v] = wpc[v]
      BY Zenon, <2>1, <3>1
    <3>4. DOMAIN wpc' = Writers
      BY Zenon, <2>1, <3>1
    <3>5. QED
      BY Zenon, <3>1, <3>2, <3>3, <3>4 DEF OneWriter
  <2>4. CASE SpawnDuplicate
    <3>1. registered' = registered /\ wpc' = [wpc EXCEPT ![created + 1] = "unused"]
      BY Zenon, <2>4 DEF SpawnDuplicate
    <3>2. /\ DOMAIN wpc' = Writers
          /\ \A v \in Writers : wpc'[v] = IF v = created + 1 THEN "unused" ELSE wpc[v]
      BY Zenon, <2>1, <3>1
    <3>3. QED
      BY Zenon, <2>1, <3>1, <3>2 DEF OneWriter, Closing
  <2>5. ASSUME NEW w \in Writers, WriterStep(w) \/ Cut(w) \/ ReaderStep(w)
        PROVE  I'
    <3>1. CASE Dial(w)
      <4>1. /\ wpc[w] = "dial" /\ registered' = registered
            /\ \E l \in {"up", "notify"} : wpc' = [wpc EXCEPT ![w] = l]
        BY Zenon, <3>1 DEF Dial
      <4>2. QED
        BY Zenon, <2>1, <4>1, WriterKeeps
    <3>2. CASE Closed(w)
      BY Zenon, <2>1, <3>2, WriterKeeps DEF Closed
    <3>3. CASE ShutdownNotify(w)
      BY Zenon, <2>1, <3>3, WriterKeeps DEF ShutdownNotify, Closing
    <3>4. CASE ShutdownStop(w)
      BY Zenon, <2>1, <3>4, WriterKeeps DEF ShutdownStop, Closing
    <3>5. CASE ShutdownRemove(w)
      <4>1. wpc[w] = "remove" /\ wpc' = [wpc EXCEPT ![w] = "dead"]
        BY Zenon, <3>5 DEF ShutdownRemove
      <4>2. registered = w
        BY Zenon, <2>1, <4>1 DEF OneWriter, Closing
      <4>3. /\ DOMAIN wpc' = Writers /\ wpc'[w] = "dead"
            /\ \A v \in Writers : v # w => wpc'[v] = wpc[v]
        BY Zenon, <2>1, <4>1
      <4>4. \A v \in Writers : wpc'[v] \notin {"dial", "up"} \cup Closing
        BY Zenon, <2>1, <4>2, <4>3 DEF OneWriter, Closing
      <4>5. QED
        BY Zenon, <4>3, <4>4 DEF OneWriter
    <3>6. CASE TakeBatch(w) \/ Invoke(w) \/ Cut(w) \/ Receive(w) \/ Drop(w)
      BY Zenon, <2>2, <3>6 DEF TakeBatch, Invoke, Cut, Receive, Drop, writerVars
    <3>7. QED
      BY ZenonT(30), <2>5, <3>1, <3>2, <3>3, <3>4, <3>5, <3>6 DEF WriterStep, ReaderStep
  <2>6. CASE Send \/ HandleTerminate \/ DeliverStream \/ Started \/ SendGet \/ SendPush
    BY Zenon, <2>2, <2>6
       DEF Send, HandleTerminate, DeliverStream, Started, SendGet, SendPush, writerVars
  <2>7. CASE (\E w \in Writers : InvokePanic(w)) \/ UNCHANGED vars
    BY Zenon, <2>2, <2>7 DEF InvokePanic, vars, writerVars
  <2>8. QED
    BY ZenonT(30), <2>1, <2>3, <2>4, <2>5, <2>6, <2>7
       DEF Next, Running, Elsewhere, RouterStep
<1>3. QED
  BY <1>1, <1>2, PTL DEF Spec

----------------------------------------------------------------------------
(* Induction over the turns of a loop, from the well-foundedness of the    *)
(* finite sets                                                             *)

(* A set of natural numbers has a least element. *)
LEMMA LeastNumber ==
  ASSUME NEW T, T \subseteq Nat, T # {}
  PROVE  \E m \in T : \A k \in T : m <= k
<1>. DEFINE F == {0..m : m \in T}
            R == StrictSubsetOrdering(Nat)
<1>1. \A m \in Nat : 0..m \in SUBSET Nat /\ IsFiniteSet(0..m)
  <2>1. ASSUME NEW m \in Nat PROVE 0..m \in SUBSET Nat /\ IsFiniteSet(0..m)
    BY FS_Interval
  <2>2. QED
    BY Zenon, <2>1
<1>2. F \subseteq FiniteSubsetsOf(Nat) /\ F # {}
  BY Zenon, <1>1 DEF FiniteSubsetsOf
<1>3. IsWellFoundedOn(R, FiniteSubsetsOf(Nat))
  BY Zenon, FS_StrictSubsetOrderingWellFounded
<1>4. PICK x \in F : \A y \in F : <<y, x>> \notin R
  BY Zenon, <1>2, <1>3, WFMin
<1>5. PICK m \in T : x = 0..m
  BY Zenon, <1>4
<1>6. ASSUME NEW k \in T, k < m PROVE FALSE
  <2>1. 0..k \subseteq 0..m /\ 0..k # 0..m
    BY <1>6
  <2>2. <<0..k, 0..m>> \in R
    BY <1>1, <2>1 DEF StrictSubsetOrdering
  <2>3. QED
    BY Zenon, <1>4, <1>5, <2>2
<1>7. \A k \in T : m <= k
  BY <1>6
<1>8. QED
  BY Zenon, <1>7

(* A set with 0 and, up to n, every successor has all of 0..n. *)
LEMMA Induction ==
  ASSUME NEW n \in Nat, NEW S, 0 \in S, \A i \in 0..(n - 1) : i \in S => i + 1 \in S
  PROVE  \A i \in 0..n : i \in S
<1>. DEFINE T == {i \in 0..n : i \notin S}
<1>1. SUFFICES ASSUME T # {} PROVE FALSE
  BY Zenon
<1>2. T \subseteq Nat
  OBVIOUS
<1>3. PICK m \in T : \A k \in T : m <= k
  BY Zenon, <1>1, <1>2, LeastNumber
<1>4. m # 0 /\ m \in 0..n
  BY Zenon
<1>5. m - 1 \in 0..(n - 1) /\ (m - 1) + 1 = m /\ m - 1 \in 0..n /\ ~(m <= m - 1)
  BY <1>4
<1>6. m - 1 \in S
  BY Zenon, <1>3, <1>5
<1>7. QED
  BY Zenon, <1>5, <1>6

----------------------------------------------------------------------------
(* The tables of an envelope *)

Turns(T, c, n) ==
  T = [i \in 0..n |-> IF i = 0 THEN NoTables ELSE EncodeNext(T[i - 1], c[i])]

(* The loop of Invoke defines the tables, turn after turn. *)
LEMMA TurnsExist ==
  ASSUME NEW c, NEW n \in Nat
  PROVE  \E T : Turns(T, c, n)
<1>. DEFINE S == {m \in Nat : \E T : Turns(T, c, m)}
<1>1. 0 \in S
  <2>. DEFINE T == [i \in 0..0 |-> NoTables]
  <2>1. \A i \in 0..0 : i = 0
    OBVIOUS
  <2>2. Turns(T, c, 0)
    BY Zenon, <2>1 DEF Turns
  <2>3. 0 \in Nat
    OBVIOUS
  <2>4. QED
    BY Zenon, <2>2, <2>3
<1>2. ASSUME NEW m \in 0..(n - 1), m \in S PROVE m + 1 \in S
  <2>1. PICK T : Turns(T, c, m)
    BY Zenon, <1>2
  <2>2. /\ m \in Nat /\ m + 1 \in Nat /\ (m + 1) - 1 = m /\ m + 1 # 0 /\ m + 1 # m
        /\ m \in 0..(m + 1) /\ m + 1 \in 0..(m + 1) /\ 0 \in 0..m
        /\ \A i \in 0..(m + 1) : i = m + 1 \/ i \in 0..m
        /\ \A i \in 0..m : /\ i # m + 1 /\ i \in 0..(m + 1)
                          /\ i # 0 => i - 1 \in 0..m
    OBVIOUS
  <2>. DEFINE U == [i \in 0..(m + 1) |-> IF i = m + 1 THEN EncodeNext(T[m], c[m + 1]) ELSE T[i]]
              V == [i \in 0..(m + 1) |-> IF i = 0 THEN NoTables ELSE EncodeNext(U[i - 1], c[i])]
  <2>3. \A i \in 0..m : T[i] = IF i = 0 THEN NoTables ELSE EncodeNext(T[i - 1], c[i])
    BY Zenon, <2>1 DEF Turns
  <2>4. U[m + 1] = EncodeNext(T[m], c[m + 1]) /\ \A i \in 0..m : U[i] = T[i]
    <3>1. \A i \in 0..(m + 1) : U[i] = IF i = m + 1 THEN EncodeNext(T[m], c[m + 1]) ELSE T[i]
      BY Zenon
    <3>. HIDE DEF U
    <3>2. U[m + 1] = EncodeNext(T[m], c[m + 1])
      BY Zenon, <2>2, <3>1
    <3>3. ASSUME NEW i \in 0..m PROVE U[i] = T[i]
      <4>1. i \in 0..(m + 1) /\ i # m + 1
        BY <2>2
      <4>2. QED
        BY Zenon, <3>1, <4>1
    <3>4. QED
      BY Zenon, <3>2, <3>3
  <2>5. ASSUME NEW i \in 0..(m + 1) PROVE U[i] = V[i]
    <3>1. V[i] = IF i = 0 THEN NoTables ELSE EncodeNext(U[i - 1], c[i])
      BY Zenon
    <3>. HIDE DEF U, V
    <3>2. CASE i = m + 1
      <4>1. V[m + 1] = EncodeNext(U[(m + 1) - 1], c[m + 1])
        BY Zenon, <2>2, <3>1, <3>2
      <4>2. U[(m + 1) - 1] = T[m]
        <5>1. m \in 0..m
          BY <2>2
        <5>2. QED
          BY ZenonT(30), <2>2, <2>4, <5>1
      <4>3. QED
        BY Zenon, <2>4, <3>2, <4>1, <4>2
    <3>3. CASE i \in 0..m /\ i = 0
      BY ZenonT(30), <2>3, <2>4, <3>1, <3>3
    <3>4. CASE i \in 0..m /\ i # 0
      <4>1. U[i - 1] = T[i - 1]
        BY Zenon, <2>2, <2>4, <3>4
      <4>2. QED
        BY ZenonT(30), <2>3, <2>4, <3>1, <3>4, <4>1
    <3>5. QED
      BY Zenon, <2>2, <3>2, <3>3, <3>4
  <2>6. U = V
    BY Zenon, <2>5
  <2>7. Turns(U, c, m + 1)
    BY Zenon, <2>6 DEF Turns
  <2>8. QED
    BY Zenon, <2>2, <2>7
<1>3. n \in 0..n
  OBVIOUS
<1>4. n \in S
  <2>. HIDE DEF S
  <2>1. QED
    BY ZenonT(30), <1>1, <1>2, <1>3, Induction
<1>5. QED
  BY Zenon, <1>4

(* So they are what the definition says. *)
LEMMA TablesTurn ==
  ASSUME NEW c, Len(c) \in Nat
  PROVE  Turns(Tables(c), c, Len(c))
<1>1. \E T : Turns(T, c, Len(c))
  BY Zenon, TurnsExist
<1>2. Tables(c) = CHOOSE T : Turns(T, c, Len(c))
  BY Zenon DEF Tables, Turns
<1>3. QED
  BY Zenon, <1>1, <1>2

Grown(s, t) == \A j \in 1..Len(s) : j \in 1..Len(t) /\ t[j] = s[j]
Placed(t, id, key) == id \in Nat /\ id + 1 \in 1..Len(t) /\ t[id + 1] = key

(* lookupTypeName keeps what is in the table and returns where the key is. *)
LEMMA LookupShape ==
  ASSUME NEW t, IsSeq(t), NEW key
  PROVE  /\ IsSeq(lookup(t, key).table) /\ Grown(t, lookup(t, key).table)
         /\ Placed(lookup(t, key).table, lookup(t, key).id, key)
<1>0. Len(t) \in Nat
  BY Zenon, SeqShape
<1>1. CASE \E i \in 1..Len(t) : t[i] = key
  <2>. DEFINE i == CHOOSE j \in 1..Len(t) : t[j] = key
  <2>1. i \in 1..Len(t) /\ t[i] = key
    BY Zenon, <1>1
  <2>2. lookup(t, key).table = t /\ lookup(t, key).id = i - 1
    BY <1>1 DEF lookup
  <2>. HIDE DEF i
  <2>3. i - 1 \in Nat /\ (i - 1) + 1 = i
    BY <1>0, <2>1
  <2>4. Placed(t, i - 1, key)
    BY Zenon, <2>1, <2>3 DEF Placed
  <2>5. QED
    BY Zenon, <2>2, <2>4 DEF Grown
<1>2. CASE ~ \E i \in 1..Len(t) : t[i] = key
  <2>1. lookup(t, key).table = Append(t, key) /\ lookup(t, key).id = Len(t)
    BY <1>2 DEF lookup
  <2>2. /\ IsSeq(Append(t, key)) /\ Len(Append(t, key)) = Len(t) + 1
        /\ Append(t, key)[Len(t) + 1] = key
        /\ \A j \in 1..Len(t) : Append(t, key)[j] = t[j]
    BY AppendShape
  <2>3. /\ Len(t) + 1 \in 1..(Len(t) + 1)
        /\ \A j \in 1..Len(t) : j \in 1..(Len(t) + 1)
    BY <1>0
  <2>4. Placed(Append(t, key), Len(t), key) /\ Grown(t, Append(t, key))
    BY Zenon, <1>0, <2>2, <2>3 DEF Placed, Grown
  <2>5. QED
    BY ZenonT(30), <2>1, <2>2, <2>4
<1>3. QED
  BY Zenon, <1>1, <1>2

(* lookupPIDs does so for a PID, and leaves the table alone for nil. *)
LEMMA LookupPIDsShape ==
  ASSUME NEW t, IsSeq(t), NEW pid
  PROVE  /\ IsSeq(lookupPIDs(t, pid).table) /\ Grown(t, lookupPIDs(t, pid).table)
         /\ pid # Nobody => Placed(lookupPIDs(t, pid).table, lookupPIDs(t, pid).id, pid)
         /\ pid = Nobody => lookupPIDs(t, pid).id = 0
<1>1. CASE pid = Nobody
  <2>1. lookupPIDs(t, pid).table = t /\ lookupPIDs(t, pid).id = 0
    BY <1>1 DEF lookupPIDs
  <2>2. QED
    BY Zenon, <1>1, <2>1 DEF Grown
<1>2. CASE pid # Nobody
  <2>1. lookupPIDs(t, pid) = lookup(t, pid)
    BY Zenon, <1>2 DEF lookupPIDs
  <2>2. QED
    BY Zenon, <1>2, <2>1, LookupShape
<1>3. QED
  BY Zenon, <1>1, <1>2

AreTables(t) == IsSeq(t.types) /\ IsSeq(t.senders) /\ IsSeq(t.targets)
TablesGrown(s, t) ==
  Grown(s.types, t.types) /\ Grown(s.senders, t.senders) /\ Grown(s.targets, t.targets)

(* One turn: the tables keep what they have and have what it looked up. *)
LEMMA TurnShape ==
  ASSUME NEW t, AreTables(t), NEW d
  PROVE  LET u == EncodeNext(t, d)
         IN  /\ AreTables(u) /\ TablesGrown(t, u)
             /\ Placed(u.types, lookup(t.types, d.type).id, d.type)
             /\ d.target # Nobody =>
                  Placed(u.targets, lookupPIDs(t.targets, d.target).id, d.target)
             /\ d.sender # Nobody =>
                  Placed(u.senders, lookupPIDs(t.senders, d.sender).id, d.sender)
<1>. DEFINE u == EncodeNext(t, d)
<1>1. /\ u.types = lookup(t.types, d.type).table
      /\ u.senders = lookupPIDs(t.senders, d.sender).table
      /\ u.targets = lookupPIDs(t.targets, d.target).table
  BY DEF EncodeNext
<1>2. QED
  BY Zenon, <1>1, LookupShape, LookupPIDsShape DEF AreTables, TablesGrown

(* The tables of an earlier turn are the beginnings of the last ones. *)
LEMMA TablesShape ==
  ASSUME NEW c, NEW T, NEW n \in Nat, Turns(T, c, n)
  PROVE  \A m \in 0..n : AreTables(T[m]) /\ \A i \in 0..m : TablesGrown(T[i], T[m])
<1>. DEFINE S == {m \in 0..n : AreTables(T[m]) /\ \A i \in 0..m : TablesGrown(T[i], T[m])}
<1>1. \A m \in 0..n : T[m] = IF m = 0 THEN NoTables ELSE EncodeNext(T[m - 1], c[m])
  BY Zenon DEF Turns
<1>2. \A t : TablesGrown(t, t)
  BY Zenon DEF TablesGrown, Grown
<1>3. 0 \in S
  <2>1. 0 \in 0..n /\ \A i \in 0..0 : i = 0
    OBVIOUS
  <2>2. T[0] = NoTables
    BY Zenon, <1>1, <2>1
  <2>3. NoTables.types = <<>> /\ NoTables.senders = <<>> /\ NoTables.targets = <<>>
    BY DEF NoTables
  <2>4. AreTables(T[0])
    BY Zenon, <2>2, <2>3, NothingInLine DEF AreTables
  <2>5. QED
    BY Zenon, <1>2, <2>1, <2>4
<1>4. ASSUME NEW m \in 0..(n - 1), m \in S PROVE m + 1 \in S
  <2>1. /\ m + 1 \in 0..n /\ m + 1 # 0 /\ (m + 1) - 1 = m
        /\ \A i \in 0..(m + 1) : i \in 0..m \/ i = m + 1
    OBVIOUS
  <2>2. T[m + 1] = EncodeNext(T[m], c[m + 1])
    BY Zenon, <1>1, <2>1
  <2>3. AreTables(T[m]) /\ \A i \in 0..m : TablesGrown(T[i], T[m])
    BY Zenon, <1>4
  <2>4. AreTables(T[m + 1]) /\ TablesGrown(T[m], T[m + 1])
    BY Zenon, <2>2, <2>3, TurnShape
  <2>5. \A i \in 0..m : TablesGrown(T[i], T[m + 1])
    BY ZenonT(30), <2>3, <2>4 DEF TablesGrown, Grown
  <2>6. \A i \in 0..(m + 1) : TablesGrown(T[i], T[m + 1])
    BY Zenon, <1>2, <2>1, <2>5
  <2>7. QED
    BY Zenon, <2>1, <2>4, <2>6
<1>5. \A m \in 0..n : m \in S
  <2>. HIDE DEF S
  <2>1. QED
    BY Zenon, <1>3, <1>4, Induction
<1>6. QED
  BY Zenon, <1>5

(* The indexes of a message are in the tables of its envelope. *)
InRange(e, m) ==
  /\ m.type + 1 \in 1..Len(e.types) /\ m.target + 1 \in 1..Len(e.targets)
  /\ e.senders # <<>> => m.sender + 1 \in 1..Len(e.senders)

(* A message of an envelope says what was sent, and can be read. *)
EnvelopeOK(e) ==
  \A i \in 1..Len(e.messages) :
    LET m == e.messages[i]
    IN  InRange(e, m) /\ (m.data # Empty => AsSent(Decode(e, m)))

(* What is in a table is within it. *)
LEMMA FirstIndex ==
  ASSUME NEW t, IsSeq(t), t # <<>>
  PROVE  0 + 1 \in 1..Len(t)
<1>1. 1 \in 1..Len(t)
  BY Zenon, TailShape
<1>2. QED
  BY <1>1

(* The empty table has no entry. *)
LEMMA EmptyHasNoIndex ==
  \A i : i \notin 1..Len(<<>>)
  BY EmptySeq

(* Invoke: the indexes it puts into the messages of a batch are those of   *)
(* their types and PIDs in the final tables, however the tables have grown *)
(* since, and a nil message reads as the first entries.                    *)
LEMMA EncodeFaithful ==
  ASSUME NEW b \in Seq(Messages)
  PROVE  EnvelopeOK(EncodeBatch(b))
<1>. DEFINE c == [i \in 1..Len(b) |-> Content[b[i]]]
            n == Len(b)
            T == Tables(c)
            e == EncodeBatch(b)
<1>1. n \in Nat /\ \A i \in 1..n : b[i] \in Messages
  BY ElementOfSeq
<1>2. Len(c) = n /\ \A i \in 1..n : c[i] = Content[b[i]]
  <2>1. \A i \in 1..n : c[i] = Content[b[i]]
    BY Zenon
  <2>2. c = [i \in 1..n |-> c[i]]
    BY Zenon, <2>1
  <2>3. QED
    BY ZenonT(30), <1>1, <2>1, <2>2, FunctionSeq
<1>3. /\ e.types = T[n].types /\ e.senders = T[n].senders /\ e.targets = T[n].targets
      /\ e.messages = [i \in 1..n |-> EncodeMessage(T[i - 1], c[i])]
  <2>1. e = Encode(c)
    BY Zenon DEF EncodeBatch
  <2>. HIDE DEF c, T, e
  <2>2. Tables(c) = T
    BY Zenon DEF T
  <2>3. QED
    BY <1>2, <2>1, <2>2 DEF Encode
<1>4. Turns(T, c, n)
  BY ZenonT(30), <1>1, <1>2, TablesTurn
<1>. HIDE DEF c, T, e
<1>5. \A m \in 0..n : AreTables(T[m]) /\ \A i \in 0..m : TablesGrown(T[i], T[m])
  BY Zenon, <1>1, <1>4, TablesShape
<1>6. \A m \in 0..n : T[m] = IF m = 0 THEN NoTables ELSE EncodeNext(T[m - 1], c[m])
  BY Zenon, <1>4 DEF Turns
<1>7. ASSUME NEW i \in 1..n
      PROVE  /\ InRange(e, e.messages[i])
             /\ e.messages[i].data # Empty => AsSent(Decode(e, e.messages[i]))
  <2>. DEFINE d == c[i]
              t == T[i - 1]
              m == EncodeMessage(t, d)
              ty == lookup(t.types, d.type).id
              se == lookupPIDs(t.senders, d.sender).id
              ta == lookupPIDs(t.targets, d.target).id
  <2>1. i - 1 \in 0..n /\ i \in 0..n /\ n \in 0..n /\ i # 0
    BY <1>1
  <2>2. e.messages[i] = m
    BY Zenon, <1>3
  <2>3. /\ d = Content[b[i]] /\ b[i] \in Messages /\ d.data = b[i] /\ d.target # Nobody
    BY ZenonT(30), <1>1, <1>2, StreamsAssumption DEF Messages
  <2>4. AreTables(t) /\ T[i] = EncodeNext(t, d) /\ TablesGrown(T[i], T[n])
    BY Zenon, <1>5, <1>6, <2>1
  <2>5. /\ Placed(T[i].types, ty, d.type) /\ Placed(T[i].targets, ta, d.target)
        /\ d.sender # Nobody => Placed(T[i].senders, se, d.sender)
    BY Zenon, <2>3, <2>4, TurnShape
  <2>6. /\ Placed(e.types, ty, d.type) /\ Placed(e.targets, ta, d.target)
        /\ d.sender # Nobody => Placed(e.senders, se, d.sender)
    BY ZenonT(30), <1>3, <2>4, <2>5 DEF TablesGrown, Grown, Placed
  <2>7. AreTables(e)
    BY Zenon, <1>3, <1>5, <2>1 DEF AreTables
  <2>8. d.sender = Nobody => se = 0
    BY Zenon, <2>4, LookupPIDsShape DEF AreTables
  <2>9. CASE d.serializable
    <3>1. m.data = d.data /\ m.type = ty /\ m.sender = se /\ m.target = ta
      BY <2>9 DEF EncodeMessage
    <3>2. InRange(e, m)
      BY ZenonT(30), <2>6, <2>7, <2>8, <3>1, FirstIndex DEF InRange, Placed, AreTables
    <3>3. /\ Decode(e, m).data = b[i]
          /\ Decode(e, m).type = d.type /\ Decode(e, m).target = d.target
      BY Zenon, <2>3, <2>6, <3>1 DEF Decode, Placed
    <3>4. ASSUME d.sender # Nobody PROVE Decode(e, m).sender = d.sender
      <4>1. e.senders[m.sender + 1] = d.sender /\ m.sender + 1 \in 1..Len(e.senders)
        BY Zenon, <2>6, <3>1, <3>4 DEF Placed
      <4>2. e.senders # <<>>
        BY Zenon, <4>1, EmptyHasNoIndex
      <4>3. QED
        BY <4>1, <4>2 DEF Decode
    <3>5. QED
      BY ZenonT(30), <2>2, <2>3, <3>2, <3>3, <3>4 DEF AsSent
  <2>10. CASE ~d.serializable
    <3>1. m.data = Empty /\ m.type = 0 /\ m.sender = 0 /\ m.target = 0
      BY <2>10 DEF EncodeMessage
    <3>2. e.types # <<>> /\ e.targets # <<>>
      BY Zenon, <2>6, EmptyHasNoIndex DEF Placed
    <3>3. QED
      BY ZenonT(30), <2>2, <2>7, <3>1, <3>2, FirstIndex DEF InRange, AreTables
  <2>11. QED
    BY ZenonT(30), <2>9, <2>10
<1>8. Len(e.messages) = n
  BY Zenon, EncodeShape DEF e
<1>9. QED
  BY Zenon, <1>7, <1>8 DEF EnvelopeOK, e

----------------------------------------------------------------------------
FlightFaithful ==
  \A w \in Writers : \A k \in 1..Len(wire[w]) : EnvelopeOK(wire[w][k])
FaithInv == FlightFaithful /\ Faithful

(* Invoke puts a faithful envelope behind the others. *)
LEMMA InvokeFaithful ==
  ASSUME StreamInv, FaithInv, NEW w \in Writers, Invoke(w)
  PROVE  FaithInv'
<1>1. /\ delivered' = delivered
      /\ \/ wire' = [wire EXCEPT ![w] = Append(@, EncodeBatch(batch[w]))]
         \/ wire' = wire
  BY Zenon DEF Invoke
<1>2. Faithful'
  BY Zenon, <1>1 DEF FaithInv, Faithful
<1>3. CASE wire' = wire
  BY Zenon, <1>2, <1>3 DEF FaithInv, FlightFaithful
<1>4. CASE wire' = [wire EXCEPT ![w] = Append(@, EncodeBatch(batch[w]))]
  <2>. DEFINE e == EncodeBatch(batch[w])
              f == wire[w]
  <2>1. /\ wire'[w] = Append(f, e)
        /\ \A v \in Writers : v # w => wire'[v] = wire[v]
    BY Zenon, <1>4 DEF StreamInv, DomainInv
  <2>2. IsSeq(f) /\ batch[w] \in Seq(Messages)
    BY Zenon DEF StreamInv, LineInv, LineOK, FlightOK
  <2>3. EnvelopeOK(e)
    BY Zenon, <2>2, EncodeFaithful
  <2>. HIDE DEF e, f
  <2>4. /\ Len(Append(f, e)) = Len(f) + 1 /\ Append(f, e)[Len(f) + 1] = e
        /\ \A k \in 1..Len(f) : Append(f, e)[k] = f[k]
    BY <2>2, AppendShape
  <2>5. Len(f) \in Nat /\ \A k \in 1..Len(f) : EnvelopeOK(f[k])
    BY Zenon, <2>2, SeqShape DEF FaithInv, FlightFaithful, f
  <2>6. \A k \in 1..(Len(f) + 1) : k \in 1..Len(f) \/ k = Len(f) + 1
    BY <2>5
  <2>7. \A k \in 1..Len(wire'[w]) : EnvelopeOK(wire'[w][k])
    BY ZenonT(30), <2>1, <2>3, <2>4, <2>5, <2>6
  <2>8. FlightFaithful'
    BY Zenon, <2>1, <2>7 DEF FaithInv, FlightFaithful
  <2>9. QED
    BY Zenon, <1>2, <2>8 DEF FaithInv
<1>5. QED
  BY Zenon, <1>1, <1>3, <1>4

(* The elements of a concatenation are those of its parts. *)
LEMMA RangeConcat ==
  ASSUME NEW s, NEW t, IsSeq(s), IsSeq(t)
  PROVE  Range(s \o t) \subseteq Range(s) \cup Range(t)
<1>. DEFINE u == s \o t
<1>1. Len(s) \in Nat /\ Len(t) \in Nat
  BY Zenon, SeqShape
<1>2. /\ IsSeq(u) /\ Len(u) = Len(s) + Len(t)
      /\ \A i \in 1..Len(s) : u[i] = s[i]
      /\ \A i \in 1..(Len(s) + Len(t)) : i > Len(s) =>
           i - Len(s) \in 1..Len(t) /\ u[i] = t[i - Len(s)]
  BY ConcatShape
<1>. HIDE DEF u
<1>3. \A i \in 1..(Len(s) + Len(t)) : i \in 1..Len(s) \/ i > Len(s)
  BY <1>1
<1>4. /\ Range(u) = {u[i] : i \in 1..(Len(s) + Len(t))}
      /\ Range(s) = {s[i] : i \in 1..Len(s)} /\ Range(t) = {t[i] : i \in 1..Len(t)}
  BY Zenon, <1>2, SeqShape
<1>5. Range(u) \subseteq Range(s) \cup Range(t)
  BY Zenon, <1>2, <1>3, <1>4
<1>6. QED
  BY Zenon, <1>5 DEF u

(* Receive delivers what the first envelope says. *)
LEMMA ReceiveFaithful ==
  ASSUME StreamInv, FaithInv, NEW w \in Writers, Receive(w)
  PROVE  FaithInv'
<1>. DEFINE f == wire[w]
            e == f[1]
            X(last) == [i \in 1..last |-> Decode(Head(f), Head(f).messages[i])]
<1>1. /\ f # <<>> /\ wire' = [wire EXCEPT ![w] = Tail(@)]
      /\ \E last \in 0..Len(Head(f).messages) :
           delivered' = [delivered EXCEPT ![w] = @ \o X(last)]
  BY Zenon DEF Receive
<1>2. PICK last \in 0..Len(Head(f).messages) :
        delivered' = [delivered EXCEPT ![w] = @ \o X(last)]
  BY Zenon, <1>1
<1>. DEFINE x == X(last)
            d == delivered[w]
<1>3. /\ wire'[w] = Tail(f) /\ delivered'[w] = d \o x
      /\ \A v \in Writers : v # w => delivered'[v] = delivered[v] /\ wire'[v] = wire[v]
  BY Zenon, <1>1, <1>2 DEF StreamInv, DomainInv
<1>4. /\ IsSeq(f) /\ IsSeq(d) /\ \A k \in 1..Len(f) : IsSeq(f[k].messages)
  BY Zenon DEF StreamInv, LineInv, LineOK, FlightOK
<1>5. /\ Len(f) \in Nat /\ 1 \in 1..Len(f) /\ Head(f) = e
      /\ \A k \in 1..Len(Tail(f)) : k + 1 \in 2..Len(f) /\ Tail(f)[k] = f[k + 1]
  BY Zenon, <1>1, <1>4, TailShape
<1>6. Len(e.messages) \in Nat /\ last \in 0..Len(e.messages)
  BY ZenonT(30), <1>4, <1>5, SeqShape
<1>7. last \in Nat /\ \A i \in 1..last : i \in 1..Len(e.messages)
  BY <1>6
<1>8. /\ IsSeq(x) /\ Len(x) = last
      /\ \A i \in 1..last : x[i] = Decode(e, e.messages[i])
  <2>1. \A i \in 1..last : x[i] = Decode(e, e.messages[i])
    BY Zenon, <1>5
  <2>2. x = [i \in 1..last |-> x[i]]
    BY Zenon
  <2>3. IsSeq(x) /\ Len(x) = last
    BY Zenon, <1>7, <2>2, FunctionSeq
  <2>4. QED
    BY Zenon, <2>1, <2>3
<1>. HIDE DEF x
<1>9. EnvelopeOK(e) /\ \A k \in 1..Len(f) : EnvelopeOK(f[k])
  BY Zenon, <1>5 DEF FaithInv, FlightFaithful
<1>10. \A i \in 1..last : x[i].data # Empty => AsSent(x[i])
  <2>1. \A m : Decode(e, m).data = m.data
    BY DEF Decode
  <2>2. QED
    BY ZenonT(30), <1>7, <1>8, <1>9, <2>1 DEF EnvelopeOK
<1>11. Range(d \o x) \subseteq Range(d) \cup Range(x)
  BY Zenon, <1>4, <1>8, RangeConcat
<1>12. Range(x) = {x[i] : i \in 1..last}
  BY Zenon, <1>8, SeqShape
<1>13. Faithful'
  <2>1. \A y \in Range(delivered'[w]) : y.data # Empty => AsSent(y)
    <3>1. ASSUME NEW y \in Range(d \o x), y.data # Empty PROVE AsSent(y)
      <4>1. CASE y \in Range(d)
        BY Zenon, <3>1, <4>1 DEF FaithInv, Faithful
      <4>2. CASE y \in Range(x)
        BY Zenon, <1>10, <1>12, <3>1, <4>2
      <4>3. QED
        BY Zenon, <1>11, <3>1, <4>1, <4>2
    <3>2. QED
      BY Zenon, <1>3, <3>1
  <2>2. QED
    BY Zenon, <1>3, <2>1 DEF FaithInv, Faithful
<1>14. FlightFaithful'
  <2>1. \A k \in 2..Len(f) : k \in 1..Len(f)
    BY <1>5
  <2>2. \A k \in 1..Len(wire'[w]) : EnvelopeOK(wire'[w][k])
    BY ZenonT(30), <1>3, <1>5, <1>9, <2>1
  <2>3. QED
    BY Zenon, <1>3, <2>2 DEF FaithInv, FlightFaithful
<1>15. QED
  BY Zenon, <1>13, <1>14 DEF FaithInv

(* Every envelope on its way can be read: the indexes of its messages are  *)
(* in its tables, so that the reader (Receive) indexes none out of range,  *)
(* and they lead to the type and the PIDs that were given to Remote.Send.  *)
(* What has been read keeps them.                                          *)
THEOREM EnvelopesAreFaithful == Spec => []FaithInv
<1>1. Init => FaithInv
  <2>1. SUFFICES ASSUME Init PROVE FaithInv
    OBVIOUS
  <2>2. \A w \in Writers : wire[w] = <<>> /\ delivered[w] = <<>>
    BY Zenon, <2>1 DEF Init
  <2>3. QED
    BY Zenon, <2>2, NothingInLine, EmptyHasNoIndex DEF FaithInv, FlightFaithful, Faithful
<1>2. StreamInv /\ FaithInv /\ [Next]_vars => FaithInv'
  <2>1. SUFFICES ASSUME StreamInv, FaithInv, [Next]_vars PROVE FaithInv'
    OBVIOUS
  <2>2. CASE UNCHANGED <<wire, delivered>>
    BY Zenon, <2>1, <2>2 DEF FaithInv, FlightFaithful, Faithful
  <2>3. CASE Send \/ RouterStep
    BY Zenon, <2>2, <2>3 DEF Send, RouterStep, HandleTerminate, DeliverStream, SpawnProc,
       SpawnDuplicate, Started, SendGet, SendPush, connVars, history
  <2>4. ASSUME NEW w \in Writers, WriterStep(w) \/ Cut(w) \/ ReaderStep(w)
        PROVE  FaithInv'
    <3>1. CASE Invoke(w)
      BY Zenon, <2>1, <3>1, InvokeFaithful
    <3>2. CASE Receive(w)
      BY Zenon, <2>1, <3>2, ReceiveFaithful
    <3>3. CASE Drop(w)
      <4>1. delivered' = delivered /\ wire' = [wire EXCEPT ![w] = <<>>]
        BY Zenon, <3>3 DEF Drop
      <4>2. wire'[w] = <<>> /\ \A v \in Writers : v # w => wire'[v] = wire[v]
        BY Zenon, <2>1, <4>1 DEF StreamInv, DomainInv
      <4>3. \A k \in 1..Len(wire'[w]) : FALSE
        BY Zenon, <4>2, EmptyHasNoIndex
      <4>4. QED
        BY Zenon, <2>1, <4>1, <4>2, <4>3 DEF FaithInv, FlightFaithful, Faithful
    <3>4. CASE Dial(w) \/ TakeBatch(w) \/ Closed(w) \/ ShutdownNotify(w)
                 \/ ShutdownStop(w) \/ ShutdownRemove(w) \/ Cut(w)
      BY Zenon, <2>2, <3>4 DEF Dial, TakeBatch, Closed, ShutdownNotify, ShutdownStop,
         ShutdownRemove, Cut, connVars, history
    <3>5. QED
      BY ZenonT(30), <2>4, <3>1, <3>2, <3>3, <3>4 DEF WriterStep, ReaderStep
  <2>5. CASE (\E w \in Writers : InvokePanic(w)) \/ UNCHANGED vars
    BY Zenon, <2>2, <2>5 DEF InvokePanic, vars, connVars, history
  <2>6. QED
    BY ZenonT(30), <2>1, <2>3, <2>4, <2>5 DEF Next, Running, Elsewhere
<1>3. QED
  BY <1>1, <1>2, StreamInvariant, PTL DEF Spec

(* Faithful: what the reader delivers has the type, the target and the     *)
(* payload it was sent with, and the sender when there was one, for every  *)
(* batch, however many types and PIDs share its tables.                    *)
THEOREM DeliveredAsSent == Spec => []Faithful
<1>1. FaithInv => Faithful
  BY Zenon DEF FaithInv
<1>2. QED
  BY <1>1, EnvelopesAreFaithful, PTL

=============================================================================
