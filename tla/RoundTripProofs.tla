-------------------------- MODULE RoundTripProofs --------------------------
(***************************************************************************)
(* Proofs about Codec: what build() writes, parse() reads back, and no     *)
(* front part of it. The argument gives every field of a structure its     *)
(* place on the wire (At): build() has written the fields before its       *)
(* cursor there, and parse() has read those before its own. The second     *)
(* part adds up the octets of the library's own tables and finds them      *)
(* equal to the sizes that ids.h, the size functions and size() of the     *)
(* records count by hand.                                                  *)
(***************************************************************************)
EXTENDS CodecProofs

-----------------------------------------------------------------------------
(* Sequences *)

(* A part of a sequence that lies in the front it has in common with another. *)
LEMMA SameFront ==
  ASSUME NEW S, NEW s \in Seq(S), NEW u \in Seq(S), NEW n \in Nat, n <= Len(s), n <= Len(u),
         \A i \in 1 .. n : s[i] = u[i],
         NEW a \in Nat, a >= 1, NEW b \in Nat, b <= n
  PROVE  SubSeq(s, a, b) = SubSeq(u, a, b)
<1>1. \A i \in a .. b : s[i] = u[i] /\ s[i] \in S /\ u[i] \in S
  <2> TAKE i \in a .. b
  <2>1. i \in 1 .. n /\ i \in 1 .. Len(s) /\ i \in 1 .. Len(u)
    OBVIOUS
  <2> QED BY <2>1, ElementOfSeq
<1>2. /\ SubSeq(s, a, b) \in Seq(S) /\ SubSeq(u, a, b) \in Seq(S)
      /\ Len(SubSeq(s, a, b)) = Len(SubSeq(u, a, b))
      /\ \A i \in 1 .. b - a + 1 : /\ SubSeq(s, a, b)[i] = s[a + i - 1]
                                   /\ SubSeq(u, a, b)[i] = u[a + i - 1]
      /\ Len(SubSeq(s, a, b)) = IF a <= b THEN b - a + 1 ELSE 0
  BY <1>1, SubSeqProperties
<1>3. \A i \in 1 .. Len(SubSeq(s, a, b)) : SubSeq(s, a, b)[i] = SubSeq(u, a, b)[i]
  <2> TAKE i \in 1 .. Len(SubSeq(s, a, b))
  <2>1. i \in 1 .. b - a + 1 /\ a + i - 1 \in a .. b
    BY <1>2
  <2> QED BY <1>1, <1>2, <2>1
<1> QED BY <1>2, <1>3, SeqEqual

(* The part that a concatenation adds. *)
LEMMA ConcatBack ==
  ASSUME NEW S, NEW s \in Seq(S), NEW w \in Seq(S)
  PROVE  SubSeq(s \o w, Len(s) + 1, Len(s) + Len(w)) = w
<1> DEFINE c == s \o w
           x == SubSeq(c, Len(s) + 1, Len(s) + Len(w))
<1>1. /\ c \in Seq(S) /\ Len(c) = Len(s) + Len(w) /\ Len(s) \in Nat /\ Len(w) \in Nat
      /\ \A i \in 1 .. Len(w) : c[Len(s) + i] = w[i]
  BY ConcatProperties
<1> HIDE DEF c
<1>2. \A i \in Len(s) + 1 .. Len(s) + Len(w) : c[i] \in S
  <2> TAKE i \in Len(s) + 1 .. Len(s) + Len(w)
  <2>1. i \in 1 .. Len(c)
    BY <1>1
  <2> QED BY <1>1, <2>1, ElementOfSeq
<1>3. x \in Seq(S) /\ Len(x) = Len(w) /\ \A i \in 1 .. Len(w) : x[i] = c[Len(s) + i]
  BY <1>1, <1>2, SubSeqProperties
<1> HIDE DEF x
<1>4. x = w
  BY <1>1, <1>3, SeqEqual
<1> QED BY <1>4 DEF x, c

(* The front of a sequence grows by an element. *)
LEMMA FrontGrows ==
  ASSUME NEW S, NEW s \in Seq(S), NEW i \in 1 .. Len(s)
  PROVE  Append(SubSeq(s, 1, i - 1), s[i]) = SubSeq(s, 1, i)
OBVIOUS

(* The front that is everything, and the one that is nothing. *)
LEMMA WholeFront ==
  ASSUME NEW S, NEW s \in Seq(S)
  PROVE  SubSeq(s, 1, Len(s)) = s /\ SubSeq(s, 1, 0) = << >>
OBVIOUS

(* The front of a sequence as a sequence. *)
LEMMA FrontType ==
  ASSUME NEW S, NEW s \in Seq(S), NEW n \in 0 .. Len(s)
  PROVE  /\ SubSeq(s, 1, n) \in Seq(S) /\ Len(SubSeq(s, 1, n)) = n
         /\ \A i \in 1 .. n : SubSeq(s, 1, n)[i] = s[i]
OBVIOUS

(* Changing the last element of a sequence. *)
LEMMA LastChanged ==
  ASSUME NEW S, NEW s \in Seq(S), NEW x \in S, NEW y \in S, NEW n, n = Len(s) + 1
  PROVE  [Append(s, x) EXCEPT ![n] = y] = Append(s, y) /\ Append(s, x)[n] = x
<1> DEFINE a == Append(s, x)
           b == Append(s, y)
           c == [a EXCEPT ![n] = y]
<1>1. /\ a \in Seq(S) /\ b \in Seq(S) /\ Len(a) = n /\ Len(b) = n /\ n \in Nat /\ n \in 1 .. n
      /\ a[n] = x /\ b[n] = y
      /\ \A i \in 1 .. n : i # n => a[i] = b[i]
  BY AppendProperties
<1> HIDE DEF a, b
<1>2. c \in Seq(S) /\ Len(c) = n /\ \A i \in 1 .. n : c[i] = IF i = n THEN y ELSE a[i]
  BY <1>1, ExceptSeq
<1> HIDE DEF c
<1>3. \A i \in 1 .. n : c[i] = b[i]
  BY <1>1, <1>2
<1>4. c = b
  BY <1>1, <1>2, <1>3, SeqEqual
<1> QED BY <1>1, <1>4 DEF a, b, c

(* The other order twice is the order there was. *)
LEMMA ReverseTwice ==
  ASSUME NEW s \in Seq(Octet)
  PROVE  Reverse(Reverse(s)) = s
<1> DEFINE r == Reverse(s)
           u == Reverse(r)
<1>1. r \in Seq(Octet) /\ Len(r) = Len(s) /\ Len(s) \in Nat
  BY ReverseType
<1>2. \A i \in 1 .. Len(s) : r[i] = s[(Len(s) - i) + 1]
  BY DEF Reverse
<1> HIDE DEF r
<1>3. u \in Seq(Octet) /\ Len(u) = Len(s)
  BY <1>1, ReverseType
<1>4. \A i \in 1 .. Len(s) : u[i] = r[(Len(s) - i) + 1]
  BY <1>1 DEF Reverse
<1> HIDE DEF u
<1>5. ASSUME NEW i \in 1 .. Len(s) PROVE u[i] = s[i]
  <2>1. (Len(s) - i) + 1 \in 1 .. Len(s) /\ (Len(s) - ((Len(s) - i) + 1)) + 1 = i
    BY <1>1
  <2> QED BY <1>2, <1>4, <2>1
<1>6. u = s
  BY <1>1, <1>3, <1>5, SeqEqual
<1> QED BY <1>6 DEF u, r

-----------------------------------------------------------------------------
(* Conversions *)

(* A length or a count takes the octets of its field and is read as it was, if it is
   not more than the field can say. *)
LEMMA DigitsBack ==
  ASSUME NEW x \in Nat, NEW n \in {1, 2}
  PROVE  Len(Digits(x, n)) = n /\ (x < Reach(n) => Value(Digits(x, n)) = x)
<1>1. CASE n = 1
  <2>1. Digits(x, n) = <<x % 256>>
    BY <1>1 DEF Digits
  <2>2. x < 256 => x % 256 = x
    OBVIOUS
  <2> QED BY <1>1, <2>1, <2>2 DEF Value, Reach
<1>2. CASE n = 2
  <2>1. Digits(x, n) = <<x % 256, (x \div 256) % 256>>
    BY <1>2 DEF Digits
  <2>2. x < 65536 => (x % 256) + 256 * ((x \div 256) % 256) = x
    OBVIOUS
  <2> QED BY <1>2, <2>1, <2>2 DEF Value, Reach
<1> QED BY <1>1, <1>2

(* What a field holds once it is written. *)
IsFinal(f, v) ==
  /\ v \in Seq(Octet)
  /\ f.k \in {"num", "octets", "le", "flags", "reserved", "len", "count"} => Len(v) = f.n
  /\ f.k = "high16" => Len(v) = 4 /\ v[3] = 0 /\ v[4] = 0 /\ f.n = 2

(* A field takes its octets on the wire, and the way there and back is the identity,
   if an uint16_t can count the octets of a text. *)
LEMMA WireBack ==
  ASSUME NEW f, f.k \in SentKinds, NEW v, IsFinal(f, v)
  PROVE  /\ ToWire(f, v) \in Seq(Octet)
         /\ Len(ToWire(f, v)) = IF f.k = "body" THEN Cut16(Len(v)) ELSE f.n
         /\ (f.k = "body" => Len(v) < 65536) => FromWire(f, ToWire(f, v)) = v
<1>1. CASE f.k = "high16"
  <2> DEFINE u == SubSeq(v, 1, 2)
  <2>1. v \in Seq(Octet) /\ Len(v) = 4 /\ v[3] = 0 /\ v[4] = 0 /\ f.n = 2
    BY <1>1 DEF IsFinal
  <2>2. u \in Seq(Octet) /\ Len(u) = 2 /\ u[1] = v[1] /\ u[2] = v[2]
    <3>1. 2 \in 0 .. Len(v)
      BY <2>1
    <3>2. u \in Seq(Octet) /\ Len(u) = 2 /\ \A i \in 1 .. 2 : u[i] = v[i]
      BY <2>1, <3>1, FrontType
    <3> HIDE DEF u
    <3> QED BY <3>2
  <2>3. ToWire(f, v) = Reverse(u)
    BY <1>1 DEF ToWire
  <2> HIDE DEF u
  <2>4. FromWire(f, ToWire(f, v)) = u \o <<0, 0>>
    BY <1>1, <2>2, <2>3, ReverseTwice DEF FromWire
  <2>5. u \o <<0, 0>> = v
    <3> DEFINE z == <<0, 0>>
               c == u \o z
    <3>1. z \in Seq(Octet) /\ Len(z) = 2 /\ z[1] = 0 /\ z[2] = 0
      BY DEF Octet
    <3> HIDE DEF z
    <3>2. /\ c \in Seq(Octet) /\ Len(c) = 2 + 2
          /\ \A i \in 1 .. 2 + 2 : c[i] = IF i <= 2 THEN u[i] ELSE z[i - 2]
      <4>1. u \in Seq(Octet) /\ z \in Seq(Octet)
        BY <2>2, <3>1
      <4>2. /\ c \in Seq(Octet) /\ Len(c) = Len(u) + Len(z)
            /\ \A i \in 1 .. Len(u) + Len(z) :
                 c[i] = IF i <= Len(u) THEN u[i] ELSE z[i - Len(u)]
        BY <4>1, ConcatProperties
      <4>3. Len(u) = 2 /\ Len(z) = 2
        BY <2>2, <3>1
      <4> HIDE DEF c
      <4> QED BY <4>2, <4>3
    <3> HIDE DEF c
    <3>3. c[1] = v[1] /\ c[2] = v[2] /\ c[3] = v[3] /\ c[4] = v[4]
      BY <2>1, <2>2, <3>1, <3>2
    <3>4. \A i \in 1 .. Len(c) : c[i] = v[i]
      BY <3>2, <3>3
    <3>5. c = v
      BY <2>1, <3>2, <3>4, SeqEqual
    <3> QED BY <3>5 DEF c, z
  <2> QED BY <1>1, <2>1, <2>2, <2>3, <2>4, <2>5, ReverseType
<1>2. CASE f.k \in {"num", "len", "count"}
  BY <1>2, ReverseType, ReverseTwice DEF IsFinal, ToWire, FromWire
<1>3. CASE f.k \in {"octets", "le", "flags", "reserved"}
  BY <1>3 DEF IsFinal, ToWire, FromWire
<1>4. CASE f.k = "body"
  <2>1. v \in Seq(Octet) /\ Len(v) \in Nat
    BY DEF IsFinal
  <2>2. ToWire(f, v) = SubSeq(v, 1, Cut16(Len(v)))
    BY <1>4 DEF ToWire
  <2>3. Len(v) < 65536 => ToWire(f, v) = v
    <3>1. SubSeq(v, 1, Len(v)) = v
      BY <2>1, WholeFront
    <3> QED BY <2>1, <2>2, <3>1, Cut16Type
  <2>4. FromWire(f, ToWire(f, v)) = ToWire(f, v)
    BY <1>4 DEF FromWire
  <2>5. ToWire(f, v) \in Seq(Octet) /\ Len(ToWire(f, v)) = Cut16(Len(v))
    BY <2>1, <2>2, CutType
  <2> QED BY <1>4, <2>3, <2>4, <2>5
<1> QED BY <1>1, <1>2, <1>3, <1>4 DEF SentKinds, PlainKinds

-----------------------------------------------------------------------------
(* Places *)

(* The fields and values of the head (r = 0) and of record r. *)
FieldsOf(t, r) == IF r = 0 THEN Layout[t].head ELSE Layout[t].rec
ValuesIn(s, r) == IF r = 0 THEN s.head ELSE s.recs[r]
TakesOf(t, s, r) == Takes(FieldsOf(t, r), ValuesIn(s, r))

(* Where the head or record r begins on the wire, and field p of it. *)
Begin(t, s, r) == IF r = 0 THEN 0 ELSE End(Layout[t].head, s.head) + RecEnds(t, s)[r - 1]
At(t, s, r, p) == Begin(t, s, r) + Ends(TakesOf(t, s, r))[p - 1]

(* The part of a structure with number r. *)
LEMMA PartOf ==
  ASSUME NEW t, NEW s, Sendable(t, s), NEW r \in 0 .. Len(s.recs)
  PROVE  /\ IsLayout(FieldsOf(t, r)) /\ HasShape(ValuesIn(s, r), FieldsOf(t, r))
         /\ Kinds(FieldsOf(t, r)) \subseteq SentKinds
         /\ \A i \in 1 .. Len(FieldsOf(t, r)) :
              ValuesIn(s, r)[i] \in Seq(Octet) /\ Len(ValuesIn(s, r)[i]) \in Nat
<1>1. IsLayout(FieldsOf(t, r)) /\ Kinds(FieldsOf(t, r)) \subseteq SentKinds
  BY LayoutAssumption DEF Sendable, FieldsOf
<1>2. HasShape(ValuesIn(s, r), FieldsOf(t, r))
  <2>1. Len(s.recs) \in Nat
    BY DEF Sendable, IsStruct
  <2>2. r # 0 => r \in 1 .. Len(s.recs)
    BY <2>1
  <2> QED BY <2>2 DEF Sendable, IsStruct, FieldsOf, ValuesIn
<1>3. ASSUME NEW i \in 1 .. Len(FieldsOf(t, r))
      PROVE  ValuesIn(s, r)[i] \in Seq(Octet) /\ Len(ValuesIn(s, r)[i]) \in Nat
  <2>1. ValuesIn(s, r) \in Seq(Seq(Octet)) /\ i \in 1 .. Len(ValuesIn(s, r))
    BY <1>2 DEF HasShape
  <2>2. ValuesIn(s, r)[i] \in Seq(Octet)
    BY <2>1, ElementOfSeq
  <2> QED BY <2>2
<1> QED BY <1>1, <1>2, <1>3

(* The ends of the records. *)
LEMMA RecordEnds ==
  ASSUME NEW t, NEW s, Sendable(t, s)
  PROVE  LET e == RecEnds(t, s) IN
         /\ Len(s.recs) \in Nat /\ e[0] = 0
         /\ \A r \in 0 .. Len(s.recs) : e[r] \in Nat /\ e[r] <= e[Len(s.recs)]
         /\ \A r \in 1 .. Len(s.recs) :
              /\ End(Layout[t].rec, s.recs[r]) \in Nat
              /\ e[r] = e[r - 1] + End(Layout[t].rec, s.recs[r])
         /\ End(Layout[t].head, s.head) \in Nat
<1> DEFINE ns == [r \in 1 .. Len(s.recs) |-> End(Layout[t].rec, s.recs[r])]
           e == Ends(ns)
<1>1. Len(s.recs) \in Nat
  BY DEF Sendable, IsStruct
<1>2. ASSUME NEW r \in 0 .. Len(s.recs)
      PROVE  End(FieldsOf(t, r), ValuesIn(s, r)) \in Nat
  BY PartOf, FieldEnds
<1>3. \A r \in 1 .. Len(s.recs) : End(Layout[t].rec, s.recs[r]) \in Nat
  <2> TAKE r \in 1 .. Len(s.recs)
  <2>1. r \in 0 .. Len(s.recs) /\ r # 0
    BY <1>1
  <2> QED BY <1>2, <2>1 DEF FieldsOf, ValuesIn
<1>4. End(Layout[t].head, s.head) \in Nat
  <2>1. 0 \in 0 .. Len(s.recs)
    BY <1>1
  <2>2. FieldsOf(t, 0) = Layout[t].head /\ ValuesIn(s, 0) = s.head
    BY DEF FieldsOf, ValuesIn
  <2> QED BY <1>2, <2>1, <2>2
<1>5. ns \in Seq(Nat) /\ Len(ns) = Len(s.recs)
  BY <1>1, <1>3
<1>6. \A r \in 1 .. Len(s.recs) : ns[r] = End(Layout[t].rec, s.recs[r])
  OBVIOUS
<1>7. RecEnds(t, s) = e
  BY DEF RecEnds
<1> HIDE DEF ns
<1>8. /\ e \in [0 .. Len(s.recs) -> Nat] /\ e[0] = 0
      /\ \A r \in 1 .. Len(s.recs) : e[r] = e[r - 1] + ns[r]
      /\ \A r \in 0 .. Len(s.recs) : e[r] <= e[Len(s.recs)]
  BY <1>5, EndsRule, EndsGrow
<1> HIDE DEF e
<1> QED BY <1>1, <1>3, <1>4, <1>6, <1>7, <1>8

(* The places follow each other without a gap, and none is behind the end. *)
LEMMA Places ==
  ASSUME NEW t, NEW s, Sendable(t, s), NEW r \in 0 .. Len(s.recs)
  PROVE  LET n == Len(FieldsOf(t, r)) IN
         /\ n \in Nat /\ Len(s.recs) \in Nat /\ StructEnd(t, s) \in Nat
         /\ \A p \in 1 .. n + 1 : At(t, s, r, p) \in Nat /\ At(t, s, r, p) <= StructEnd(t, s)
         /\ \A p \in 1 .. n : /\ TakesOf(t, s, r)[p] \in Nat
                              /\ At(t, s, r, p + 1) = At(t, s, r, p) + TakesOf(t, s, r)[p]
         /\ r = 0 => At(t, s, r, 1) = 0
         /\ r < Len(s.recs) => At(t, s, r, n + 1) = At(t, s, r + 1, 1)
         /\ r = Len(s.recs) => At(t, s, r, n + 1) = StructEnd(t, s)
<1> DEFINE fs == FieldsOf(t, r)
           n == Len(fs)
           f == Ends(TakesOf(t, s, r))
           e == RecEnds(t, s)
           h == End(Layout[t].head, s.head)
           m == Len(s.recs)
<1>1. /\ n \in Nat /\ f \in [0 .. n -> Nat] /\ f[0] = 0
      /\ \A p \in 1 .. n : /\ TakesOf(t, s, r)[p] \in Nat
                           /\ f[p] = f[p - 1] + TakesOf(t, s, r)[p]
                           /\ f[p] <= f[n]
      /\ End(fs, ValuesIn(s, r)) = f[n]
  BY PartOf, FieldEnds DEF TakesOf
<1>2. /\ m \in Nat /\ h \in Nat /\ e[0] = 0
      /\ \A i \in 0 .. m : e[i] \in Nat /\ e[i] <= e[m]
      /\ \A i \in 1 .. m : e[i] = e[i - 1] + End(Layout[t].rec, s.recs[i])
  BY RecordEnds
<1>3. StructEnd(t, s) = h + e[m]
  BY DEF StructEnd
<1>4. \A p : At(t, s, r, p) = Begin(t, s, r) + f[p - 1]
  BY DEF At
<1>5. /\ r = 0 => Begin(t, s, r) = 0 /\ f[n] = h
      /\ r # 0 => Begin(t, s, r) = h + e[r - 1] /\ e[r] = e[r - 1] + f[n]
  BY <1>1, <1>2 DEF Begin, FieldsOf, ValuesIn
<1>6. r < m => At(t, s, r + 1, 1) = h + e[r]
  <2>1. SUFFICES ASSUME r < m PROVE At(t, s, r + 1, 1) = h + e[r]
    OBVIOUS
  <2>2. r + 1 \in 0 .. m /\ r + 1 # 0 /\ (r + 1) - 1 = r
    BY <1>2, <2>1
  <2>3. Ends(TakesOf(t, s, r + 1))[0] = 0
    BY <2>2, PartOf, FieldEnds DEF TakesOf
  <2>4. h + e[r] \in Nat
    BY <1>2
  <2> QED BY <2>2, <2>3, <2>4 DEF At, Begin
<1> HIDE DEF f, e, h, m
<1>7. Begin(t, s, r) \in Nat /\ Begin(t, s, r) + f[n] = h + e[r]
  <2>1. e[r] \in Nat /\ f[n] \in Nat
    <3>1. n \in 0 .. n
      BY <1>1
    <3>2. r \in 0 .. m
      BY DEF m
    <3> HIDE DEF n
    <3> QED BY <1>1, <1>2, <3>1, <3>2
  <2>2. CASE r = 0
    BY <1>2, <1>5, <2>1, <2>2
  <2>3. CASE r # 0
    <3>1. r - 1 \in 0 .. m
      BY <1>2, <2>3 DEF m
    <3>2. e[r - 1] \in Nat
      BY <1>2, <3>1
    <3>3. Begin(t, s, r) = h + e[r - 1] /\ e[r] = e[r - 1] + f[n] /\ h \in Nat
      BY <1>2, <1>5, <2>3
    <3> HIDE DEF n
    <3> QED BY <2>1, <3>2, <3>3
  <2> QED BY <2>2, <2>3
<1>8. h + e[r] <= h + e[m] /\ h + e[m] \in Nat
  <2>1. r \in 0 .. m /\ m \in 0 .. m
    BY <1>2 DEF m
  <2>2. e[r] \in Nat /\ e[m] \in Nat /\ e[r] <= e[m]
    BY <1>2, <2>1
  <2> QED BY <1>2, <2>2
<1>9. ASSUME NEW p \in 1 .. n + 1
      PROVE  At(t, s, r, p) \in Nat /\ At(t, s, r, p) <= StructEnd(t, s)
  <2>1. p - 1 \in 0 .. n /\ (p - 1 # 0 => p - 1 \in 1 .. n)
    BY <1>1
  <2>2. f[p - 1] \in Nat /\ f[n] \in Nat
    BY <1>1, <2>1
  <2>3. f[p - 1] <= f[n]
    BY <1>1, <2>1, <2>2
  <2>4. At(t, s, r, p) = Begin(t, s, r) + f[p - 1]
    BY <1>4
  <2> HIDE DEF n
  <2>5. Begin(t, s, r) + f[p - 1] \in Nat /\ Begin(t, s, r) + f[p - 1] <= Begin(t, s, r) + f[n]
    BY <1>7, <2>2, <2>3
  <2>6. Begin(t, s, r) + f[n] <= StructEnd(t, s)
    BY <1>3, <1>7, <1>8
  <2>7. Begin(t, s, r) + f[n] \in Nat /\ StructEnd(t, s) \in Nat
    BY <1>3, <1>7, <1>8, <2>2
  <2> QED BY <2>4, <2>5, <2>6, <2>7
<1>10. ASSUME NEW p \in 1 .. n
       PROVE  /\ TakesOf(t, s, r)[p] \in Nat
              /\ At(t, s, r, p + 1) = At(t, s, r, p) + TakesOf(t, s, r)[p]
  <2>1. p - 1 \in 0 .. n /\ (p + 1) - 1 = p
    BY <1>1
  <2>2. /\ f[p - 1] \in Nat /\ TakesOf(t, s, r)[p] \in Nat
        /\ f[p] = f[p - 1] + TakesOf(t, s, r)[p]
    BY <1>1, <2>1
  <2>3. /\ At(t, s, r, p + 1) = Begin(t, s, r) + f[p]
        /\ At(t, s, r, p) = Begin(t, s, r) + f[p - 1]
    BY <1>4, <2>1
  <2> QED BY <1>7, <2>2, <2>3
<1>11. At(t, s, r, n + 1) = h + e[r]
  <2>1. (n + 1) - 1 = n
    BY <1>1
  <2> QED BY <1>4, <1>7, <2>1
<1>12. r = 0 => At(t, s, r, 1) = 0
  BY <1>1, <1>4, <1>5
<1>13. StructEnd(t, s) \in Nat
  BY <1>3, <1>8
<1> QED BY <1>1, <1>2, <1>3, <1>6, <1>9, <1>10, <1>11, <1>12, <1>13 DEF m

(* Structures with values of the same lengths have the same places. *)
LEMMA SamePlaces ==
  ASSUME NEW t, NEW s, NEW u, Len(s.recs) = Len(u.recs), Len(s.recs) \in Nat,
         \A r \in 0 .. Len(s.recs) : TakesOf(t, s, r) = TakesOf(t, u, r)
  PROVE  /\ \A r \in 0 .. Len(s.recs) : \A p : At(t, s, r, p) = At(t, u, r, p)
         /\ StructEnd(t, s) = StructEnd(t, u)
<1>1. Takes(Layout[t].head, s.head) = Takes(Layout[t].head, u.head)
  <2>1. 0 \in 0 .. Len(s.recs)
    OBVIOUS
  <2>2. TakesOf(t, s, 0) = TakesOf(t, u, 0)
    BY <2>1
  <2> QED BY <2>2 DEF TakesOf, FieldsOf, ValuesIn
<1>2. \A r \in 1 .. Len(s.recs) :
        Takes(Layout[t].rec, s.recs[r]) = Takes(Layout[t].rec, u.recs[r])
  <2> TAKE r \in 1 .. Len(s.recs)
  <2>1. r \in 0 .. Len(s.recs) /\ r # 0
    OBVIOUS
  <2>2. TakesOf(t, s, r) = TakesOf(t, u, r)
    BY <2>1
  <2> QED BY <2>1, <2>2 DEF TakesOf, FieldsOf, ValuesIn
<1>3. End(Layout[t].head, s.head) = End(Layout[t].head, u.head)
  BY <1>1 DEF End
<1>4. RecEnds(t, s) = RecEnds(t, u)
  <2>1. \A r \in 1 .. Len(s.recs) :
          End(Layout[t].rec, s.recs[r]) = End(Layout[t].rec, u.recs[r])
    BY <1>2 DEF End
  <2>2. [r \in 1 .. Len(s.recs) |-> End(Layout[t].rec, s.recs[r])]
        = [r \in 1 .. Len(u.recs) |-> End(Layout[t].rec, u.recs[r])]
    BY <2>1
  <2> QED BY <2>2 DEF RecEnds
<1>5. \A r : Begin(t, s, r) = Begin(t, u, r)
  BY <1>3, <1>4 DEF Begin
<1> QED BY <1>3, <1>4, <1>5 DEF At, StructEnd

-----------------------------------------------------------------------------
(* Writing *)

(* Field p of part r of a structure s is final and stands in the octets o. *)
Written(t, s, o, r, p) ==
  LET f == FieldsOf(t, r)[p]
      v == ValuesIn(s, r)[p]
  IN  /\ IsFinal(f, v)
      /\ f.k = "len" => v = Digits(Len(ValuesIn(s, r)[p + 1]), f.n)
      /\ f.k = "count" => v = Digits(Len(s.recs), f.n)
      /\ At(t, s, r, p + 1) <= Len(o)
      /\ SubSeq(o, At(t, s, r, p) + 1, At(t, s, r, p + 1)) = ToWire(f, v)

(* The fields before the cursor of build() are written, and the cursor is where the
   next one has its place. *)
WrittenSoFar ==
  /\ pos <= Len(Fields) + 1
  /\ m_cur = At(tlv, d, rec, pos) /\ Len(buf) = m_cur
  /\ \A r \in 0 .. rec : \A p \in 1 .. Len(FieldsOf(tlv, r)) :
       r < rec \/ p < pos => Written(tlv, d, buf, r, p)

BuildInv ==
  op = "build" =>
    /\ Sendable(tlv, d)
    /\ pc = "run" => WrittenSoFar
    /\ pc = "idle" => (SizesAgree => PlanIsKept)

(* What build() wrote last: all fields, and an octet more where their end is odd. *)
SentInv ==
  sent.octets # << >> =>
    /\ Sendable(sent.tlv, sent)
    /\ Len(sent.octets) = Even(StructEnd(sent.tlv, sent))
    /\ \A r \in 0 .. Len(sent.recs) : \A p \in 1 .. Len(FieldsOf(sent.tlv, r)) :
         Written(sent.tlv, sent, sent.octets, r, p)

(* The part of the structure at which build() is. *)
LEMMA AtWork ==
  ASSUME Inv, BuildInv, pc = "run", op = "build"
  PROVE  /\ Sendable(tlv, d) /\ WrittenSoFar /\ rec \in 0 .. Len(d.recs)
         /\ Fields = FieldsOf(tlv, rec) /\ Values = ValuesIn(d, rec)
         /\ pos \in 1 .. Len(Fields) + 1 /\ Len(Fields) \in Nat
<1>1. Sendable(tlv, d) /\ WrittenSoFar
  BY DEF BuildInv
<1>2. rec \in Nat /\ rec <= Len(d.recs) /\ pos \in Nat \ {0}
  BY DEF Inv, BuildOK, CodecTypeOK
<1>3. Len(d.recs) \in Nat
  BY <1>1 DEF Sendable, IsStruct
<1>4. rec \in 0 .. Len(d.recs)
  BY <1>2, <1>3
<1>5. Fields = FieldsOf(tlv, rec) /\ Values = ValuesIn(d, rec)
  BY DEF Fields, FieldsOf, Values, ValuesIn
<1>6. Len(Fields) \in Nat
  BY <1>1, <1>4, <1>5, PartOf DEF IsLayout
<1> QED BY <1>1, <1>2, <1>4, <1>5, <1>6 DEF WrittenSoFar

(* The value that is written into a field is final, and a text stays what it is. *)
LEMMA FinalValue ==
  ASSUME Inv, BuildInv, pc = "run", op = "build", pos <= Len(Fields), ~TooLarge
  PROVE  /\ IsFinal(f0, ToWrite) /\ f0.k \in SentKinds
         /\ f0.k \notin {"len", "count", "reserved", "flags"} => ToWrite = Values[pos]
         /\ f0.k = "len" => ToWrite = Digits(Len(Values[pos + 1]), f0.n)
         /\ f0.k = "count" => ToWrite = Digits(Len(d.recs), f0.n)
         /\ Need = TakesOf(tlv, d, rec)[pos] /\ Moved = Need
<1>1. /\ Sendable(tlv, d) /\ rec \in 0 .. Len(d.recs)
      /\ Fields = FieldsOf(tlv, rec) /\ Values = ValuesIn(d, rec)
  BY AtWork
<1>2. /\ IsLayout(Fields) /\ pos \in 1 .. Len(Fields) /\ f0 = Fields[pos]
      /\ HasShape(Values, Fields)
  BY NextField, WrittenValues DEF f0
<1>3. f0.k \in SentKinds
  BY <1>1, <1>2, PartOf DEF Kinds
<1>4. /\ f0.k \in {"num", "octets", "le", "flags"} => Len(Values[pos]) = f0.n
      /\ f0.k = "high16" => Len(Values[pos]) = 4 /\ f0.n = 2
      /\ f0.k \in {"reserved", "flags"} => f0.n = 1
      /\ f0.k \in {"len", "count"} => f0.n \in {1, 2}
      /\ f0.k = "len" => pos + 1 \in 1 .. Len(Fields)
  BY <1>2 DEF HasShape, IsLayout
<1>5. ToWrite \in Seq(Octet)
  BY WrittenType
<1>6. /\ f0.k \notin {"len", "count", "reserved", "flags"} => ToWrite = Values[pos]
      /\ f0.k = "len" => ToWrite = Digits(Len(Values[pos + 1]), f0.n)
      /\ f0.k = "count" => ToWrite = Digits(Len(d.recs), f0.n)
      /\ f0.k = "reserved" => ToWrite = <<0>>
      /\ f0.k = "flags" => ToWrite = <<Masked(f0, Values[pos][1])>>
  BY DEF ToWrite
<1>7. f0.k = "high16" => Values[pos][3] = 0 /\ Values[pos][4] = 0
  BY DEF TooLarge
<1>8. f0.k \in {"len", "count"} => Len(ToWrite) = f0.n
  <2>1. f0.k = "len" => Len(Values[pos + 1]) \in Nat
    BY <1>1, <1>4, PartOf
  <2>2. Len(d.recs) \in Nat
    BY <1>1 DEF Sendable, IsStruct
  <2> QED BY <1>4, <1>6, <2>1, <2>2, DigitsBack
<1>9. f0.k \in {"reserved", "flags"} => Len(ToWrite) = f0.n
  BY <1>4, <1>6
<1>10. IsFinal(f0, ToWrite)
  BY <1>4, <1>5, <1>6, <1>7, <1>8, <1>9 DEF IsFinal
<1>11. TakesOf(tlv, d, rec)[pos] = IF f0.k = "body" THEN Cut16(Len(Values[pos])) ELSE f0.n
  BY <1>1, <1>2 DEF TakesOf, Takes
<1>12. Need = TakesOf(tlv, d, rec)[pos] /\ Moved = Need
  BY <1>3, <1>11 DEF Need, Moved, FieldLen, SentKinds, PlainKinds
<1> QED BY <1>3, <1>6, <1>10, <1>12

(* Fields that stand in the octets stay there when others are added behind them, and
   when values are changed that are not theirs. *)
LEMMA StaysWritten ==
  ASSUME NEW t, NEW s, Sendable(t, s), NEW u,
         NEW r \in 0 .. Len(s.recs), NEW p \in 1 .. Len(FieldsOf(t, r)),
         NEW o \in Seq(Octet), NEW w \in Seq(Octet), Len(o) <= Len(w),
         \A i \in 1 .. Len(o) : o[i] = w[i],
         Written(t, s, o, r, p),
         ValuesIn(u, r)[p] = ValuesIn(s, r)[p],
         FieldsOf(t, r)[p].k = "len" => ValuesIn(u, r)[p + 1] = ValuesIn(s, r)[p + 1],
         Len(u.recs) = Len(s.recs),
         \A q : At(t, u, r, q) = At(t, s, r, q)
  PROVE  Written(t, u, w, r, p)
<1> DEFINE a == At(t, s, r, p)
           b == At(t, s, r, p + 1)
<1>1. a \in Nat /\ b \in Nat /\ b <= Len(o)
  <2>1. Len(FieldsOf(t, r)) \in Nat
    BY PartOf DEF IsLayout
  <2>2. p \in 1 .. Len(FieldsOf(t, r)) + 1 /\ p + 1 \in 1 .. Len(FieldsOf(t, r)) + 1
    BY <2>1
  <2> QED BY <2>2, Places DEF Written
<1>2. Len(o) \in Nat /\ Len(w) \in Nat /\ b <= Len(w)
  BY <1>1
<1> HIDE DEF a, b
<1>3. SubSeq(w, a + 1, b) = SubSeq(o, a + 1, b)
  <2>1. /\ a + 1 \in Nat /\ a + 1 >= 1 /\ Len(o) <= Len(o)
        /\ \A i \in 1 .. Len(o) : w[i] = o[i]
    BY <1>1, <1>2
  <2> QED BY <1>1, <1>2, <2>1, SameFront
<1>4. At(t, u, r, p) = a /\ At(t, u, r, p + 1) = b
  BY DEF a, b
<1> QED BY <1>2, <1>3, <1>4 DEF Written, a, b

(* Writing a field. *)
LEMMA BuildWrites ==
  ASSUME Inv, Inv', BuildInv, op = "build", ProcWrites
  PROVE  BuildInv'
<1>1. pc = "run" /\ pos <= Len(Fields) /\ op' = op /\ tlv' = tlv
  BY DEF ProcWrites, Fail
<1>2. /\ Sendable(tlv, d) /\ WrittenSoFar /\ rec \in 0 .. Len(d.recs)
      /\ Fields = FieldsOf(tlv, rec) /\ Values = ValuesIn(d, rec)
      /\ pos \in 1 .. Len(Fields) /\ Len(Fields) \in Nat
  BY <1>1, AtWork
<1>t. /\ m_cur \in Nat /\ m_left \in Int /\ room \in Nat /\ m_cur + m_left = room
      /\ buf \in Seq(Octet) /\ rec \in Nat
  BY DEF Inv, CodecTypeOK
<1>p. /\ m_cur = At(tlv, d, rec, pos) /\ TakesOf(tlv, d, rec)[pos] \in Nat
      /\ At(tlv, d, rec, pos + 1) = m_cur + TakesOf(tlv, d, rec)[pos]
      /\ At(tlv, d, rec, pos + 1) <= StructEnd(tlv, d) /\ At(tlv, d, rec, pos + 1) \in Nat
      /\ StructEnd(tlv, d) \in Nat
  <2>1. pos + 1 \in 1 .. Len(Fields) + 1
    BY <1>2
  <2> QED BY <1>2, <2>1, Places DEF WrittenSoFar
<1>3. CASE TooLarge
  <2>1. pc' = "idle" /\ ret' = "VAL" /\ d' = d
    BY <1>3 DEF ProcWrites, Fail
  <2> QED BY <1>1, <1>2, <2>1 DEF BuildInv, PlanIsKept
<1>4. CASE ~TooLarge /\ m_left < Need
  <2>1. pc' = "idle" /\ ret' = "TOO_SMALL" /\ d' = d /\ room' = room
    BY <1>4 DEF ProcWrites, Fail
  <2>2. room < Even(StructEnd(tlv, d))
    <3>1. Need = TakesOf(tlv, d, rec)[pos]
      BY <1>1, <1>4, FinalValue
    <3>2. room < StructEnd(tlv, d)
      BY <1>4, <1>t, <1>p, <3>1
    <3> QED BY <1>t, <1>p, <3>2 DEF Even
  <2>3. SizesAgree' => PlanIsKept'
    <3>1. SUFFICES ASSUME SizesAgree', Short(tlv', d') PROVE PlanIsKept'
      BY DEF PlanIsKept
    <3>2. Planned([tlv |-> tlv', head |-> d'.head, recs |-> d'.recs])
          = Even(StructEnd(tlv', d'))
      BY <1>1, <1>2, <3>1 DEF SizesAgree, Sendable
    <3> QED BY <1>1, <2>1, <2>2, <3>2 DEF PlanIsKept
  <2> QED BY <1>1, <1>2, <2>1, <2>3 DEF BuildInv
<1>5. CASE ~TooLarge /\ ~(m_left < Need)
  <2> DEFINE w == ToWire(f0, ToWrite)
  <2>1. /\ d' = WithValues([Values EXCEPT ![pos] = ToWrite]) /\ buf' = buf \o w
        /\ Move(Moved) /\ pos' = pos + 1 /\ pc' = pc /\ rec' = rec
    BY <1>1, <1>5 DEF ProcWrites
  <2>2. /\ IsFinal(f0, ToWrite) /\ f0.k \in SentKinds
        /\ f0.k = "body" => ToWrite = Values[pos]
        /\ f0.k = "len" => ToWrite = Digits(Len(Values[pos + 1]), f0.n)
        /\ f0.k = "count" => ToWrite = Digits(Len(d.recs), f0.n)
        /\ Need = TakesOf(tlv, d, rec)[pos] /\ Moved = Need
    BY <1>1, <1>5, FinalValue
  <2> DEFINE vs == [Values EXCEPT ![pos] = ToWrite]
  <2>3. /\ Len(d'.recs) = Len(d.recs) /\ Len(d.recs) \in Nat
        /\ \A r \in 0 .. Len(d.recs) : ValuesIn(d', r) = IF r = rec THEN vs ELSE ValuesIn(d, r)
    <3> HIDE DEF vs
    <3>1. d = [head |-> d.head, recs |-> d.recs] /\ d.recs \in Seq(Seq(Seq(Octet)))
      BY <1>1, <1>2 DEF Inv, BuildOK, Sendable, IsStruct
    <3>2. Len(d.recs) \in Nat
      BY <3>1
    <3>3. CASE rec = 0
      <4>1. d' = [head |-> vs, recs |-> d.recs]
        BY <2>1, <3>1, <3>3 DEF WithValues, vs
      <4> QED BY <3>2, <3>3, <4>1 DEF ValuesIn
    <3>4. CASE rec # 0
      <4>1. d' = [head |-> d.head, recs |-> [d.recs EXCEPT ![rec] = vs]]
        BY <2>1, <3>1, <3>4 DEF WithValues, vs
      <4>2. vs \in Seq(Seq(Octet))
        BY <1>1, WrittenType DEF HasShape, vs
      <4>3. rec \in 1 .. Len(d.recs)
        BY <1>2, <3>2, <3>4
      <4>4. /\ Len(d'.recs) = Len(d.recs)
            /\ \A i \in 1 .. Len(d.recs) : d'.recs[i] = IF i = rec THEN vs ELSE d.recs[i]
        <5>1. d'.recs = [d.recs EXCEPT ![rec] = vs]
          BY <4>1
        <5> QED BY <3>1, <4>2, <4>3, <5>1, ExceptSeq
      <4>5. d'.head = d.head
        BY <4>1
      <4>6. \A r \in 0 .. Len(d.recs) : r # 0 => r \in 1 .. Len(d.recs)
        BY <3>2
      <4> QED BY <3>2, <3>4, <4>4, <4>5, <4>6 DEF ValuesIn
    <3> QED BY <3>3, <3>4
  <2>4. ASSUME NEW r \in 0 .. Len(d.recs), NEW p \in 1 .. Len(FieldsOf(tlv, r))
        PROVE  ValuesIn(d', r)[p] = IF r = rec /\ p = pos THEN ToWrite ELSE ValuesIn(d, r)[p]
    <3>1. r = rec => p \in DOMAIN Values
      BY <1>1, <1>2, WrittenValues DEF HasShape
    <3> QED BY <1>2, <2>3, <3>1
  <2>5. \A r \in 0 .. Len(d.recs) : TakesOf(tlv, d, r) = TakesOf(tlv, d', r)
    <3> TAKE r \in 0 .. Len(d.recs)
    <3>1. \A p \in 1 .. Len(FieldsOf(tlv, r)) :
            FieldsOf(tlv, r)[p].k = "body" => ValuesIn(d, r)[p] = ValuesIn(d', r)[p]
      BY <1>2, <2>2, <2>4 DEF f0
    <3> QED BY <3>1 DEF TakesOf, Takes
  <2>6. \A r \in 0 .. Len(d.recs) : \A p : At(tlv, d', r, p) = At(tlv, d, r, p)
    <3>1. Len(d.recs) = Len(d'.recs)
      BY <2>3
    <3>2. \A r \in 0 .. Len(d.recs) : \A p : At(tlv, d, r, p) = At(tlv, d', r, p)
      BY <2>3, <2>5, <3>1, SamePlaces
    <3> QED BY <3>2
  <2>7. Sendable(tlv, d')
    <3>1. IsStruct(tlv, d')
      BY <1>1, <2>1 DEF Inv, BuildOK
    <3>2. d.recs = << >> => d'.recs = << >>
      <4>1. d.recs = << >> => Len(d'.recs) = 0
        BY <2>3
      <4>2. d'.recs \in Seq(Seq(Seq(Octet)))
        BY <3>1 DEF IsStruct
      <4> QED BY <4>1, <4>2
    <3> QED BY <1>2, <3>1, <3>2 DEF Sendable
  <2>8. /\ w \in Seq(Octet) /\ Len(w) = Need
        /\ m_cur' = At(tlv, d, rec, pos + 1) /\ Len(buf') = m_cur' /\ Len(buf) = m_cur
    <3>1. w \in Seq(Octet) /\ Len(w) = IF f0.k = "body" THEN Cut16(Len(ToWrite)) ELSE f0.n
      BY <2>2, WireBack
    <3>2. Need = IF f0.k = "body" THEN Cut16(Len(ToWrite)) ELSE f0.n
      BY <1>2, <2>2 DEF TakesOf, Takes, f0
    <3>3. m_cur' = m_cur + Need
      BY <2>1, <2>2 DEF Move
    <3>4. Len(buf) = m_cur
      BY <1>2 DEF WrittenSoFar
    <3>5. Len(buf') = Len(buf) + Len(w)
      BY <1>t, <2>1, <3>1, ConcatProperties
    <3> HIDE DEF w
    <3> QED BY <1>p, <2>2, <3>1, <3>2, <3>3, <3>4, <3>5
  <2> HIDE DEF w, vs
  <2>9. WrittenSoFar'
    <3>1. pos' <= Len(Fields') + 1
      BY <1>1, <1>2, <2>1 DEF Fields
    <3>2. m_cur' = At(tlv', d', rec', pos')
      BY <1>1, <1>2, <2>1, <2>6, <2>8
    <3>3. buf' \in Seq(Octet) /\ Len(buf) <= Len(buf') /\ \A i \in 1 .. Len(buf) : buf[i] = buf'[i]
      <4>1. Len(w) \in Nat /\ Len(buf) \in Nat
        BY <1>t, <2>8
      <4>2. \A i \in 1 .. Len(buf) : i \in 1 .. Len(buf) + Len(w) /\ i <= Len(buf)
        BY <4>1
      <4> QED BY <1>t, <2>1, <2>8, <4>1, <4>2, ConcatProperties
    <3>4. ASSUME NEW r \in 0 .. rec, NEW p \in 1 .. Len(FieldsOf(tlv, r)),
                 r < rec \/ p < pos
          PROVE  Written(tlv, d', buf', r, p)
      <4>1. r \in 0 .. Len(d.recs)
        BY <1>2
      <4>2. Written(tlv, d, buf, r, p)
        BY <1>2, <3>4 DEF WrittenSoFar
      <4>3. r # rec \/ p # pos
        BY <1>2, <1>t, <3>4
      <4>4. ValuesIn(d', r)[p] = ValuesIn(d, r)[p]
        BY <2>4, <4>1, <4>3
      <4>5. FieldsOf(tlv, r)[p].k = "len" => ValuesIn(d', r)[p + 1] = ValuesIn(d, r)[p + 1]
        <5>1. SUFFICES ASSUME FieldsOf(tlv, r)[p].k = "len"
                       PROVE  ValuesIn(d', r)[p + 1] = ValuesIn(d, r)[p + 1]
          OBVIOUS
        <5>2. IsLayout(FieldsOf(tlv, r))
          BY <1>2, <4>1, PartOf
        <5>3. p + 1 \in 1 .. Len(FieldsOf(tlv, r)) /\ FieldsOf(tlv, r)[p + 1].k = "body"
          BY <5>1, <5>2 DEF IsLayout
        <5> QED BY <1>2, <2>2, <2>4, <4>1, <5>3 DEF f0
      <4>6. \A q : At(tlv, d', r, q) = At(tlv, d, r, q)
        BY <2>6, <4>1
      <4> QED BY <1>2, <1>t, <2>3, <3>3, <4>1, <4>2, <4>4, <4>5, <4>6, StaysWritten
    <3>5. Written(tlv, d', buf', rec, pos)
      <4>1. pos \in 1 .. Len(FieldsOf(tlv, rec)) /\ f0 = FieldsOf(tlv, rec)[pos]
        BY <1>2 DEF f0
      <4>2. ValuesIn(d', rec)[pos] = ToWrite
        BY <1>2, <2>4, <4>1
      <4>3. f0.k = "len" => ValuesIn(d', rec)[pos + 1] = Values[pos + 1]
        <5>1. SUFFICES ASSUME f0.k = "len" PROVE ValuesIn(d', rec)[pos + 1] = Values[pos + 1]
          OBVIOUS
        <5>2. IsLayout(FieldsOf(tlv, rec))
          BY <1>2, PartOf
        <5>3. pos + 1 \in 1 .. Len(FieldsOf(tlv, rec)) /\ pos + 1 # pos
          BY <4>1, <5>1, <5>2 DEF IsLayout
        <5> QED BY <1>2, <2>4, <5>3
      <4>4. /\ At(tlv, d', rec, pos) = Len(buf)
            /\ At(tlv, d', rec, pos + 1) = Len(buf) + Len(w) /\ Len(buf') = Len(buf) + Len(w)
        BY <1>2, <1>p, <2>2, <2>6, <2>8
      <4>5. SubSeq(buf', Len(buf) + 1, Len(buf) + Len(w)) = w
        BY <1>t, <2>1, <2>8, ConcatBack
      <4>6. Len(buf) + Len(w) <= Len(buf')
        BY <1>t, <2>8, <4>4
      <4> QED BY <2>2, <2>3, <4>1, <4>2, <4>3, <4>4, <4>5, <4>6 DEF Written, w
    <3>6. ASSUME NEW r \in 0 .. rec, NEW p \in 1 .. Len(FieldsOf(tlv, r)),
                 r < rec \/ p < pos + 1
          PROVE  Written(tlv, d', buf', r, p)
      <4>1. CASE r = rec /\ p = pos
        BY <3>5, <4>1
      <4>2. CASE ~(r = rec /\ p = pos)
        <5>1. r < rec \/ p < pos
          BY <1>2, <1>t, <3>6, <4>2
        <5> QED BY <3>4, <5>1
      <4> QED BY <4>1, <4>2
    <3> QED BY <1>1, <2>1, <2>8, <3>1, <3>2, <3>6 DEF WrittenSoFar
  <2> QED BY <1>1, <2>1, <2>7, <2>9 DEF BuildInv
<1> QED BY <1>3, <1>4, <1>5

(* Going on to the next record. *)
LEMMA BuildNextRecord ==
  ASSUME Inv, BuildInv, op = "build", NextRecord
  PROVE  BuildInv'
<1>1. /\ pc = "run" /\ pc' = "run" /\ op' = op /\ tlv' = tlv /\ d' = d /\ buf' = buf
      /\ m_cur' = m_cur /\ rec' = rec + 1 /\ pos' = 1 /\ pos > Len(Fields)
      /\ rec < Len(d.recs)
  BY DEF NextRecord, AnotherRecord
<1>2. /\ Sendable(tlv, d) /\ WrittenSoFar /\ rec \in 0 .. Len(d.recs)
      /\ Fields = FieldsOf(tlv, rec) /\ pos \in 1 .. Len(Fields) + 1 /\ Len(Fields) \in Nat
  BY <1>1, AtWork
<1>3. pos = Len(Fields) + 1
  BY <1>1, <1>2
<1>4. m_cur = At(tlv, d, rec + 1, 1)
  BY <1>1, <1>2, <1>3, Places DEF WrittenSoFar
<1>5. 1 <= Len(Fields') + 1
  <2>1. rec + 1 \in 0 .. Len(d.recs)
    <3>1. Len(d.recs) \in Nat
      BY <1>2 DEF Sendable, IsStruct
    <3> QED BY <1>1, <1>2, <3>1
  <2>2. Len(FieldsOf(tlv, rec + 1)) \in Nat
    BY <1>2, <2>1, Places
  <2>3. Fields' = FieldsOf(tlv, rec + 1)
    BY <1>1 DEF Fields, FieldsOf
  <2> QED BY <2>2, <2>3
<1>6. ASSUME NEW r \in 0 .. rec + 1, NEW p \in 1 .. Len(FieldsOf(tlv, r)), r < rec + 1 \/ p < 1
      PROVE  Written(tlv, d, buf, r, p)
  <2>1. r \in 0 .. rec
    BY <1>2, <1>6
  <2>2. r < rec \/ p < pos
    BY <1>2, <1>3, <2>1
  <2> QED BY <1>2, <2>1, <2>2 DEF WrittenSoFar
<1>7. WrittenSoFar'
  BY <1>1, <1>2, <1>4, <1>5, <1>6 DEF WrittenSoFar
<1> QED BY <1>1, <1>2, <1>7 DEF BuildInv

(* The end of build(): the octet more, and what is kept of it. *)
LEMMA BuildEnds ==
  ASSUME Inv, BuildInv, SentInv, EndBuild
  PROVE  BuildInv' /\ SentInv'
<1>1. /\ pc = "run" /\ pc' = "idle" /\ op = "build" /\ op' = op /\ tlv' = tlv /\ d' = d
      /\ room' = room /\ pos > Len(Fields) /\ ~AnotherRecord
  BY DEF EndBuild, Finished, Fail
<1>2. /\ Sendable(tlv, d) /\ WrittenSoFar /\ rec \in 0 .. Len(d.recs)
      /\ Fields = FieldsOf(tlv, rec) /\ pos \in 1 .. Len(Fields) + 1 /\ Len(Fields) \in Nat
  BY <1>1, AtWork
<1>t. /\ m_cur \in Nat /\ m_left \in Int /\ room \in Nat /\ m_cur + m_left = room
      /\ buf \in Seq(Octet) /\ m_size = m_cur
  BY DEF Inv, CodecTypeOK
<1>3. pos = Len(Fields) + 1
  BY <1>1, <1>2
<1>4. rec = Len(d.recs)
  <2>1. Layout[tlv].list = "none" => Len(d.recs) = 0
    BY <1>2 DEF Sendable
  <2>2. Layout[tlv].list # "none" => ~(rec < Len(d.recs))
    BY <1>1 DEF AnotherRecord
  <2>3. Len(d.recs) \in Nat
    BY <1>2 DEF Sendable, IsStruct
  <2> QED BY <1>2, <2>1, <2>2, <2>3
<1>5. m_cur = StructEnd(tlv, d) /\ Len(buf) = m_cur
  BY <1>2, <1>3, <1>4, Places DEF WrittenSoFar
<1>6. SizesAgree' /\ Short(tlv', d') =>
        Planned([tlv |-> tlv', head |-> d'.head, recs |-> d'.recs]) = Even(m_cur)
  BY <1>1, <1>2, <1>5 DEF SizesAgree, Sendable
<1>7. CASE m_size % 2 = 1 /\ m_left < 1
  <2>1. ret' = "TOO_SMALL" /\ sent' = sent
    BY <1>7 DEF EndBuild, Fail
  <2>2. room < Even(m_cur)
    BY <1>7, <1>t DEF Even
  <2> QED BY <1>1, <1>2, <1>6, <2>1, <2>2 DEF BuildInv, SentInv, PlanIsKept
<1>8. CASE ~(m_size % 2 = 1 /\ m_left < 1)
  <2>1. /\ buf' = IF m_cur % 2 = 1 THEN Append(buf, 0) ELSE buf
        /\ m_size' = m_cur + (m_cur % 2)
        /\ sent' = [tlv |-> tlv, head |-> d.head, recs |-> d.recs, octets |-> buf']
    BY <1>8, <1>t DEF EndBuild, Move
  <2>2. m_cur % 2 \in {0, 1}
    BY <1>t
  <2>3. /\ buf' \in Seq(Octet) /\ Len(buf') = Even(m_cur) /\ Len(buf) <= Len(buf')
        /\ \A i \in 1 .. Len(buf) : buf[i] = buf'[i]
    <3>1. CASE m_cur % 2 = 0
      <4>1. buf' = buf
        BY <2>1, <3>1
      <4>2. Even(m_cur) = m_cur
        BY <1>t, <3>1 DEF Even
      <4> QED BY <1>5, <1>t, <4>1, <4>2
    <3>2. CASE m_cur % 2 = 1
      <4>1. 0 \in Octet
        BY DEF Octet
      <4>2. buf' = Append(buf, 0)
        BY <2>1, <3>2
      <4>3. /\ buf' \in Seq(Octet) /\ Len(buf') = Len(buf) + 1
            /\ \A i \in 1 .. Len(buf) : buf[i] = buf'[i]
        BY <1>t, <4>1, <4>2, AppendProperties
      <4> QED BY <1>5, <1>t, <3>2, <4>3 DEF Even
    <3> QED BY <2>2, <3>1, <3>2
  <2>4. SizesAgree' => PlanIsKept'
    <3>1. m_size' = Even(m_cur)
      BY <2>1 DEF Even
    <3>2. ret' = "OK"
      BY <1>8 DEF EndBuild
    <3> QED BY <1>6, <2>3, <3>1, <3>2 DEF PlanIsKept
  <2>5. ASSUME NEW r \in 0 .. Len(d.recs), NEW p \in 1 .. Len(FieldsOf(tlv, r))
        PROVE  Written(tlv, sent', buf', r, p)
    <3>1. r < rec \/ p < pos
      BY <1>2, <1>3, <1>4
    <3>2. Written(tlv, d, buf, r, p)
      BY <1>2, <1>4, <3>1 DEF WrittenSoFar
    <3>3. sent'.recs = d.recs /\ ValuesIn(sent', r) = ValuesIn(d, r)
      BY <2>1 DEF ValuesIn
    <3>4. \A q : At(tlv, sent', r, q) = At(tlv, d, r, q)
      BY <2>1, <3>3 DEF At, Begin, RecEnds, TakesOf
    <3> QED BY <1>2, <1>t, <2>3, <3>2, <3>3, <3>4, StaysWritten
  <2>6. Sendable(tlv, sent') /\ StructEnd(tlv, sent') = StructEnd(tlv, d)
    BY <1>2, <2>1 DEF Sendable, IsStruct, StructEnd, RecEnds
  <2>7. SentInv'
    BY <1>5, <2>1, <2>3, <2>5, <2>6 DEF SentInv
  <2> QED BY <1>1, <1>2, <2>4, <2>7 DEF BuildInv
<1> QED BY <1>7, <1>8

(* Calling build(). *)
LEMMA BuildStart ==
  ASSUME Inv, Inv', BuildAny
  PROVE  BuildInv' /\ SentInv'
<1>1. PICK t, s, r :
        /\ Sendable(t, s)
        /\ Start("build", t, [head |-> s.head, recs |-> s.recs], << >>, r)
        /\ sent' = Nothing
  BY DEF BuildAny
<1>2. /\ pc' = "run" /\ op' = "build" /\ tlv' = t /\ rec' = 0 /\ pos' = 1 /\ m_cur' = 0
      /\ d' = [head |-> s.head, recs |-> s.recs] /\ buf' = << >>
  BY <1>1 DEF Start
<1>3. Sendable(tlv', d')
  BY <1>1, <1>2 DEF Sendable, IsStruct
<1>4. Len(d'.recs) \in Nat
  BY <1>3 DEF Sendable, IsStruct
<1>5. Fields' = FieldsOf(tlv', 0)
  BY <1>2 DEF Fields, FieldsOf
<1>6. At(tlv', d', 0, 1) = 0 /\ Len(Fields') \in Nat
  <2>1. 0 \in 0 .. Len(d'.recs)
    BY <1>4
  <2> QED BY <1>3, <1>5, <2>1, Places
<1>7. WrittenSoFar'
  BY <1>2, <1>5, <1>6 DEF WrittenSoFar
<1> QED BY <1>1, <1>2, <1>3, <1>7 DEF BuildInv, SentInv, Nothing

-----------------------------------------------------------------------------
(* Reading *)

(* parse() has read the fields before its cursor as they were sent, and the cursor is
   where the next one has its place. A length that was read is that of the text behind
   it, a count that of the list. *)
ReadSoFar ==
  /\ rec <= Len(sent.recs) /\ pos <= Len(Fields) + 1
  /\ m_cur = At(tlv, sent, rec, pos)
  /\ d = [head |-> IF rec = 0 THEN SubSeq(sent.head, 1, pos - 1) ELSE sent.head,
          recs |-> IF rec = 0 THEN << >>
                   ELSE Append(SubSeq(sent.recs, 1, rec - 1), SubSeq(sent.recs[rec], 1, pos - 1))]
  /\ pos > 1 /\ Fields[pos - 1].k = "len" => len = Len(ValuesIn(sent, rec)[pos])
  /\ rec # 0 \/ (\E i \in 1 .. pos - 1 : Fields[i].k = "count") => cnt = Len(sent.recs)

ParseInv ==
  op = "parse" =>
    /\ sent.octets # << >> /\ tlv = sent.tlv
    /\ room \in 1 .. Len(sent.octets) /\ room % 2 = 0
    /\ buf = SubSeq(sent.octets, 1, room)
    /\ Fits(tlv, sent) => IF pc = "run" THEN ReadSoFar ELSE RoundTrip /\ TruncatedRejected

(* The part of what was sent at which parse() is. *)
LEMMA ReadsWhere ==
  ASSUME Inv, SentInv, ParseInv, pc = "run", op = "parse", Fits(tlv, sent)
  PROVE  /\ Sendable(tlv, sent) /\ ReadSoFar /\ rec \in 0 .. Len(sent.recs)
         /\ Fields = FieldsOf(tlv, rec) /\ IsLayout(Fields)
         /\ pos \in 1 .. Len(Fields) + 1 /\ Len(Fields) \in Nat /\ Len(sent.recs) \in Nat
         /\ ValuesIn(sent, rec) \in Seq(Seq(Octet))
         /\ Len(ValuesIn(sent, rec)) = Len(Fields)
         /\ sent.head \in Seq(Seq(Octet)) /\ sent.recs \in Seq(Seq(Seq(Octet)))
         /\ Values = SubSeq(ValuesIn(sent, rec), 1, pos - 1)
<1>1. Sendable(tlv, sent) /\ ReadSoFar
  BY DEF SentInv, ParseInv
<1>2. sent.head \in Seq(Seq(Octet)) /\ sent.recs \in Seq(Seq(Seq(Octet))) /\ Len(sent.recs) \in Nat
  BY <1>1 DEF Sendable, IsStruct, HasShape
<1>3. rec \in 0 .. Len(sent.recs) /\ pos \in Nat \ {0}
  BY <1>1, <1>2 DEF Inv, CodecTypeOK, ReadSoFar
<1>4. Fields = FieldsOf(tlv, rec)
  BY DEF Fields, FieldsOf
<1>5. IsLayout(Fields) /\ HasShape(ValuesIn(sent, rec), Fields)
  BY <1>1, <1>3, <1>4, PartOf
<1>6. Len(Fields) \in Nat
  BY <1>5 DEF IsLayout
<1>7. Values = SubSeq(ValuesIn(sent, rec), 1, pos - 1)
  <2>1. CASE rec = 0
    BY <1>1, <2>1 DEF ReadSoFar, Values, ValuesIn
  <2>2. CASE rec # 0
    <3> DEFINE q == SubSeq(sent.recs, 1, rec - 1)
               x == SubSeq(sent.recs[rec], 1, pos - 1)
    <3>1. d.recs = Append(q, x)
      BY <1>1, <2>2 DEF ReadSoFar
    <3>2. rec - 1 \in 0 .. Len(sent.recs) /\ rec \in Nat
      BY <1>2, <1>3, <2>2
    <3>3. q \in Seq(Seq(Seq(Octet))) /\ Len(q) = rec - 1
      BY <1>2, <3>2, FrontType
    <3> HIDE DEF q, x
    <3>4. Len(q) + 1 = rec
      BY <3>2, <3>3
    <3>5. d.recs[rec] = x
      BY <3>1, <3>3, <3>4
    <3> QED BY <2>2, <3>5 DEF Values, ValuesIn, x
  <2> QED BY <2>1, <2>2
<1> QED BY <1>1, <1>2, <1>3, <1>4, <1>5, <1>6, <1>7 DEF ReadSoFar, HasShape

(* The next field, as it was sent, is what parse() reads. *)
LEMMA ReadsWhatWasSent ==
  ASSUME Inv, SentInv, ParseInv, pc = "run", op = "parse", Fits(tlv, sent), pos <= Len(Fields)
  PROVE  LET v == ValuesIn(sent, rec)[pos] IN
         /\ pos \in 1 .. Len(Fields) /\ ~FaultMismatch /\ Need \in Nat /\ Moved = Need
         /\ Need = FieldLen
         /\ At(tlv, sent, rec, pos + 1) = m_cur + Need
         /\ m_cur + Need <= Len(sent.octets)
         /\ m_cur + Need <= room => FromWire(f0, SubSeq(buf, m_cur + 1, m_cur + Need)) = v
         /\ f0.k = "len" => Value(v) = Len(ValuesIn(sent, rec)[pos + 1])
         /\ f0.k = "count" => Value(v) = Len(sent.recs)
<1>1. /\ Sendable(tlv, sent) /\ ReadSoFar /\ rec \in 0 .. Len(sent.recs)
      /\ Fields = FieldsOf(tlv, rec) /\ IsLayout(Fields) /\ Len(Fields) \in Nat
      /\ pos \in 1 .. Len(Fields) /\ f0 = Fields[pos] /\ Len(sent.recs) \in Nat
  BY ReadsWhere DEF f0
<1>t. /\ m_cur \in Nat /\ room \in Nat /\ sent.octets \in Seq(Octet)
      /\ tlv = sent.tlv /\ room <= Len(sent.octets) /\ buf = SubSeq(sent.octets, 1, room)
      /\ m_cur = At(tlv, sent, rec, pos)
  BY <1>1 DEF Inv, CodecTypeOK, ParseInv, ReadSoFar
<1> DEFINE v == ValuesIn(sent, rec)[pos]
<1>2. Written(tlv, sent, sent.octets, rec, pos)
  BY <1>1, <1>t DEF SentInv, ParseInv
<1>3. /\ IsFinal(f0, v)
      /\ f0.k = "len" => v = Digits(Len(ValuesIn(sent, rec)[pos + 1]), f0.n)
      /\ f0.k = "count" => v = Digits(Len(sent.recs), f0.n)
      /\ At(tlv, sent, rec, pos + 1) <= Len(sent.octets)
      /\ SubSeq(sent.octets, m_cur + 1, At(tlv, sent, rec, pos + 1)) = ToWire(f0, v)
  BY <1>1, <1>2, <1>t DEF Written
<1>4. f0.k \in SentKinds
  BY <1>1, PartOf DEF Kinds
<1>f. FieldsFit(Fields, ValuesIn(sent, rec))
  <2>1. rec # 0 => rec \in 1 .. Len(sent.recs)
    BY <1>1
  <2> QED BY <1>1, <2>1 DEF Fits, FieldsOf, ValuesIn
<1>b. f0.k = "body" => len = Len(v) /\ Cut16(Len(v)) = Len(v) /\ Len(v) < 65536
  <2>1. SUFFICES ASSUME f0.k = "body"
                 PROVE  len = Len(v) /\ Cut16(Len(v)) = Len(v) /\ Len(v) < 65536
    OBVIOUS
  <2>2. pos > 1 /\ Fields[pos - 1].k = "len" /\ pos - 1 \in 1 .. Len(Fields)
        /\ (pos - 1) + 1 = pos
    BY <1>1, <2>1 DEF IsLayout
  <2>3. len = Len(v)
    BY <1>1, <2>2 DEF ReadSoFar
  <2>4. Len(v) < Reach(Fields[pos - 1].n)
    BY <1>f, <2>2 DEF FieldsFit
  <2>5. Len(v) \in Nat
    BY <1>3 DEF IsFinal
  <2>6. Len(v) < 65536
    BY <2>4, <2>5 DEF Reach
  <2> HIDE DEF v
  <2> QED BY <2>3, <2>5, <2>6, Cut16Type
<1>5. Need = TakesOf(tlv, sent, rec)[pos] /\ Moved = Need /\ Need = FieldLen /\ ~FaultMismatch
  <2>1. TakesOf(tlv, sent, rec)[pos] = IF f0.k = "body" THEN Cut16(Len(v)) ELSE f0.n
    BY <1>1 DEF TakesOf, Takes
  <2>2. f0.k \notin {"tail", "float", "fault"}
    BY <1>4 DEF SentKinds, PlainKinds
  <2>3. ~FaultMismatch
    BY <2>2 DEF FaultMismatch
  <2>4. FieldLen = TakesOf(tlv, sent, rec)[pos]
    <3>1. CASE f0.k = "body"
      <4>1. FieldLen = len
        BY <3>1 DEF FieldLen
      <4>2. len = Cut16(Len(v))
        BY <1>b, <3>1
      <4> HIDE DEF v
      <4> QED BY <2>1, <3>1, <4>1, <4>2
    <3>2. CASE f0.k # "body"
      BY <2>1, <2>2, <3>2 DEF FieldLen
    <3> QED BY <3>1, <3>2
  <2> QED BY <2>2, <2>3, <2>4 DEF Need, Moved
<1>6. Need \in Nat /\ At(tlv, sent, rec, pos + 1) = m_cur + Need
  <2>1. pos \in 1 .. Len(FieldsOf(tlv, rec))
    BY <1>1
  <2>2. /\ TakesOf(tlv, sent, rec)[pos] \in Nat
        /\ At(tlv, sent, rec, pos + 1) = At(tlv, sent, rec, pos) + TakesOf(tlv, sent, rec)[pos]
    BY <1>1, <2>1, Places
  <2>3. Need = TakesOf(tlv, sent, rec)[pos] /\ m_cur = At(tlv, sent, rec, pos)
    BY <1>5, <1>t
  <2> QED BY ONLY <2>2, <2>3
<1>7. ASSUME m_cur + Need <= room
      PROVE  FromWire(f0, SubSeq(buf, m_cur + 1, m_cur + Need)) = v
  <2>1. /\ buf \in Seq(Octet) /\ Len(buf) = room
        /\ \A i \in 1 .. room : buf[i] = sent.octets[i]
    <3>1. Len(sent.octets) \in Nat
      BY <1>t
    <3>2. room \in 0 .. Len(sent.octets)
      BY <1>t, <3>1
    <3> QED BY <1>t, <3>2, FrontType
  <2>2. SubSeq(buf, m_cur + 1, m_cur + Need) = SubSeq(sent.octets, m_cur + 1, m_cur + Need)
    <3> DEFINE a == m_cur + 1
               b == m_cur + Need
    <3>1. a \in Nat /\ a >= 1 /\ b \in Nat /\ b <= room /\ room <= Len(buf)
      BY <1>6, <1>7, <1>t, <2>1
    <3> HIDE DEF a, b
    <3>2. SubSeq(buf, a, b) = SubSeq(sent.octets, a, b)
      BY <1>t, <2>1, <3>1, SameFront
    <3> QED BY <3>2 DEF a, b
  <2>3. SubSeq(sent.octets, m_cur + 1, m_cur + Need) = ToWire(f0, v)
    BY <1>3, <1>6
  <2>4. FromWire(f0, ToWire(f0, v)) = v
    BY <1>3, <1>4, <1>b, WireBack
  <2> QED BY <2>2, <2>3, <2>4
<1>8. f0.k = "len" => Value(v) = Len(ValuesIn(sent, rec)[pos + 1])
  <2>1. SUFFICES ASSUME f0.k = "len" PROVE Value(v) = Len(ValuesIn(sent, rec)[pos + 1])
    OBVIOUS
  <2>2. f0.n \in {1, 2} /\ pos + 1 \in 1 .. Len(Fields)
    BY <1>1, <2>1 DEF IsLayout
  <2>3. Len(ValuesIn(sent, rec)[pos + 1]) \in Nat
    BY <1>1, <2>2, PartOf
  <2>4. Len(ValuesIn(sent, rec)[pos + 1]) < Reach(f0.n)
    BY <1>1, <1>f, <2>1 DEF FieldsFit
  <2> QED BY <1>3, <2>1, <2>2, <2>3, <2>4, DigitsBack
<1>9. f0.k = "count" => Value(v) = Len(sent.recs)
  <2>1. SUFFICES ASSUME f0.k = "count" PROVE Value(v) = Len(sent.recs)
    OBVIOUS
  <2>2. f0.n \in {1, 2}
    BY <1>1, <2>1 DEF IsLayout
  <2>3. rec = 0
    <3>1. "count" \notin Kinds(Layout[tlv].rec)
      BY <1>1, LayoutAssumption DEF Sendable
    <3> QED BY <1>1, <2>1, <3>1 DEF Kinds, FieldsOf
  <2>4. Len(sent.recs) < Reach(f0.n)
    BY <1>1, <2>1, <2>3 DEF Fits, FieldsOf
  <2> QED BY <1>1, <1>3, <2>1, <2>2, <2>4, DigitsBack
<1> QED BY <1>1, <1>3, <1>5, <1>6, <1>7, <1>8, <1>9

(* Reading a field of what was sent. *)
LEMMA ParseReads ==
  ASSUME Inv, SentInv, ParseInv, op = "parse", ProcReads
  PROVE  ParseInv'
<1>1. /\ pc = "run" /\ pos <= Len(Fields) /\ op' = op /\ tlv' = tlv /\ rec' = rec
      /\ buf' = buf /\ room' = room /\ sent' = sent
  BY DEF ProcReads, Fail
<1>2. SUFFICES ASSUME Fits(tlv, sent)
               PROVE  IF pc' = "run" THEN ReadSoFar' ELSE RoundTrip' /\ TruncatedRejected'
  BY <1>1 DEF ParseInv, Fits, FieldsFit
<1> DEFINE vs == ValuesIn(sent, rec)
           v == vs[pos]
<1>3. /\ ReadSoFar /\ rec \in 0 .. Len(sent.recs) /\ vs \in Seq(Seq(Octet))
      /\ Len(vs) = Len(Fields) /\ Values = SubSeq(vs, 1, pos - 1)
      /\ sent.recs \in Seq(Seq(Seq(Octet))) /\ Len(Fields) \in Nat /\ Len(sent.recs) \in Nat
  BY <1>1, <1>2, ReadsWhere
<1>4. /\ pos \in 1 .. Len(Fields) /\ ~FaultMismatch /\ Need \in Nat /\ Moved = Need
      /\ Need = FieldLen
      /\ At(tlv, sent, rec, pos + 1) = m_cur + Need
      /\ m_cur + Need <= Len(sent.octets)
      /\ m_cur + Need <= room => FromWire(f0, SubSeq(buf, m_cur + 1, m_cur + Need)) = v
      /\ f0.k = "len" => Value(v) = Len(vs[pos + 1])
      /\ f0.k = "count" => Value(v) = Len(sent.recs)
  BY <1>1, <1>2, ReadsWhatWasSent
<1>t. /\ m_cur \in Nat /\ m_left \in Int /\ room \in Nat /\ m_cur + m_left = room
      /\ room = Len(buf) /\ Len(sent.octets) \in Nat
  BY DEF Inv, CodecTypeOK
<1>5. CASE m_left < Need
  <2>1. pc' = "idle" /\ ret' # "OK"
    BY <1>5 DEF ProcReads, Fail
  <2>2. Len(buf) < Len(sent.octets)
    BY <1>4, <1>5, <1>t
  <2>3. ~(Len(buf) = Len(sent.octets))
    BY <1>t, <2>2
  <2> QED BY <1>1, <2>1, <2>3 DEF RoundTrip, TruncatedRejected
<1>6. CASE ~(m_left < Need)
  <2>1. FromWire(f0, SubSeq(buf, m_cur + 1, m_cur + Need)) = v
    BY <1>4, <1>6, <1>t
  <2>2. /\ d' = WithValues(Append(Values, v))
        /\ len' = IF f0.k = "len" THEN Value(v) ELSE len
        /\ cnt' = IF f0.k = "count" THEN Value(v) ELSE cnt
        /\ Move(Moved) /\ pos' = pos + 1 /\ pc' = pc
    BY <1>1, <1>4, <1>6, <2>1 DEF ProcReads
  <2>3. Append(Values, v) = SubSeq(vs, 1, pos)
    <3> HIDE DEF vs
    <3> QED BY <1>3, <1>4, FrontGrows
  <2>p. pos' - 1 = pos /\ Fields' = Fields
    BY <1>1, <1>4, <2>2 DEF Fields
  <2>4. m_cur' = At(tlv, sent, rec, pos + 1)
    BY <1>4, <2>2 DEF Move
  <2>5. d' = [head |-> IF rec = 0 THEN SubSeq(sent.head, 1, pos) ELSE sent.head,
             recs |-> IF rec = 0 THEN << >>
                      ELSE Append(SubSeq(sent.recs, 1, rec - 1), SubSeq(sent.recs[rec], 1, pos))]
    <3>1. CASE rec = 0
      BY <1>3, <2>2, <2>3, <3>1 DEF ReadSoFar, WithValues, ValuesIn
    <3>2. CASE rec # 0
      <4> DEFINE q == SubSeq(sent.recs, 1, rec - 1)
                 x == SubSeq(sent.recs[rec], 1, pos - 1)
                 y == SubSeq(sent.recs[rec], 1, pos)
      <4>1. d = [head |-> sent.head, recs |-> Append(q, x)]
        BY <1>3, <3>2 DEF ReadSoFar
      <4>2. rec - 1 \in 0 .. Len(sent.recs) /\ rec \in Nat
        BY <1>3, <3>2
      <4>3. q \in Seq(Seq(Seq(Octet))) /\ Len(q) = rec - 1
        BY <1>3, <4>2, FrontType
      <4>4. vs = sent.recs[rec]
        BY <3>2 DEF ValuesIn
      <4>5. x \in Seq(Seq(Octet)) /\ y \in Seq(Seq(Octet))
        <5>1. pos - 1 \in 0 .. Len(vs) /\ pos \in 0 .. Len(vs)
          BY <1>3, <1>4
        <5> QED BY <1>3, <4>4, <5>1, FrontType
      <4>6. d' = [d EXCEPT !.recs[rec] = y]
        BY <2>2, <2>3, <3>2, <4>4 DEF WithValues
      <4> HIDE DEF q, x, y
      <4>7. d' = [head |-> sent.head, recs |-> [Append(q, x) EXCEPT ![rec] = y]]
        BY <4>1, <4>6
      <4>8. rec = Len(q) + 1
        BY <4>2, <4>3
      <4>9. [Append(q, x) EXCEPT ![rec] = y] = Append(q, y)
        BY <4>3, <4>5, <4>8, LastChanged
      <4> QED BY <3>2, <4>7, <4>9 DEF q, y
    <3> QED BY <3>1, <3>2
  <2>6. Fields[pos].k = "len" => len' = Len(vs[pos + 1])
    BY <1>4, <2>2 DEF f0
  <2>7. rec # 0 \/ (\E i \in 1 .. pos : Fields[i].k = "count") => cnt' = Len(sent.recs)
    <3>1. f0.k = "count" => cnt' = Len(sent.recs)
      BY <1>4, <2>2
    <3>2. f0.k # "count" => cnt' = cnt
      BY <2>2
    <3>3. \A i \in 1 .. pos : i \in 1 .. pos - 1 \/ i = pos
      BY <1>4
    <3> QED BY <1>3, <3>1, <3>2, <3>3 DEF ReadSoFar, f0
  <2> HIDE DEF vs
  <2>8. ReadSoFar'
    <3>1. pos' <= Len(Fields) + 1 /\ rec <= Len(sent.recs)
      BY <1>3, <1>4, <2>2
    <3> QED BY <1>1, <2>2, <2>p, <2>4, <2>5, <2>6, <2>7, <3>1 DEF ReadSoFar, vs
  <2> QED BY <1>1, <2>2, <2>8
<1> QED BY <1>5, <1>6

(* At the end of the head or of a record, all of it was read as it was sent, and at the
   end of the list nothing is missing. *)
LEMMA PartIsRead ==
  ASSUME Inv, SentInv, ParseInv, pc = "run", op = "parse", Fits(tlv, sent), pos > Len(Fields)
  PROVE  /\ d = [head |-> sent.head, recs |-> SubSeq(sent.recs, 1, rec)]
         /\ m_cur = At(tlv, sent, rec, Len(Fields) + 1)
         /\ AnotherRecord <=> rec < Len(sent.recs)
         /\ AnotherRecord => cnt = Len(sent.recs)
<1>1. /\ Sendable(tlv, sent) /\ ReadSoFar /\ rec \in 0 .. Len(sent.recs)
      /\ Fields = FieldsOf(tlv, rec) /\ pos = Len(Fields) + 1 /\ Len(Fields) \in Nat
      /\ Len(sent.recs) \in Nat
      /\ ValuesIn(sent, rec) \in Seq(Seq(Octet)) /\ Len(ValuesIn(sent, rec)) = Len(Fields)
      /\ sent.head \in Seq(Seq(Octet)) /\ sent.recs \in Seq(Seq(Seq(Octet)))
  BY ReadsWhere
<1>2. m_cur = At(tlv, sent, rec, Len(Fields) + 1)
  BY <1>1 DEF ReadSoFar
<1>3. SubSeq(ValuesIn(sent, rec), 1, pos - 1) = ValuesIn(sent, rec)
  <2>1. pos - 1 = Len(ValuesIn(sent, rec))
    BY <1>1
  <2> QED BY <1>1, <2>1, WholeFront
<1>4. d = [head |-> sent.head, recs |-> SubSeq(sent.recs, 1, rec)]
  <2>1. CASE rec = 0
    <3>1. SubSeq(sent.recs, 1, 0) = << >>
      BY <1>1, WholeFront
    <3> QED BY <1>1, <1>3, <2>1, <3>1 DEF ReadSoFar, ValuesIn
  <2>2. CASE rec # 0
    <3>1. rec \in 1 .. Len(sent.recs)
      BY <1>1, <2>2
    <3>2. Append(SubSeq(sent.recs, 1, rec - 1), sent.recs[rec]) = SubSeq(sent.recs, 1, rec)
      BY <1>1, <3>1, FrontGrows
    <3> QED BY <1>1, <1>3, <2>2, <3>2 DEF ReadSoFar, ValuesIn
  <2> QED BY <2>1, <2>2
<1>5. CASE Layout[tlv].list = "none"
  BY <1>1, <1>2, <1>4, <1>5 DEF AnotherRecord, Sendable
<1>6. CASE Layout[tlv].list = "counted"
  <2>1. cnt = Len(sent.recs)
    <3>1. CASE rec # 0
      BY <1>1, <3>1 DEF ReadSoFar
    <3>2. CASE rec = 0
      <4>1. "count" \in Kinds(Layout[tlv].head)
        BY <1>1, <1>6, LayoutAssumption DEF Sendable
      <4>2. \E i \in 1 .. pos - 1 : Fields[i].k = "count"
        BY <1>1, <3>2, <4>1 DEF Kinds, FieldsOf
      <4> QED BY <1>1, <4>2 DEF ReadSoFar
    <3> QED BY <3>1, <3>2
  <2> QED BY <1>2, <1>4, <1>6, <2>1 DEF AnotherRecord
<1> QED BY <1>1, <1>5, <1>6, LayoutAssumption DEF Sendable

(* The steps between the records and at the end of parse(). *)
LEMMA ParseControl ==
  ASSUME Inv, SentInv, ParseInv, op = "parse", NextRecord \/ EndParse
  PROVE  ParseInv'
<1>1. /\ pc = "run" /\ pos > Len(Fields) /\ op' = op /\ tlv' = tlv
      /\ buf' = buf /\ room' = room /\ sent' = sent /\ m_cur' = m_cur
  BY DEF NextRecord, EndParse, Finished
<1>2. SUFFICES ASSUME Fits(tlv, sent)
               PROVE  IF pc' = "run" THEN ReadSoFar' ELSE RoundTrip' /\ TruncatedRejected'
  BY <1>1 DEF ParseInv, Fits, FieldsFit
<1>3. /\ Sendable(tlv, sent) /\ rec \in 0 .. Len(sent.recs) /\ Len(sent.recs) \in Nat
      /\ Fields = FieldsOf(tlv, rec) /\ Len(Fields) \in Nat
      /\ sent.recs \in Seq(Seq(Seq(Octet)))
  BY <1>1, <1>2, ReadsWhere
<1>4. /\ d = [head |-> sent.head, recs |-> SubSeq(sent.recs, 1, rec)]
      /\ m_cur = At(tlv, sent, rec, Len(Fields) + 1)
      /\ AnotherRecord <=> rec < Len(sent.recs)
      /\ AnotherRecord => cnt = Len(sent.recs)
  BY <1>1, <1>2, PartIsRead
<1>5. CASE NextRecord
  <2>1. /\ AnotherRecord /\ pc' = "run" /\ rec' = rec + 1 /\ pos' = 1 /\ cnt' = cnt
        /\ d' = [d EXCEPT !.recs = Append(@, << >>)]
    BY <1>5 DEF NextRecord
  <2>2. /\ rec < Len(sent.recs) /\ cnt = Len(sent.recs) /\ rec + 1 \in 0 .. Len(sent.recs)
        /\ rec + 1 \in 1 .. Len(sent.recs) /\ (rec + 1) - 1 = rec /\ rec + 1 # 0
    BY <1>3, <1>4, <2>1
  <2>3. m_cur = At(tlv, sent, rec + 1, 1)
    BY <1>3, <1>4, <2>2, Places
  <2>4. SubSeq(sent.recs[rec + 1], 1, 1 - 1) = << >>
    <3>1. sent.recs[rec + 1] \in Seq(Seq(Octet))
      BY <1>3, <2>2, ElementOfSeq
    <3> QED BY <3>1, WholeFront
  <2>5. d' = [head |-> sent.head,
             recs |-> Append(SubSeq(sent.recs, 1, (rec + 1) - 1), SubSeq(sent.recs[rec + 1], 1, 1 - 1))]
    BY <1>4, <2>1, <2>2, <2>4
  <2>6. 1 <= Len(Fields') + 1
    <3>1. Fields' = FieldsOf(tlv, rec + 1)
      BY <1>1, <2>1 DEF Fields, FieldsOf
    <3>2. Len(FieldsOf(tlv, rec + 1)) \in Nat
      BY <1>3, <2>2, Places
    <3> QED BY <3>1, <3>2
  <2>7. ReadSoFar'
    <3>1. rec' <= Len(sent'.recs) /\ pos' <= Len(Fields') + 1 /\ ~(pos' > 1)
      BY <1>1, <2>1, <2>2, <2>6
    <3>2. m_cur' = At(tlv', sent', rec', pos') /\ cnt' = Len(sent'.recs)
      BY <1>1, <2>1, <2>2, <2>3
    <3>3. d' = [head |-> IF rec' = 0 THEN SubSeq(sent'.head, 1, pos' - 1) ELSE sent'.head,
               recs |-> IF rec' = 0 THEN << >>
                        ELSE Append(SubSeq(sent'.recs, 1, rec' - 1),
                                    SubSeq(sent'.recs[rec'], 1, pos' - 1))]
      BY <1>1, <2>1, <2>2, <2>5
    <3> QED BY <3>1, <3>2, <3>3 DEF ReadSoFar
  <2> QED BY <2>1, <2>7
<1>6. CASE EndParse
  <2>1. pc' = "idle" /\ ret' = "OK" /\ ~AnotherRecord /\ d' = d
    BY <1>6 DEF EndParse, Finished
  <2>2. rec = Len(sent.recs)
    BY <1>3, <1>4, <2>1
  <2>3. d.head = sent.head /\ d.recs = sent.recs
    <3>1. SubSeq(sent.recs, 1, Len(sent.recs)) = sent.recs
      BY <1>3, WholeFront
    <3> QED BY <1>4, <2>2, <3>1
  <2>4. m_cur = StructEnd(tlv, sent)
    BY <1>3, <1>4, <2>2, Places
  <2>5. ~(Len(buf) < Len(sent.octets))
    <3>1. /\ m_cur \in Nat /\ room \in Nat /\ room = Len(buf) /\ room % 2 = 0
          /\ Len(sent.octets) = Even(m_cur)
      BY <2>4 DEF Inv, CodecTypeOK, ParseInv, SentInv
    <3>2. m_cur <= room
      <4>1. \A k \in Kinds(Layout[tlv].head) \cup Kinds(Layout[tlv].rec) : k # "float"
        BY <1>3 DEF Sendable, SentKinds, PlainKinds
      <4>2. NoFloat(tlv)
        BY <4>1 DEF NoFloat, Kinds
      <4> QED BY <3>1, <4>2 DEF Inv, CodecTypeOK
    <3>3. Even(m_cur) <= room
      <4>1. CASE m_cur % 2 = 0
        BY <3>1, <3>2, <4>1 DEF Even
      <4>2. CASE m_cur % 2 = 1
        <5>1. room # m_cur
          BY <3>1, <4>2
        <5>2. Even(m_cur) = m_cur + 1
          BY <4>2 DEF Even
        <5> QED BY <3>1, <3>2, <5>1, <5>2
      <4> QED BY <3>1, <4>1, <4>2
    <3>4. Even(m_cur) \in Nat
      BY <3>1 DEF Even
    <3> QED BY <3>1, <3>3, <3>4
  <2> QED BY <1>1, <2>1, <2>3, <2>5 DEF RoundTrip, TruncatedRejected
<1> QED BY <1>5, <1>6

(* Calling parse(). *)
LEMMA ParseStart ==
  ASSUME Inv, SentInv, StartParse
  PROVE  ParseInv'
<1>1. PICK n \in 1 .. Len(sent.octets) :
        /\ n % 2 = 0
        /\ Start("parse", sent.tlv, [head |-> << >>, recs |-> << >>],
                 SubSeq(sent.octets, 1, n), n)
        /\ UNCHANGED sent
  BY DEF StartParse
<1>2. /\ pc' = "run" /\ op' = "parse" /\ tlv' = sent.tlv /\ rec' = 0 /\ pos' = 1 /\ m_cur' = 0
      /\ d' = [head |-> << >>, recs |-> << >>] /\ buf' = SubSeq(sent.octets, 1, n)
      /\ room' = n /\ sent' = sent
  BY <1>1 DEF Start
<1>3. sent.octets # << >>
  <2>1. sent.octets \in Seq(Octet) /\ Len(sent.octets) # 0
    BY <1>1 DEF Inv
  <2> QED BY <2>1
<1>4. Sendable(sent.tlv, sent)
  BY <1>3 DEF SentInv
<1>5. sent.head \in Seq(Seq(Octet)) /\ Len(sent.recs) \in Nat
  BY <1>4 DEF Sendable, IsStruct, HasShape
<1>6. 0 \in 0 .. Len(sent.recs)
  BY <1>5
<1>7. At(sent.tlv, sent, 0, 1) = 0 /\ Len(FieldsOf(sent.tlv, 0)) \in Nat
  BY <1>4, <1>6, Places
<1>8. Fields' = FieldsOf(sent.tlv, 0)
  BY <1>2 DEF Fields, FieldsOf
<1>9. SubSeq(sent.head, 1, 1 - 1) = << >>
  BY <1>5, WholeFront
<1>10. ReadSoFar'
  <2>1. rec' <= Len(sent'.recs) /\ pos' <= Len(Fields') + 1 /\ ~(pos' > 1)
    BY <1>2, <1>5, <1>7, <1>8
  <2>2. m_cur' = At(tlv', sent', rec', pos')
    BY <1>2, <1>7
  <2>3. d' = [head |-> IF rec' = 0 THEN SubSeq(sent'.head, 1, pos' - 1) ELSE sent'.head,
             recs |-> IF rec' = 0 THEN << >>
                      ELSE Append(SubSeq(sent'.recs, 1, rec' - 1),
                                  SubSeq(sent'.recs[rec'], 1, pos' - 1))]
    BY <1>2, <1>9
  <2>4. ~(rec' # 0 \/ \E i \in 1 .. pos' - 1 : Fields'[i].k = "count")
    BY <1>2
  <2> QED BY <2>1, <2>2, <2>3, <2>4 DEF ReadSoFar
<1> QED BY <1>1, <1>2, <1>3, <1>10 DEF ParseInv

-----------------------------------------------------------------------------
(* The three parts of the invariant together. *)
WireInv == BuildInv /\ SentInv /\ ParseInv

(* It holds in every state of the codec. *)
LEMMA WireHolds == UseSpec => []WireInv
<1>1. CodecInit => WireInv
  BY DEF CodecInit, WireInv, BuildInv, SentInv, ParseInv, Nothing
<1>2. Inv /\ Inv' /\ WireInv /\ [UseNext]_codecVars => WireInv'
  <2>1. SUFFICES ASSUME Inv, Inv', WireInv, [UseNext]_codecVars PROVE WireInv'
    OBVIOUS
  <2> USE <2>1 DEF WireInv
  <2>2. CASE UNCHANGED codecVars
    <3>1. BuildInv'
      BY <2>2 DEF codecVars, BuildInv, WrittenSoFar, Fields, SizesAgree, PlanIsKept, Returned
    <3>2. SentInv'
      BY <2>2 DEF codecVars, SentInv
    <3>3. ParseInv'
      BY <2>2 DEF codecVars, ParseInv, ReadSoFar, Fields, RoundTrip, TruncatedRejected, Returned
    <3> QED BY <3>1, <3>2, <3>3
  <2>3. CASE BuildAny
    <3>1. op' = "build"
      BY <2>3 DEF BuildAny, Start
    <3> QED BY <2>3, <3>1, BuildStart DEF ParseInv
  <2>4. CASE StartParse
    <3>1. op' = "parse" /\ sent' = sent
      BY <2>4 DEF StartParse, Start
    <3> QED BY <2>4, <3>1, ParseStart DEF BuildInv, SentInv
  <2>5. CASE Receive
    <3>1. op' = "receive" /\ sent' = Nothing
      BY <2>5 DEF Receive, Start
    <3> QED BY <3>1 DEF BuildInv, SentInv, ParseInv, Nothing
  <2>6. CASE ProcWrites
    <3>1. op = "build" /\ op' = "build" /\ sent' = sent
      BY <2>6 DEF ProcWrites, Fail
    <3> QED BY <2>6, <3>1, BuildWrites DEF SentInv, ParseInv
  <2>7. CASE EndBuild
    <3>1. op' = "build"
      BY <2>7 DEF EndBuild, Fail
    <3> QED BY <2>7, <3>1, BuildEnds DEF ParseInv
  <2>8. CASE op = "build" /\ NextRecord
    <3>1. op' = "build" /\ sent' = sent
      BY <2>8 DEF NextRecord
    <3> QED BY <2>8, <3>1, BuildNextRecord DEF SentInv, ParseInv
  <2>9. CASE op # "build" /\ (ProcReads \/ NextRecord \/ EndParse)
    <3>1. op' = op /\ sent' = sent
      BY <2>9 DEF ProcReads, NextRecord, EndParse, Fail
    <3>2. op = "parse" => ParseInv'
      BY <2>9, ParseReads, ParseControl
    <3> QED BY <2>9, <3>1, <3>2 DEF BuildInv, SentInv, ParseInv
  <2>10. CASE op = "build" /\ (ProcReads \/ EndParse)
    BY <2>10 DEF ProcReads, EndParse
  <2>11. CASE Afresh
    BY <2>11 DEF Afresh, CodecInit, BuildInv, SentInv, ParseInv, Nothing
  <2> QED BY <2>2, <2>3, <2>4, <2>5, <2>6, <2>7, <2>8, <2>9, <2>10, <2>11 DEF UseNext
<1> QED BY <1>1, <1>2, InvHolds, PTL DEF UseSpec

(* build() of any structure in any buffer needs and produces the size that the table
   or the size function promises, if these count the octets of the fields right and no
   text or octet string has 65536 octets, where its length is cut: the octet of an odd
   end is planned for, and a buffer of that size is never too small. *)
THEOREM PlansAreKept == CodecSpec => [](SizesAgree => PlanIsKept)
<1>1. Inv /\ WireInv => (SizesAgree => PlanIsKept)
  BY DEF WireInv, BuildInv, PlanIsKept, Returned
<1> QED BY <1>1, CodecIsUse, InvHolds, WireHolds, PTL

(* parse() of what build() wrote gives the structure that was built, for any layout of
   fields, texts and counted lists, as long as no text or list is longer than its
   length or count can say. *)
THEOREM ParseInvertsBuild == CodecSpec => []RoundTrip
<1>1. Inv /\ WireInv => RoundTrip
  BY DEF WireInv, ParseInv, RoundTrip, Returned
<1> QED BY <1>1, CodecIsUse, InvHolds, WireHolds, PTL

(* parse() accepts no front part of what build() wrote, wherever it is cut. *)
THEOREM FrontPartsRejected == CodecSpec => []TruncatedRejected
<1>1. Inv /\ WireInv => TruncatedRejected
  BY DEF WireInv, ParseInv, TruncatedRejected, Returned
<1> QED BY <1>1, CodecIsUse, InvHolds, WireHolds, PTL

-----------------------------------------------------------------------------
(* The sizes of the library's tables *)

(* Fields of fixed size, and the octets they take. *)
IsFixed(fs) ==
  IsSeq(fs) /\ \A i \in 1 .. Len(fs) : fs[i].k \in FixedKinds /\ fs[i].n \in Nat
Width(fs) == Ends([i \in 1 .. Len(fs) |-> fs[i].n])[Len(fs)]

(* Fields with texts and octet strings too: these take no octet when they are empty. *)
IsSized(fs) ==
  IsSeq(fs) /\ \A i \in 1 .. Len(fs) : fs[i].n \in Nat /\ (fs[i].k = "body" => fs[i].n = 0)

(* Fields of fixed size are among them. *)
LEMMA FixedIsSized == \A fs : IsFixed(fs) => IsSized(fs)
  BY DEF IsFixed, IsSized, FixedKinds, PlainKinds

(* The octets of each field are a sequence of numbers. *)
LEMMA SizedLens ==
  ASSUME NEW fs, IsSized(fs)
  PROVE  LET ns == [i \in 1 .. Len(fs) |-> fs[i].n] IN
         /\ Len(fs) \in Nat /\ ns \in Seq(Nat) /\ Len(ns) = Len(fs)
         /\ \A i \in 1 .. Len(fs) : ns[i] = fs[i].n /\ fs[i].n \in Nat
<1>1. Len(fs) \in Nat /\ \A i \in 1 .. Len(fs) : fs[i].n \in Nat
  BY DEF IsSized, IsSeq
<1> QED BY <1>1

(* A structure takes the octets of its fixed fields, whatever they hold. *)
LEMMA FixedEnd ==
  ASSUME NEW fs, IsFixed(fs)
  PROVE  /\ Kinds(fs) \subseteq FixedKinds /\ Width(fs) \in Nat
         /\ \A vs : End(fs, vs) = Width(fs)
<1>1. \A i \in 1 .. Len(fs) : fs[i].k # "body"
  BY DEF IsFixed, FixedKinds, PlainKinds
<1>2. \A vs : Takes(fs, vs) = [i \in 1 .. Len(fs) |-> fs[i].n]
  BY <1>1 DEF Takes
<1>3. Width(fs) \in Nat
  <2> DEFINE ns == [i \in 1 .. Len(fs) |-> fs[i].n]
  <2>1. Len(fs) \in Nat /\ ns \in Seq(Nat) /\ Len(ns) = Len(fs)
    BY FixedIsSized, SizedLens
  <2> HIDE DEF ns
  <2>2. Ends(ns)[Len(ns)] \in Nat
    BY <2>1, EndsRule
  <2> QED BY <2>1, <2>2 DEF Width, ns
<1>4. Kinds(fs) \subseteq FixedKinds
  BY DEF Kinds, IsFixed
<1> QED BY <1>2, <1>3, <1>4 DEF End, Width

(* No field, and one field. *)
LEMMA FixedNone == IsFixed(<< >>) /\ Width(<< >>) = 0
<1>1. IsFixed(<< >>)
  <2>1. << >> \in Seq({})
    OBVIOUS
  <2> QED BY <2>1 DEF IsFixed, IsSeq
<1> DEFINE ns == [i \in 1 .. Len(<< >>) |-> << >>[i].n]
<1>2. ns \in Seq(Nat) /\ Len(ns) = 0
  OBVIOUS
<1> HIDE DEF ns
<1>3. Ends(ns)[0] = 0
  BY <1>2, EndsRule
<1> QED BY <1>1, <1>2, <1>3 DEF Width, ns

(* One field. *)
LEMMA SizedOne ==
  ASSUME NEW f, f.n \in Nat, f.k = "body" => f.n = 0
  PROVE  IsSized(<<f>>) /\ Width(<<f>>) = f.n
<1>1. IsSized(<<f>>)
  <2>1. <<f>> \in Seq({f}) /\ Len(<<f>>) = 1 /\ <<f>>[1] = f
    OBVIOUS
  <2>2. IsSeq(<<f>>)
    BY <2>1 DEF IsSeq
  <2> QED BY <2>1, <2>2 DEF IsSized
<1> DEFINE ns == [i \in 1 .. Len(<<f>>) |-> <<f>>[i].n]
<1>2. f.n \in Nat
  OBVIOUS
<1>3. ns \in Seq(Nat) /\ Len(ns) = 1 /\ ns[1] = f.n
  BY <1>2
<1>4. Len(<<f>>) = 1
  OBVIOUS
<1> HIDE DEF ns
<1>5. Ends(ns)[0] = 0 /\ Ends(ns)[1] = Ends(ns)[1 - 1] + ns[1]
  BY <1>3, EndsRule
<1>6. Ends(ns)[1] = f.n
  BY <1>2, <1>3, <1>5
<1> QED BY <1>1, <1>4, <1>6 DEF Width, ns

(* One field of fixed size. *)
LEMMA FixedOne ==
  ASSUME NEW f, f.n \in Nat, f.k \in FixedKinds
  PROVE  IsFixed(<<f>>) /\ Width(<<f>>) = f.n
<1>1. IsSized(<<f>>) /\ Width(<<f>>) = f.n
  BY SizedOne DEF FixedKinds, PlainKinds
<1>2. Len(<<f>>) = 1 /\ <<f>>[1] = f
  OBVIOUS
<1> QED BY <1>1, <1>2 DEF IsFixed, IsSized

(* Fields after fields. *)
LEMMA SizedBoth ==
  ASSUME NEW s, NEW t, IsSized(s), IsSized(t)
  PROVE  /\ IsSized(s \o t) /\ Width(s \o t) = Width(s) + Width(t)
         /\ Len(s \o t) = Len(s) + Len(t)
<1>1. /\ IsSeq(s \o t)
      /\ Len(s) \in Nat /\ Len(t) \in Nat /\ Len(s \o t) = Len(s) + Len(t)
      /\ \A i \in 1 .. Len(s) : (s \o t)[i] = s[i]
      /\ \A i \in 1 .. Len(t) : (s \o t)[Len(s) + i] = t[i]
  BY SeqOfBoth DEF IsSized
<1>2. ASSUME NEW i \in 1 .. Len(s \o t)
      PROVE  i \in 1 .. Len(s) \/ \E j \in 1 .. Len(t) : i = Len(s) + j
  <2> DEFINE j == i - Len(s)
  <2>1. i \notin 1 .. Len(s) => j \in 1 .. Len(t) /\ i = Len(s) + j
    BY <1>1
  <2> QED BY <2>1
<1>3. IsSized(s \o t)
  <2>1. ASSUME NEW i \in 1 .. Len(s \o t)
        PROVE  (s \o t)[i].n \in Nat /\ ((s \o t)[i].k = "body" => (s \o t)[i].n = 0)
    BY <1>1, <1>2, <2>1 DEF IsSized
  <2> QED BY <1>1, <2>1 DEF IsSized
<1> DEFINE a == [i \in 1 .. Len(s) |-> s[i].n]
           b == [i \in 1 .. Len(t) |-> t[i].n]
           c == [i \in 1 .. Len(s \o t) |-> (s \o t)[i].n]
<1>4. /\ a \in Seq(Nat) /\ Len(a) = Len(s)
      /\ b \in Seq(Nat) /\ Len(b) = Len(t)
      /\ c \in Seq(Nat) /\ Len(c) = Len(s) + Len(t)
  BY <1>1, <1>3, SizedLens
<1>5. \A i \in 1 .. Len(s) : c[i] = a[i]
  <2> TAKE i \in 1 .. Len(s)
  <2>1. i \in 1 .. Len(s \o t)
    BY <1>1
  <2> QED BY <1>1, <2>1
<1>6. \A j \in 1 .. Len(t) : c[Len(s) + j] = b[j]
  <2> TAKE j \in 1 .. Len(t)
  <2>1. Len(s) + j \in 1 .. Len(s \o t)
    BY <1>1
  <2> QED BY <1>1, <2>1
<1>w. Width(s) = Ends(a)[Len(s)] /\ Width(t) = Ends(b)[Len(t)]
      /\ Width(s \o t) = Ends(c)[Len(s) + Len(t)]
  BY <1>1 DEF Width
<1> HIDE DEF a, b, c
<1>7. /\ Ends(a)[0] = 0 /\ \A i \in 1 .. Len(s) : Ends(a)[i] = Ends(a)[i - 1] + a[i]
      /\ Ends(b)[0] = 0 /\ \A i \in 1 .. Len(t) : Ends(b)[i] = Ends(b)[i - 1] + b[i]
      /\ Ends(c)[0] = 0
      /\ \A i \in 1 .. (Len(s) + Len(t)) : Ends(c)[i] = Ends(c)[i - 1] + c[i]
      /\ \A i \in 0 .. Len(s) : Ends(a)[i] \in Nat
      /\ \A i \in 0 .. Len(t) : Ends(b)[i] \in Nat
      /\ \A i \in 1 .. Len(t) : b[i] \in Nat
  BY <1>1, <1>4, EndsRule, ElementOfSeq
<1> DEFINE S == {n \in Nat : n <= Len(s) => Ends(c)[n] = Ends(a)[n]}
           T == {n \in Nat : n <= Len(t) => Ends(c)[Len(s) + n] = Ends(a)[Len(s)] + Ends(b)[n]}
<1>8. \A n \in Nat : n \in S
  <2>1. 0 \in S
    BY <1>7
  <2>2. ASSUME NEW n \in S PROVE n + 1 \in S
    <3>1. SUFFICES ASSUME n + 1 <= Len(s) PROVE Ends(c)[n + 1] = Ends(a)[n + 1]
      OBVIOUS
    <3>2. n + 1 \in 1 .. Len(s) /\ n + 1 \in 1 .. (Len(s) + Len(t)) /\ (n + 1) - 1 = n
      BY <1>1, <3>1
    <3>3. Ends(c)[n] = Ends(a)[n]
      BY <1>1, <2>2, <3>1
    <3> QED BY <1>5, <1>7, <3>2, <3>3
  <2>3. S \in SUBSET Nat
    OBVIOUS
  <2> HIDE DEF S
  <2> QED BY <2>1, <2>2, <2>3, Inductive
<1>9. Ends(c)[Len(s)] = Ends(a)[Len(s)]
  BY <1>1, <1>8
<1>10. \A n \in Nat : n \in T
  <2>1. 0 \in T
    BY <1>1, <1>7, <1>9
  <2>2. ASSUME NEW n \in T PROVE n + 1 \in T
    <3>1. SUFFICES ASSUME n + 1 <= Len(t)
                   PROVE  Ends(c)[Len(s) + (n + 1)] = Ends(a)[Len(s)] + Ends(b)[n + 1]
      OBVIOUS
    <3>2. /\ n + 1 \in 1 .. Len(t) /\ Len(s) + (n + 1) \in 1 .. (Len(s) + Len(t))
          /\ (n + 1) - 1 = n /\ (Len(s) + (n + 1)) - 1 = Len(s) + n /\ n \in 0 .. Len(t)
          /\ Len(s) \in 0 .. Len(s)
      BY <1>1, <3>1
    <3>3. Ends(c)[Len(s) + n] = Ends(a)[Len(s)] + Ends(b)[n]
      BY <1>1, <2>2, <3>1
    <3>4. /\ Ends(c)[Len(s) + (n + 1)] = Ends(c)[Len(s) + n] + c[Len(s) + (n + 1)]
          /\ c[Len(s) + (n + 1)] = b[n + 1]
          /\ Ends(b)[n + 1] = Ends(b)[n] + b[n + 1]
          /\ Ends(a)[Len(s)] \in Nat /\ Ends(b)[n] \in Nat /\ b[n + 1] \in Nat
      BY <1>6, <1>7, <3>2
    <3> QED BY <3>3, <3>4
  <2>3. T \in SUBSET Nat
    OBVIOUS
  <2> HIDE DEF T
  <2> QED BY <2>1, <2>2, <2>3, Inductive
<1>11. Ends(c)[Len(s) + Len(t)] = Ends(a)[Len(s)] + Ends(b)[Len(t)]
  BY <1>1, <1>10
<1> QED BY <1>1, <1>3, <1>w, <1>11

(* Fields of fixed size after fields of fixed size. *)
LEMMA FixedBoth ==
  ASSUME NEW s, NEW t, IsFixed(s), IsFixed(t)
  PROVE  IsFixed(s \o t) /\ Width(s \o t) = Width(s) + Width(t)
<1>1. IsSized(s) /\ IsSized(t)
  BY FixedIsSized
<1>2. IsSized(s \o t) /\ Width(s \o t) = Width(s) + Width(t)
  BY <1>1, SizedBoth
<1>3. /\ IsSeq(s \o t)
      /\ Len(s) \in Nat /\ Len(t) \in Nat /\ Len(s \o t) = Len(s) + Len(t)
      /\ \A i \in 1 .. Len(s) : (s \o t)[i] = s[i]
      /\ \A i \in 1 .. Len(t) : (s \o t)[Len(s) + i] = t[i]
  BY SeqOfBoth DEF IsFixed
<1>4. ASSUME NEW i \in 1 .. Len(s \o t)
      PROVE  (s \o t)[i].k \in FixedKinds /\ (s \o t)[i].n \in Nat
  <2>1. CASE i \in 1 .. Len(s)
    BY <1>3, <2>1 DEF IsFixed
  <2>2. CASE i \notin 1 .. Len(s)
    <3> DEFINE j == i - Len(s)
    <3>1. j \in 1 .. Len(t) /\ i = Len(s) + j
      BY <1>3, <2>2
    <3> HIDE DEF j
    <3> QED BY <1>3, <3>1 DEF IsFixed
  <2> QED BY <2>1, <2>2
<1> QED BY <1>2, <1>3, <1>4 DEF IsFixed

(* Every field of FixedKinds. *)
LEMMA FixedKind ==
  ASSUME NEW k \in FixedKinds, NEW n \in Nat
  PROVE  IsFixed(Field(k, n)) /\ Width(Field(k, n)) = n
<1> DEFINE f == [k |-> k, n |-> n, lo |-> 1, hi |-> 256]
<1>2. f.k \in FixedKinds /\ f.n = n
  OBVIOUS
<1> HIDE DEF f
<1>3. IsFixed(<<f>>) /\ Width(<<f>>) = n
  BY <1>2, FixedOne
<1> QED BY <1>3 DEF Field, f

(* What the layouts are put together from. *)
LEMMA FixedRules ==
  /\ \A n \in Nat : /\ IsFixed(Num(n)) /\ Width(Num(n)) = n
                    /\ IsFixed(Octets(n)) /\ Width(Octets(n)) = n
                    /\ IsFixed(Count(n)) /\ Width(Count(n)) = n
  /\ \A lo, hi \in Nat \ {0} : IsFixed(Flags(lo, hi)) /\ Width(Flags(lo, hi)) = 1
  /\ IsFixed(Flag) /\ Width(Flag) = 1 /\ IsFixed(Reserved) /\ Width(Reserved) = 1
  /\ \A s, t : IsFixed(s) /\ IsFixed(t) => IsFixed(s \o t) /\ Width(s \o t) = Width(s) + Width(t)
<1>0. {"num", "octets", "count", "reserved", "flags"} \subseteq FixedKinds
  BY DEF FixedKinds, PlainKinds
<1>1. ASSUME NEW n \in Nat
      PROVE  /\ IsFixed(Num(n)) /\ Width(Num(n)) = n
             /\ IsFixed(Octets(n)) /\ Width(Octets(n)) = n
             /\ IsFixed(Count(n)) /\ Width(Count(n)) = n
  <2>1. IsFixed(Num(n)) /\ Width(Num(n)) = n
    BY <1>0, FixedKind DEF Num
  <2>2. IsFixed(Octets(n)) /\ Width(Octets(n)) = n
    BY <1>0, FixedKind DEF Octets
  <2>3. IsFixed(Count(n)) /\ Width(Count(n)) = n
    BY <1>0, FixedKind DEF Count
  <2> QED BY <2>1, <2>2, <2>3
<1>2. ASSUME NEW lo \in Nat \ {0}, NEW hi \in Nat \ {0}
      PROVE  IsFixed(Flags(lo, hi)) /\ Width(Flags(lo, hi)) = 1
  <2> DEFINE f == [k |-> "flags", n |-> 1, lo |-> lo, hi |-> hi]
  <2>1. f.k \in FixedKinds /\ f.n = 1
    BY <1>0
  <2> HIDE DEF f
  <2>2. IsFixed(<<f>>) /\ Width(<<f>>) = 1
    BY <2>1, FixedOne
  <2> QED BY <2>2 DEF Flags, f
<1>3. IsFixed(Flag) /\ Width(Flag) = 1
  BY <1>2 DEF Flag
<1>4. IsFixed(Reserved) /\ Width(Reserved) = 1
  BY <1>0, FixedKind DEF Reserved
<1> QED BY <1>1, <1>2, <1>3, <1>4, FixedBoth

(* The types of IEEE 1588 that have a fixed size. *)
LEMMA FixedTypes ==
  /\ IsFixed(U48) /\ Width(U48) = 6
  /\ IsFixed(TimeInterval) /\ Width(TimeInterval) = 8
  /\ IsFixed(Timestamp) /\ Width(Timestamp) = 10
  /\ IsFixed(ClockIdentity) /\ Width(ClockIdentity) = 8
  /\ IsFixed(PortIdentity) /\ Width(PortIdentity) = 10
  /\ IsFixed(ClockQuality) /\ Width(ClockQuality) = 4
  /\ IsFixed(AcceptableMaster) /\ Width(AcceptableMaster) = 11
  /\ IsFixed(Float64) /\ Width(Float64) = 8
<1>0. "high16" \in FixedKinds /\ "float" \in FixedKinds
  BY DEF FixedKinds, PlainKinds
<1>1. IsFixed(U48) /\ Width(U48) = 6
  BY <1>0, FixedKind, FixedRules DEF U48
<1>2. IsFixed(TimeInterval) /\ Width(TimeInterval) = 8
  BY FixedRules DEF TimeInterval
<1>3. IsFixed(Timestamp) /\ Width(Timestamp) = 10
  BY <1>1, FixedRules DEF Timestamp
<1>4. IsFixed(ClockIdentity) /\ Width(ClockIdentity) = 8
  BY FixedRules DEF ClockIdentity
<1>5. IsFixed(PortIdentity) /\ Width(PortIdentity) = 10
  BY <1>4, FixedRules DEF PortIdentity
<1>6. IsFixed(ClockQuality) /\ Width(ClockQuality) = 4
  BY FixedRules DEF ClockQuality
<1>7. IsFixed(AcceptableMaster) /\ Width(AcceptableMaster) = 11
  BY <1>5, FixedRules DEF AcceptableMaster
<1>8. IsFixed(Float64) /\ Width(Float64) = 8
  BY <1>0, FixedKind DEF Float64
<1> QED BY <1>1, <1>2, <1>3, <1>4, <1>5, <1>6, <1>7, <1>8

(* The counters of a port: 32 numbers of eight octets. *)
LEMMA FixedCounters ==
  LET cs == [i \in 1 .. 32 |-> Field("le", 8)[1]] IN IsFixed(cs) /\ Width(cs) = 256
<1> DEFINE f == [k |-> "le", n |-> 8, lo |-> 1, hi |-> 256]
           cs == [i \in 1 .. 32 |-> f]
           ns == [i \in 1 .. Len(cs) |-> cs[i].n]
           S == {n \in Nat : n <= 32 => Ends(ns)[n] = 8 * n}
<1>1. f.k \in FixedKinds /\ f.n = 8 /\ Field("le", 8)[1] = f
  BY DEF FixedKinds, PlainKinds, Field
<1> HIDE DEF f
<1>2. cs \in Seq({f}) /\ Len(cs) = 32 /\ \A i \in 1 .. 32 : cs[i] = f
  OBVIOUS
<1>3. IsFixed(cs)
  <2>1. IsSeq(cs)
    BY <1>2 DEF IsSeq
  <2>2. \A i \in 1 .. Len(cs) : cs[i].k \in FixedKinds /\ cs[i].n \in Nat
    <3> HIDE DEF cs
    <3> TAKE i \in 1 .. Len(cs)
    <3>1. cs[i] = f
      BY <1>2
    <3>2. f.n \in Nat
      BY <1>1
    <3> QED BY <1>1, <3>1, <3>2
  <2> QED BY <2>1, <2>2 DEF IsFixed
<1>4. ns \in Seq(Nat) /\ Len(ns) = 32 /\ \A i \in 1 .. 32 : ns[i] = 8
  BY <1>1, <1>2
<1>w. Width(cs) = Ends(ns)[32]
  BY <1>2 DEF Width
<1> HIDE DEF cs, ns
<1>5. Ends(ns)[0] = 0 /\ \A i \in 1 .. 32 : Ends(ns)[i] = Ends(ns)[i - 1] + ns[i]
  BY <1>4, EndsRule
<1>6. \A n \in Nat : n \in S
  <2>1. 0 \in S
    BY <1>5
  <2>2. ASSUME NEW n \in S PROVE n + 1 \in S
    <3>1. SUFFICES ASSUME n + 1 <= 32 PROVE Ends(ns)[n + 1] = 8 * (n + 1)
      OBVIOUS
    <3>2. n + 1 \in 1 .. 32 /\ (n + 1) - 1 = n /\ Ends(ns)[n] = 8 * n
      BY <3>1
    <3>3. Ends(ns)[n + 1] = Ends(ns)[n] + 8
      BY <1>4, <1>5, <3>2
    <3> QED BY <3>2, <3>3
  <2>3. S \in SUBSET Nat
    OBVIOUS
  <2> HIDE DEF S
  <2> QED BY <2>1, <2>2, <2>3, Inductive
<1>7. Ends(ns)[32] = 8 * 32
  BY <1>6
<1>8. Width(cs) = 256
  BY <1>w, <1>7
<1> QED BY <1>1, <1>3, <1>8 DEF cs

(* A layout without list whose fields have a fixed size, of n octets together. *)
SumsTo(lay, n) == lay.list = "none" /\ IsFixed(lay.head) /\ Width(lay.head) = n

(* A layout of fixed fields. *)
LEMMA PlainSums == \A h, n : IsFixed(h) /\ Width(h) = n => SumsTo(Plain(h), n)
  BY DEF SumsTo, Plain

(* A layout without list whose fields take size octets, or one less. *)
Agrees(lay, size) == SumsTo(lay, size) \/ SumsTo(lay, size - 1)

(* The sizes in ids.h. *)
LEMMA ClockSizes ==
  \A id \in DOMAIN ClockLayouts : SizeOf(id) # -2 => Agrees(ClockLayouts[id], SizeOf(id))
  BY FixedRules, FixedTypes, PlainSums DEF ClockLayouts, SizeOf, Agrees

(* The sizes in ids.h, of the second part. *)
LEMMA TimeSizes ==
  \A id \in DOMAIN TimeLayouts : SizeOf(id) # -2 => Agrees(TimeLayouts[id], SizeOf(id))
  BY FixedRules, FixedTypes, PlainSums DEF TimeLayouts, SizeOf, Agrees

(* The sizes in ids.h, of the third part. *)
LEMMA PortSizes ==
  \A id \in DOMAIN PortLayouts : SizeOf(id) # -2 => Agrees(PortLayouts[id], SizeOf(id))
  BY FixedRules, FixedTypes, FixedCounters, PlainSums DEF PortLayouts, SizeOf, Agrees

(* The sizes of the TLVs of signaling messages that have a fixed one. *)
LEMMA SigSizes ==
  \A id \in DOMAIN SigLayouts : SigSizeOf(id) # -2 => SumsTo(SigLayouts[id], SigSizeOf(id))
  BY FixedRules, FixedTypes, PlainSums DEF SigLayouts, SigSizeOf

(* All sizes in ids.h are even. *)
LEMMA SizesAreEven == \A id : SizeOf(id) # -2 => SizeOf(id) \in Nat /\ SizeOf(id) % 2 = 0
  BY DEF SizeOf

(* The octets of the fields, made even, are the size in ids.h. *)
LEMMA AgreesIsEven ==
  ASSUME NEW id, SizeOf(id) # -2, NEW lay, Agrees(lay, SizeOf(id))
  PROVE  /\ lay.list = "none" /\ IsFixed(lay.head) /\ Width(lay.head) \in Nat
         /\ SizeOf(id) = Even(Width(lay.head))
<1>1. IsFixed(lay.head) /\ lay.list = "none"
  BY DEF Agrees, SumsTo
<1>2. Width(lay.head) \in Nat
  BY <1>1, FixedEnd
<1>3. Width(lay.head) = SizeOf(id) \/ Width(lay.head) = SizeOf(id) - 1
  BY DEF Agrees, SumsTo
<1>4. SizeOf(id) \in Nat /\ SizeOf(id) % 2 = 0
  BY SizesAreEven
<1>5. SizeOf(id) = Even(Width(lay.head))
  BY <1>2, <1>3, <1>4 DEF Even
<1> QED BY <1>1, <1>2, <1>5

(* A list without count has records of the size that its size() says. *)
ListSums(lay) == lay.list = "open" => IsFixed(lay.rec) /\ lay.size = Width(lay.rec)

(* The three kinds of layouts. *)
LEMMA ListRules ==
  /\ \A h : ListSums(Plain(h))
  /\ \A h, r : ListSums(Counted(h, r))
  /\ \A h, r, n : IsFixed(r) /\ Width(r) = n => ListSums(Open(h, r, n))
  BY DEF ListSums, Plain, Counted, Open

(* The lists of the library. *)
LEMMA ListsSum ==
  /\ \A id \in DOMAIN ClockLayouts : ListSums(ClockLayouts[id])
  /\ \A id \in DOMAIN TimeLayouts : ListSums(TimeLayouts[id])
  /\ \A id \in DOMAIN PortLayouts : ListSums(PortLayouts[id])
  /\ \A id \in DOMAIN SigLayouts : ListSums(SigLayouts[id])
<1>1. \A id \in DOMAIN ClockLayouts : ListSums(ClockLayouts[id])
  BY ListRules DEF ClockLayouts
<1>2. \A id \in DOMAIN TimeLayouts : ListSums(TimeLayouts[id])
  BY ListRules, FixedRules, FixedTypes DEF TimeLayouts
<1>3. \A id \in DOMAIN PortLayouts : ListSums(PortLayouts[id])
  BY ListRules DEF PortLayouts
<1>4. \A id \in DOMAIN SigLayouts : ListSums(SigLayouts[id])
  BY ListRules, FixedRules, FixedTypes
     DEF SigLayouts, RxSyncRecord, RxSyncSize, ComputedRecord, TxEventRecord, DelayRecord
<1> QED BY <1>1, <1>2, <1>3, <1>4

(* No TLV of a signaling message has the name of a management id. *)
LEMMA TablesApart ==
  /\ DOMAIN TimeLayouts \cap DOMAIN ClockLayouts = {}
  /\ DOMAIN PortLayouts \cap (DOMAIN ClockLayouts \cup DOMAIN TimeLayouts) = {}
  /\ DOMAIN SigLayouts \cap MngIds = {}
<1>1. DOMAIN TimeLayouts \cap DOMAIN ClockLayouts = {}
  BY DEF TimeLayouts, ClockLayouts
<1>2. DOMAIN PortLayouts \cap DOMAIN ClockLayouts = {}
  BY DEF PortLayouts, ClockLayouts
<1>3. DOMAIN PortLayouts \cap DOMAIN TimeLayouts = {}
  BY DEF PortLayouts, TimeLayouts
<1>4. DOMAIN SigLayouts \cap DOMAIN ClockLayouts = {}
  BY DEF SigLayouts, ClockLayouts
<1>5. DOMAIN SigLayouts \cap DOMAIN TimeLayouts = {}
  BY DEF SigLayouts, TimeLayouts
<1>6. DOMAIN SigLayouts \cap DOMAIN PortLayouts = {}
  BY DEF SigLayouts, PortLayouts
<1> QED BY <1>1, <1>2, <1>3, <1>4, <1>5, <1>6 DEF MngIds

(* Each table is a part of AllLayouts. *)
LEMMA TablesTogether ==
  /\ DOMAIN AllLayouts = MngIds \cup DOMAIN SigLayouts
  /\ \A t \in DOMAIN ClockLayouts : t \notin DOMAIN SigLayouts /\ AllLayouts[t] = ClockLayouts[t]
  /\ \A t \in DOMAIN TimeLayouts : t \notin DOMAIN SigLayouts /\ AllLayouts[t] = TimeLayouts[t]
  /\ \A t \in DOMAIN PortLayouts : t \notin DOMAIN SigLayouts /\ AllLayouts[t] = PortLayouts[t]
  /\ \A t \in DOMAIN SigLayouts : AllLayouts[t] = SigLayouts[t]
  BY TablesApart DEF AllLayouts, MngIds

(* The columns of sizes of ids.h and the size() of records, for the library's layouts. *)
LEMMA LibraryTablesAgree ==
  ASSUME Layout = AllLayouts
  PROVE  \A t \in DOMAIN Layout : TablesAgree(t)
<1> SUFFICES ASSUME NEW t \in DOMAIN Layout PROVE TablesAgree(t)
  OBVIOUS
<1> DEFINE lay == Layout[t]
<1>1. /\ t \notin DOMAIN SigLayouts /\ SizeOf(t) # -2 => Agrees(lay, SizeOf(t))
      /\ t \in DOMAIN SigLayouts /\ SigSizeOf(t) # -2 => SumsTo(lay, SigSizeOf(t))
      /\ ListSums(lay)
  <2>1. CASE t \in DOMAIN ClockLayouts
    BY <2>1, TablesTogether, ClockSizes, ListsSum
  <2>2. CASE t \in DOMAIN TimeLayouts
    BY <2>2, TablesTogether, TimeSizes, ListsSum
  <2>3. CASE t \in DOMAIN PortLayouts
    BY <2>3, TablesTogether, PortSizes, ListsSum
  <2>4. CASE t \in DOMAIN SigLayouts
    BY <2>4, TablesTogether, SigSizes, ListsSum
  <2> QED BY <2>1, <2>2, <2>3, <2>4, TablesTogether DEF MngIds
<1> HIDE DEF lay
<1>2. CASE t \in DOMAIN SigLayouts
  <2>1. TableSize(t) # -2 => /\ lay.list = "none" /\ Kinds(lay.head) \subseteq FixedKinds
                             /\ TableSize(t) = End(lay.head, << >>)
    BY <1>1, <1>2, FixedEnd DEF TableSize, SumsTo
  <2>2. lay.list = "open" => /\ Kinds(lay.rec) \subseteq FixedKinds
                             /\ lay.size = End(lay.rec, << >>)
    BY <1>1, FixedEnd DEF ListSums
  <2> QED BY <1>2, <2>1, <2>2 DEF TablesAgree, lay
<1>3. CASE t \notin DOMAIN SigLayouts
  <2>1. TableSize(t) # -2 => /\ lay.list = "none" /\ Kinds(lay.head) \subseteq FixedKinds
                             /\ TableSize(t) = Even(End(lay.head, << >>))
    BY <1>1, <1>3, AgreesIsEven, FixedEnd DEF TableSize
  <2>2. lay.list = "open" => /\ Kinds(lay.rec) \subseteq FixedKinds
                             /\ lay.size = End(lay.rec, << >>)
    BY <1>1, FixedEnd DEF ListSums
  <2> QED BY <1>3, <2>1, <2>2 DEF TablesAgree, lay
<1> QED BY <1>2, <1>3

(* A sum of equal lengths. *)
LEMMA EqualLens ==
  ASSUME NEW n \in Nat, NEW k \in Nat
  PROVE  Ends([i \in 1 .. n |-> k])[n] = k * n
<1> DEFINE ns == [i \in 1 .. n |-> k]
           S == {m \in Nat : m <= n => Ends(ns)[m] = k * m}
<1>1. ns \in Seq(Nat) /\ Len(ns) = n /\ \A i \in 1 .. n : ns[i] = k
  OBVIOUS
<1> HIDE DEF ns
<1>2. Ends(ns)[0] = 0 /\ \A i \in 1 .. n : Ends(ns)[i] = Ends(ns)[i - 1] + ns[i]
  BY <1>1, EndsRule
<1>3. \A m \in Nat : m \in S
  <2>1. 0 \in S
    BY <1>2
  <2>2. ASSUME NEW m \in S PROVE m + 1 \in S
    <3>1. SUFFICES ASSUME m + 1 <= n PROVE Ends(ns)[m + 1] = k * (m + 1)
      OBVIOUS
    <3>2. m \in Nat /\ m + 1 \in 1 .. n /\ (m + 1) - 1 = m /\ Ends(ns)[m] = k * m
      BY <3>1
    <3>3. Ends(ns)[m + 1] = Ends(ns)[m] + k
      BY <1>1, <1>2, <3>2
    <3>4. k * (m + 1) = k * m + k
      BY <3>2
    <3> QED BY <3>2, <3>3, <3>4
  <2>3. S \in SUBSET Nat
    OBVIOUS
  <2> HIDE DEF S
  <2> QED BY <2>1, <2>2, <2>3, Inductive
<1> QED BY <1>3 DEF ns

(* A text or an octet string: its length and its octets. *)
LEMMA VarFields ==
  ASSUME NEW n \in Nat
  PROVE  /\ IsSeq(Var(n)) /\ Len(Var(n)) = 2
         /\ Var(n)[1].k = "len" /\ Var(n)[1].n = n /\ Var(n)[2].k = "body"
<1> DEFINE a == [k |-> "len", n |-> n, lo |-> 1, hi |-> 256]
           b == [k |-> "body", n |-> 0, lo |-> 1, hi |-> 256]
<1>1. Var(n) = <<a>> \o <<b>> /\ a.k = "len" /\ a.n = n /\ b.k = "body"
  BY DEF Field, Var
<1> HIDE DEF a, b
<1>2. IsSeq(Var(n)) /\ Len(Var(n)) = 2 /\ Var(n)[1] = a /\ Var(n)[2] = b
  <2>1. <<a>> \in Seq({a}) /\ Len(<<a>>) = 1 /\ <<a>>[1] = a
    OBVIOUS
  <2>2. <<b>> \in Seq({b}) /\ Len(<<b>>) = 1 /\ <<b>>[1] = b
    OBVIOUS
  <2>3. IsSeq(<<a>>) /\ IsSeq(<<b>>)
    BY <2>1, <2>2 DEF IsSeq
  <2> DEFINE s == <<a>>
             t == <<b>>
  <2> HIDE DEF s, t
  <2>4. IsSeq(s) /\ IsSeq(t) /\ Len(s) = 1 /\ Len(t) = 1 /\ s[1] = a /\ t[1] = b
    BY <2>1, <2>2, <2>3 DEF s, t
  <2>s. IsSeq(s) /\ IsSeq(t)
    BY <2>4
  <2>5. /\ IsSeq(s \o t) /\ Len(s \o t) = Len(s) + Len(t)
        /\ \A i \in 1 .. Len(s) : (s \o t)[i] = s[i]
        /\ \A i \in 1 .. Len(t) : (s \o t)[Len(s) + i] = t[i]
    BY ONLY <2>s, SeqOfBoth
  <2>6. Len(s \o t) = 2 /\ (s \o t)[1] = a /\ (s \o t)[2] = b
    BY <2>4, <2>5
  <2>7. Var(n) = s \o t
    BY <1>1 DEF s, t
  <2> QED BY <2>5, <2>6, <2>7
<1> QED BY <1>1, <1>2

(* The octets of a text whose length fits into an uint16_t. *)
IsShort(o) == Len(o) \in Nat /\ Len(o) < 65536

(* The fields pre, of fixed size, with a text or an octet string behind them. *)
LEMMA TextEnd ==
  ASSUME NEW pre, IsFixed(pre), NEW n \in Nat, NEW vs, IsShort(vs[Len(pre) + 2])
  PROVE  End(pre \o Var(n), vs) = Width(pre) + n + Len(vs[Len(pre) + 2])
<1> DEFINE fs == pre \o Var(n)
           m == Len(pre)
           x == Len(vs[m + 2])
           ns == Takes(fs, vs)
           ps == [i \in 1 .. Len(pre) |-> pre[i].n]
<1>s. x \in Nat /\ x < 65536
  BY DEF IsShort
<1>0. IsSeq(pre) /\ m \in Nat /\ \A i \in 1 .. m : pre[i].k # "body"
  <2>1. IsSeq(pre) /\ Len(pre) \in Nat
    BY DEF IsFixed, IsSeq
  <2>2. \A i \in 1 .. Len(pre) : pre[i].k # "body"
    BY DEF IsFixed, FixedKinds, PlainKinds
  <2> QED BY <2>1, <2>2
<1>2. /\ IsSeq(Var(n)) /\ Len(Var(n)) = 2
      /\ Var(n)[1].k = "len" /\ Var(n)[1].n = n /\ Var(n)[2].k = "body"
  BY VarFields
<1>3. /\ Len(fs) = m + 2
      /\ fs[m + 1].k = "len" /\ fs[m + 1].n = n /\ fs[m + 2].k = "body"
      /\ \A i \in 1 .. m : fs[i] = pre[i]
  <2> DEFINE v == Var(n)
  <2> HIDE DEF v
  <2>1. IsSeq(v) /\ Len(v) = 2 /\ v[1].k = "len" /\ v[1].n = n /\ v[2].k = "body"
    BY <1>2 DEF v
  <2>s. IsSeq(pre) /\ IsSeq(v)
    BY <1>0, <2>1
  <2>2. /\ Len(pre \o v) = Len(pre) + Len(v)
        /\ \A i \in 1 .. Len(pre) : (pre \o v)[i] = pre[i]
        /\ \A i \in 1 .. Len(v) : (pre \o v)[Len(pre) + i] = v[i]
    BY ONLY <2>s, SeqOfBoth
  <2>3. fs = pre \o v
    BY DEF v
  <2> HIDE DEF fs
  <2>4. Len(fs) = m + 2 /\ \A i \in 1 .. m : fs[i] = pre[i]
    BY <2>1, <2>2, <2>3
  <2>5. fs[m + 1] = v[1] /\ fs[m + 2] = v[2]
    <3>1. 1 \in 1 .. Len(v) /\ 2 \in 1 .. Len(v)
      BY <2>1
    <3> QED BY <2>1, <2>2, <2>3, <3>1
  <2> QED BY <2>1, <2>4, <2>5
<1> HIDE DEF fs
<1>p. ps \in Seq(Nat) /\ Len(ps) = m /\ \A i \in 1 .. m : ps[i] = pre[i].n /\ ps[i] \in Nat
  BY FixedIsSized, SizedLens
<1>4. \A i \in 1 .. m : ns[i] = ps[i]
  BY <1>0, <1>3, <1>p DEF Takes
<1>5. ns[m + 1] = n /\ ns[m + 2] = x
  <2>1. Cut16(x) = x
    BY <1>s, Cut16Type
  <2>2. m + 1 \in 1 .. Len(fs) /\ m + 2 \in 1 .. Len(fs)
    BY <1>0, <1>3
  <2>3. ns[m + 1] = n /\ ns[m + 2] = Cut16(x)
    BY <1>3, <2>2 DEF Takes
  <2> QED BY <2>1, <2>3
<1>w. Width(pre) = Ends(ps)[m] /\ End(fs, vs) = Ends(ns)[m + 2]
  BY <1>3 DEF Width, End
<1>6. ns \in Seq(Nat) /\ Len(ns) = m + 2
  <2>1. ns = [i \in 1 .. m + 2 |-> ns[i]]
    BY <1>3 DEF Takes
  <2>2. \A i \in 1 .. m + 2 : i \in 1 .. m \/ i = m + 1 \/ i = m + 2
    BY <1>0
  <2> HIDE DEF ns, ps
  <2>3. \A i \in 1 .. m + 2 : ns[i] \in Nat
    BY <1>s, <1>4, <1>5, <1>p, <2>2
  <2>4. m + 2 \in Nat
    BY <1>0
  <2> QED BY <2>1, <2>3, <2>4
<1> HIDE DEF ns, ps
<1> DEFINE S == {k \in Nat : k <= m => Ends(ns)[k] = Ends(ps)[k]}
<1>7. /\ Ends(ns)[0] = 0 /\ Ends(ps)[0] = 0
      /\ \A i \in 1 .. m + 2 : Ends(ns)[i] = Ends(ns)[i - 1] + ns[i]
      /\ \A i \in 1 .. m : Ends(ps)[i] = Ends(ps)[i - 1] + ps[i]
      /\ Ends(ps)[m] \in Nat
  <2>1. Ends(ns)[0] = 0 /\ \A i \in 1 .. m + 2 : Ends(ns)[i] = Ends(ns)[i - 1] + ns[i]
    BY <1>6, EndsRule
  <2>2. /\ Ends(ps) \in [0 .. m -> Nat] /\ Ends(ps)[0] = 0
        /\ \A i \in 1 .. m : Ends(ps)[i] = Ends(ps)[i - 1] + ps[i]
    BY <1>p, EndsRule
  <2>3. m \in 0 .. m
    BY <1>0
  <2> QED BY <2>1, <2>2, <2>3
<1>8. \A k \in Nat : k \in S
  <2>1. 0 \in S
    BY <1>7
  <2>2. ASSUME NEW k \in S PROVE k + 1 \in S
    <3>1. SUFFICES ASSUME k + 1 <= m PROVE Ends(ns)[k + 1] = Ends(ps)[k + 1]
      OBVIOUS
    <3>2. k + 1 \in 1 .. m /\ k + 1 \in 1 .. m + 2 /\ (k + 1) - 1 = k
      BY <1>0, <3>1
    <3>3. Ends(ns)[k] = Ends(ps)[k]
      BY <1>0, <2>2, <3>1
    <3> QED BY <1>4, <1>7, <3>2, <3>3
  <2>3. S \in SUBSET Nat
    OBVIOUS
  <2> HIDE DEF S
  <2> QED BY <2>1, <2>2, <2>3, Inductive
<1>9. Ends(ns)[m] = Ends(ps)[m]
  BY <1>0, <1>8
<1>10. m + 1 \in 1 .. m + 2 /\ m + 2 \in 1 .. m + 2 /\ (m + 1) - 1 = m /\ (m + 2) - 1 = m + 1
  BY <1>0
<1>11. Ends(ns)[m + 1] = Ends(ps)[m] + n /\ Ends(ns)[m + 2] = Ends(ns)[m + 1] + x
  BY <1>5, <1>7, <1>9, <1>10
<1>12. Ends(ns)[m + 2] = Ends(ps)[m] + n + x
  BY <1>7, <1>11
<1> QED BY <1>w, <1>12 DEF fs

(* The three layouts that end with a text or an address. *)
LEMMA TextEnds ==
  /\ \A vs : IsShort(vs[2]) => End(PTPText, vs) = 1 + Len(vs[2])
  /\ \A vs : IsShort(vs[3]) => End(Num(1) \o PTPText, vs) = 2 + Len(vs[3])
  /\ \A vs : IsShort(vs[3]) => End(PortAddress, vs) = 4 + Len(vs[3])
<1>1. ASSUME NEW vs, IsShort(vs[2]) PROVE End(PTPText, vs) = 1 + Len(vs[2])
  <2> DEFINE none == << >>
  <2>1. IsFixed(none) /\ Width(none) = 0 /\ Len(none) = 0
    BY FixedNone
  <2>2. none \o Var(1) = Var(1)
    <3>1. PICK T : Var(1) \in Seq(T)
      BY VarFields DEF IsSeq
    <3> QED BY <3>1, ConcatEmptySeq
  <2> HIDE DEF none
  <2>3. IsShort(vs[Len(none) + 2]) /\ Len(none) + 2 = 2
    BY <1>1, <2>1
  <2>4. End(none \o Var(1), vs) = Width(none) + 1 + Len(vs[Len(none) + 2])
    BY <2>1, <2>3, TextEnd
  <2> QED BY <1>1, <2>1, <2>2, <2>3, <2>4 DEF PTPText
<1>2. \A n \in Nat : Len(Num(n)) = 1
  BY DEF Num, Field
<1>3. ASSUME NEW vs, IsShort(vs[3]), NEW n \in Nat
      PROVE  End(Num(n) \o Var(n), vs) = n + n + Len(vs[3])
  <2> DEFINE pre == Num(n)
  <2>1. IsFixed(pre) /\ Width(pre) = n /\ Len(pre) = 1
    BY <1>2, FixedRules
  <2> HIDE DEF pre
  <2>2. IsShort(vs[Len(pre) + 2]) /\ Len(pre) + 2 = 3
    BY <1>3, <2>1
  <2>3. End(pre \o Var(n), vs) = Width(pre) + n + Len(vs[Len(pre) + 2])
    BY <2>1, <2>2, TextEnd
  <2> QED BY <2>1, <2>2, <2>3 DEF pre
<1>4. ASSUME NEW vs, IsShort(vs[3]) PROVE End(Num(1) \o PTPText, vs) = 2 + Len(vs[3])
  <2>1. End(Num(1) \o Var(1), vs) = 1 + 1 + Len(vs[3])
    BY <1>3, <1>4
  <2> QED BY <1>4, <2>1 DEF PTPText
<1>5. ASSUME NEW vs, IsShort(vs[3]) PROVE End(PortAddress, vs) = 4 + Len(vs[3])
  <2>1. End(Num(2) \o Var(2), vs) = 2 + 2 + Len(vs[3])
    BY <1>3, <1>5
  <2> QED BY <1>5, <2>1 DEF PortAddress
<1> QED BY <1>1, <1>4, <1>5

(* The layouts of the ids of variable size that are sent. *)
LEMMA VariableIds ==
  /\ \A t \in SentIds : SizeOf(t) = -2 =>
       t \in {"USER_DESCRIPTION", "ALTERNATE_TIME_OFFSET_NAME", "GRANDMASTER_CLUSTER_TABLE",
              "UNICAST_MASTER_TABLE", "ACCEPTABLE_MASTER_TABLE"}
  /\ AllLayouts["USER_DESCRIPTION"] = Plain(PTPText)
  /\ AllLayouts["ALTERNATE_TIME_OFFSET_NAME"] = Plain(Num(1) \o PTPText)
  /\ AllLayouts["GRANDMASTER_CLUSTER_TABLE"] = Counted(Num(1) \o Count(1), PortAddress)
  /\ AllLayouts["UNICAST_MASTER_TABLE"] = Counted(Num(1) \o Count(2), PortAddress)
  /\ AllLayouts["ACCEPTABLE_MASTER_TABLE"] = Counted(Count(2), AcceptableMaster)
<1>1. ASSUME NEW t \in SentIds, SizeOf(t) = -2
      PROVE  t \in {"USER_DESCRIPTION", "ALTERNATE_TIME_OFFSET_NAME", "GRANDMASTER_CLUSTER_TABLE",
                    "UNICAST_MASTER_TABLE", "ACCEPTABLE_MASTER_TABLE"}
  <2>1. t \notin GetOnlyIds
    BY DEF SentIds
  <2>2. t \in {"CLOCK_DESCRIPTION", "USER_DESCRIPTION", "FAULT_LOG", "PATH_TRACE_LIST",
               "GRANDMASTER_CLUSTER_TABLE", "UNICAST_MASTER_TABLE",
               "ACCEPTABLE_MASTER_TABLE", "ALTERNATE_TIME_OFFSET_NAME", "PORT_PROPERTIES_NP"}
    BY <1>1 DEF SizeOf
  <2> QED BY <2>1, <2>2 DEF GetOnlyIds
<1>2. /\ "USER_DESCRIPTION" \in DOMAIN ClockLayouts
      /\ ClockLayouts["USER_DESCRIPTION"] = Plain(PTPText)
  BY DEF ClockLayouts
<1> DEFINE T == TimeLayouts
<1>3. /\ "ALTERNATE_TIME_OFFSET_NAME" \in DOMAIN T /\ "GRANDMASTER_CLUSTER_TABLE" \in DOMAIN T
      /\ "UNICAST_MASTER_TABLE" \in DOMAIN T /\ "ACCEPTABLE_MASTER_TABLE" \in DOMAIN T
  BY DEF TimeLayouts
<1>4. /\ T["ALTERNATE_TIME_OFFSET_NAME"] = Plain(Num(1) \o PTPText)
      /\ T["GRANDMASTER_CLUSTER_TABLE"] = Counted(Num(1) \o Count(1), PortAddress)
      /\ T["UNICAST_MASTER_TABLE"] = Counted(Num(1) \o Count(2), PortAddress)
      /\ T["ACCEPTABLE_MASTER_TABLE"] = Counted(Count(2), AcceptableMaster)
  BY DEF TimeLayouts
<1> QED BY <1>1, <1>2, <1>3, <1>4, TablesTogether

(* A structure without records ends with its head. *)
LEMMA EndWithout ==
  ASSUME NEW t, NEW s, s.recs = << >>, End(Layout[t].head, s.head) \in Nat
  PROVE  StructEnd(t, s) = End(Layout[t].head, s.head)
<1> DEFINE ns == [r \in 1 .. Len(s.recs) |-> End(Layout[t].rec, s.recs[r])]
<1>1. Len(s.recs) = 0 /\ ns \in Seq(Nat)
  OBVIOUS
<1>2. Ends(ns)[0] = 0
  <2> HIDE DEF ns
  <2> QED BY <1>1, EndsRule
<1> QED BY <1>1, <1>2 DEF StructEnd, RecEnds

(* A table ends behind its records of which each takes base octets and its third field. *)
LEMMA TableEnd ==
  ASSUME NEW t, NEW s, s.recs \in Seq(Seq(Seq(Octet))), NEW base \in Nat,
         \A r \in 1 .. Len(s.recs) : End(Layout[t].rec, s.recs[r]) = base + Len(s.recs[r][3])
  PROVE  StructEnd(t, s) = End(Layout[t].head, s.head) + SumOfLens(s.recs, base)
<1>1. [r \in 1 .. Len(s.recs) |-> End(Layout[t].rec, s.recs[r])]
      = [r \in 1 .. Len(s.recs) |-> base + Len(s.recs[r][3])]
  OBVIOUS
<1> QED BY <1>1 DEF StructEnd, RecEnds, SumOfLens

(* What is made even stays even. *)
LEMMA EvenTwice == \A n \in Nat : Even(n) \in Nat /\ Even(n) + (Even(n) % 2) = Even(n)
  BY DEF Even

(* The planned length of a structure to send. *)
PlanOf(t, s) == Planned([tlv |-> t, head |-> s.head, recs |-> s.recs])

(* Ids with a size in ids.h. *)
LEMMA FixedPlans ==
  ASSUME Layout = AllLayouts, NEW t \in SentIds, NEW s, Sendable(t, s), SizeOf(t) # -2
  PROVE  PlanOf(t, s) = Even(StructEnd(t, s))
<1>1. t \in DOMAIN Layout /\ t \notin DOMAIN SigLayouts
  BY TablesTogether DEF SentIds, MngIds
<1>2. TablesAgree(t) /\ TableSize(t) = SizeOf(t)
  BY <1>1, LibraryTablesAgree DEF TableSize
<1> DEFINE h == Layout[t].head
           n == Width(h)
<1>3. Agrees(Layout[t], SizeOf(t))
  <2>1. CASE t \in DOMAIN ClockLayouts
    BY <2>1, TablesTogether, ClockSizes
  <2>2. CASE t \in DOMAIN TimeLayouts
    BY <2>2, TablesTogether, TimeSizes
  <2>3. CASE t \in DOMAIN PortLayouts
    BY <2>3, TablesTogether, PortSizes
  <2> QED BY <2>1, <2>2, <2>3 DEF SentIds, MngIds
<1>4. Layout[t].list = "none" /\ IsFixed(h) /\ SizeOf(t) = Even(n)
  BY <1>3, AgreesIsEven
<1>5. n \in Nat /\ End(h, s.head) = n
  BY <1>4, FixedEnd
<1>6. s.recs = << >>
  BY <1>4 DEF Sendable
<1>7. StructEnd(t, s) = n
  BY <1>5, <1>6, EndWithout
<1>8. PlanOf(t, s) = SizeOf(t) + (SizeOf(t) % 2)
  BY DEF PlanOf, Planned
<1> HIDE DEF n
<1> QED BY <1>4, <1>5, <1>7, <1>8, EvenTwice

(* A number with a text or an octet string behind it. *)
LEMMA TextBehind ==
  ASSUME NEW m \in Nat, NEW n \in Nat
  PROVE  Len(Num(m) \o Var(n)) = 3 /\ (Num(m) \o Var(n))[3].k = "body"
<1> DEFINE a == Num(m)
           b == Var(n)
<1>1. IsSeq(a) /\ IsSeq(b)
  BY VarFields, FixedRules DEF IsFixed
<1>2. Len(a) = 1 /\ Len(b) = 2 /\ b[2].k = "body"
  BY VarFields DEF Num, Field
<1> HIDE DEF a, b
<1>3. Len(a \o b) = Len(a) + Len(b) /\ \A i \in 1 .. Len(b) : (a \o b)[Len(a) + i] = b[i]
  BY ONLY <1>1, SeqOfBoth
<1>4. Len(a \o b) = 3 /\ (a \o b)[3] = b[2]
  <2>1. 2 \in 1 .. Len(b) /\ Len(a) + 2 = 3
    BY <1>2
  <2> QED BY <1>2, <1>3, <2>1
<1> QED BY <1>2, <1>4 DEF a, b

(* Ids with a size function: a text at the end. *)
LEMMA TextPlans ==
  ASSUME Layout = AllLayouts, NEW t, NEW s, Sendable(t, s), Short(t, s),
         t = "USER_DESCRIPTION" \/ t = "ALTERNATE_TIME_OFFSET_NAME"
  PROVE  PlanOf(t, s) = Even(StructEnd(t, s))
<1>1. Layout[t].list = "none" /\ s.recs = << >>
  BY VariableIds DEF Sendable, Plain
<1>2. \A i \in 1 .. Len(Layout[t].head) :
        /\ Len(s.head[i]) \in Nat
        /\ Layout[t].head[i].k = "body" => IsShort(s.head[i])
  BY DEF Sendable, IsStruct, HasShape, Short, ShortFields, IsShort
<1>3. CASE t = "USER_DESCRIPTION"
  <2>1. Layout[t].head = PTPText /\ Len(PTPText) = 2 /\ PTPText[2].k = "body"
    BY <1>3, VariableIds, VarFields DEF Plain, PTPText
  <2>2. Len(s.head[2]) \in Nat /\ IsShort(s.head[2])
    BY <1>2, <2>1
  <2>3. End(Layout[t].head, s.head) = 1 + Len(s.head[2])
    BY <2>1, <2>2, TextEnds
  <2>4. StructEnd(t, s) = 1 + Len(s.head[2])
    BY <1>1, <2>2, <2>3, EndWithout
  <2>5. SizeOf(t) = -2 /\ SizeBase(t) = 0
    BY <1>3 DEF SizeOf, SizeBase
  <2>6. DataFieldSize([tlv |-> t, head |-> s.head, recs |-> s.recs]) = 0 + (1 + Len(s.head[2]))
    BY <1>3, <2>5 DEF DataFieldSize
  <2>7. 0 + (1 + Len(s.head[2])) = StructEnd(t, s)
    BY <2>2, <2>4
  <2> QED BY <2>5, <2>6, <2>7 DEF PlanOf, Planned, Even
<1>4. CASE t = "ALTERNATE_TIME_OFFSET_NAME"
  <2>1. Layout[t].head = Num(1) \o PTPText
    BY <1>4, VariableIds DEF Plain
  <2>2. Len(Num(1) \o PTPText) = 3 /\ (Num(1) \o PTPText)[3].k = "body"
    BY TextBehind DEF PTPText
  <2>3. Len(s.head[3]) \in Nat /\ IsShort(s.head[3])
    BY <1>2, <2>1, <2>2
  <2>4. End(Layout[t].head, s.head) = 2 + Len(s.head[3])
    BY <2>1, <2>3, TextEnds
  <2>5. StructEnd(t, s) = 2 + Len(s.head[3])
    BY <1>1, <2>3, <2>4, EndWithout
  <2>6. SizeOf(t) = -2 /\ SizeBase(t) = 1
    BY <1>4 DEF SizeOf, SizeBase
  <2>7. DataFieldSize([tlv |-> t, head |-> s.head, recs |-> s.recs]) = 1 + (1 + Len(s.head[3]))
    BY <1>4, <2>6 DEF DataFieldSize
  <2>8. 1 + (1 + Len(s.head[3])) = StructEnd(t, s)
    BY <2>3, <2>5
  <2> QED BY <2>6, <2>7, <2>8 DEF PlanOf, Planned, Even
<1> QED BY <1>3, <1>4

(* Ids with a size function: a table of addresses. *)
LEMMA AddressPlans ==
  ASSUME Layout = AllLayouts, NEW t, NEW s, Sendable(t, s), Short(t, s),
         t = "GRANDMASTER_CLUSTER_TABLE" \/ t = "UNICAST_MASTER_TABLE"
  PROVE  PlanOf(t, s) = Even(StructEnd(t, s))
<1>1. Layout[t].rec = PortAddress /\ Len(PortAddress) = 3 /\ PortAddress[3].k = "body"
  <2>1. Layout[t].rec = PortAddress
    BY VariableIds DEF Counted
  <2>2. Len(PortAddress) = 3 /\ PortAddress[3].k = "body"
    BY TextBehind DEF PortAddress
  <2> QED BY <2>1, <2>2
<1>2. s.recs \in Seq(Seq(Seq(Octet)))
  BY DEF Sendable, IsStruct
<1>3. ASSUME NEW r \in 1 .. Len(s.recs)
      PROVE  Len(s.recs[r][3]) \in Nat /\ End(Layout[t].rec, s.recs[r]) = 4 + Len(s.recs[r][3])
  <2>1. HasShape(s.recs[r], Layout[t].rec)
    BY <1>3 DEF Sendable, IsStruct
  <2>2. Len(s.recs[r][3]) \in Nat
    BY <1>1, <2>1 DEF HasShape
  <2>3. ShortFields(Layout[t].rec, s.recs[r])
    BY <1>3 DEF Short
  <2>4. IsShort(s.recs[r][3])
    BY <1>1, <2>2, <2>3 DEF ShortFields, IsShort
  <2> QED BY <1>1, <2>2, <2>4, TextEnds
<1> DEFINE ns == [i \in 1 .. Len(s.recs) |-> 4 + Len(s.recs[i][3])]
<1>4. SumOfLens(s.recs, 4) \in Nat
  <2>1. ns \in Seq(Nat) /\ Len(ns) = Len(s.recs) /\ Len(s.recs) \in Nat
    BY <1>2, <1>3
  <2>2. SumOfLens(s.recs, 4) = Ends(ns)[Len(ns)]
    BY <2>1 DEF SumOfLens
  <2> HIDE DEF ns
  <2> QED BY <2>1, <2>2, EndsRule
<1>5. StructEnd(t, s) = End(Layout[t].head, s.head) + SumOfLens(s.recs, 4)
  BY <1>2, <1>3, TableEnd
<1>6. End(Layout[t].head, s.head) = SizeBase(t) /\ SizeBase(t) \in Nat
  <2>1. CASE t = "GRANDMASTER_CLUSTER_TABLE"
    <3>1. Layout[t].head = Num(1) \o Count(1)
      BY <2>1, VariableIds DEF Counted
    <3>2. IsFixed(Num(1) \o Count(1)) /\ Width(Num(1) \o Count(1)) = 2
      BY FixedRules
    <3>3. SizeBase(t) = 2
      BY <2>1 DEF SizeBase
    <3> QED BY <3>1, <3>2, <3>3, FixedEnd
  <2>2. CASE t = "UNICAST_MASTER_TABLE"
    <3>1. Layout[t].head = Num(1) \o Count(2)
      BY <2>2, VariableIds DEF Counted
    <3>2. IsFixed(Num(1) \o Count(2)) /\ Width(Num(1) \o Count(2)) = 3
      BY FixedRules
    <3>3. SizeBase(t) = 3
      BY <2>2 DEF SizeBase
    <3> QED BY <3>1, <3>2, <3>3, FixedEnd
  <2> QED BY <2>1, <2>2
<1>7. SizeOf(t) = -2
  BY DEF SizeOf
<1>8. DataFieldSize([tlv |-> t, head |-> s.head, recs |-> s.recs])
        = SizeBase(t) + SumOfLens(s.recs, 4)
  BY DEF DataFieldSize
<1> QED BY <1>5, <1>6, <1>7, <1>8 DEF PlanOf, Planned, Even

(* Ids with a size function: the table of masters. *)
LEMMA MasterPlans ==
  ASSUME Layout = AllLayouts, NEW t, NEW s, Sendable(t, s), t = "ACCEPTABLE_MASTER_TABLE"
  PROVE  PlanOf(t, s) = Even(StructEnd(t, s))
<1>1. Layout[t].head = Count(2) /\ Layout[t].rec = AcceptableMaster
  BY VariableIds DEF Counted
<1>2. End(Layout[t].head, s.head) = 2
  BY <1>1, FixedRules, FixedEnd
<1>3. \A r \in 1 .. Len(s.recs) : End(Layout[t].rec, s.recs[r]) = 11
  BY <1>1, FixedTypes, FixedEnd
<1>4. Len(s.recs) \in Nat
  BY DEF Sendable, IsStruct
<1> DEFINE n == Len(s.recs)
<1>5. [r \in 1 .. n |-> End(Layout[t].rec, s.recs[r])] = [r \in 1 .. n |-> 11]
  BY <1>3
<1>6. RecEnds(t, s)[n] = 11 * n
  BY <1>4, <1>5, EqualLens DEF RecEnds
<1>7. StructEnd(t, s) = 2 + 11 * n
  BY <1>2, <1>6 DEF StructEnd
<1>8. SizeOf(t) = -2 /\ SizeBase(t) = 2
  BY DEF SizeOf, SizeBase
<1>9. DataFieldSize([tlv |-> t, head |-> s.head, recs |-> s.recs]) = 2 + 11 * n
  BY <1>8 DEF DataFieldSize
<1> QED BY <1>7, <1>8, <1>9 DEF PlanOf, Planned, Even

(* For every structure that is sent, of any size. *)
LEMMA LibraryPlans ==
  ASSUME Layout = AllLayouts, NEW t \in SentIds, NEW s, Sendable(t, s), Short(t, s)
  PROVE  PlanOf(t, s) = Even(StructEnd(t, s))
  BY VariableIds, FixedPlans, TextPlans, AddressPlans, MasterPlans

(* Fields that hold nothing but what is always there. *)
LEMMA EmptyEnd ==
  ASSUME NEW fs, IsSized(fs)
  PROVE  End(fs, [i \in 1 .. Len(fs) |-> << >>]) = Width(fs) /\ Width(fs) \in Nat
<1> DEFINE vs == [i \in 1 .. Len(fs) |-> << >>]
           ns == [i \in 1 .. Len(fs) |-> fs[i].n]
<1>1. ns \in Seq(Nat) /\ Len(ns) = Len(fs) /\ Len(fs) \in Nat
  BY SizedLens
<1>2. \A i \in 1 .. Len(fs) : Len(vs[i]) = 0
  OBVIOUS
<1>3. Cut16(0) = 0
  BY Cut16Type
<1>4. Takes(fs, vs) = ns
  <2> HIDE DEF vs
  <2>1. \A i \in 1 .. Len(fs) :
          (IF fs[i].k = "body" THEN Cut16(Len(vs[i])) ELSE fs[i].n) = fs[i].n
    BY <1>2, <1>3 DEF IsSized
  <2> QED BY <2>1 DEF Takes
<1>5. Width(fs) = Ends(ns)[Len(fs)]
  BY DEF Width
<1> HIDE DEF vs, ns
<1>6. Ends(ns)[Len(fs)] \in Nat
  BY <1>1, EndsRule
<1> QED BY <1>4, <1>5, <1>6 DEF End, vs

(* l fields, of n octets where their texts and octet strings are empty. *)
Spans(fs, n, l) == IsSized(fs) /\ Width(fs) = n /\ Len(fs) = l

(* Fields after fields. *)
LEMMA SpansBoth ==
  ASSUME NEW s, NEW t, NEW m \in Nat, NEW n \in Nat, NEW k \in Nat, NEW l \in Nat,
         Spans(s, m, k), Spans(t, n, l)
  PROVE  Spans(s \o t, m + n, k + l)
<1>1. IsSized(s) /\ IsSized(t) /\ Width(s) = m /\ Width(t) = n /\ Len(s) = k /\ Len(t) = l
  BY DEF Spans
<1>2. /\ IsSized(s \o t) /\ Width(s \o t) = Width(s) + Width(t)
      /\ Len(s \o t) = Len(s) + Len(t)
  BY <1>1, SizedBoth
<1> QED BY <1>1, <1>2 DEF Spans

(* What the layouts with texts are put together from. *)
LEMMA SpansOne ==
  /\ \A n \in Nat : /\ Spans(Num(n), n, 1) /\ Spans(Octets(n), n, 1)
                    /\ Spans(Count(n), n, 1) /\ Spans(Var(n), n, 2)
  /\ Spans(Reserved, 1, 1) /\ Spans(<< >>, 0, 0)
<1>1. ASSUME NEW n \in Nat
      PROVE  Spans(Num(n), n, 1) /\ Spans(Octets(n), n, 1) /\ Spans(Count(n), n, 1)
  <2>1. Len(Num(n)) = 1 /\ Len(Octets(n)) = 1 /\ Len(Count(n)) = 1
    BY DEF Num, Octets, Count, Field
  <2> QED BY <2>1, FixedRules, FixedIsSized DEF Spans
<1>2. ASSUME NEW n \in Nat PROVE Spans(Var(n), n, 2)
  <2> DEFINE f == [k |-> "len", n |-> n, lo |-> 1, hi |-> 256]
             g == [k |-> "body", n |-> 0, lo |-> 1, hi |-> 256]
             a == <<f>>
             b == <<g>>
  <2>1. f.n = n /\ f.k # "body" /\ g.n = 0 /\ Var(n) = a \o b
    BY DEF Var, Field
  <2> HIDE DEF f, g
  <2>2. IsSized(a) /\ Width(a) = n
    BY <2>1, SizedOne
  <2>3. IsSized(b) /\ Width(b) = 0
    BY <2>1, SizedOne
  <2> HIDE DEF a, b
  <2>4. IsSized(a \o b) /\ Width(a \o b) = Width(a) + Width(b)
    BY <2>2, <2>3, SizedBoth
  <2>5. IsSized(Var(n)) /\ Width(Var(n)) = n
    BY <2>1, <2>2, <2>3, <2>4
  <2>6. Len(Var(n)) = 2
    BY VarFields
  <2> QED BY <2>5, <2>6 DEF Spans
<1>3. Spans(Reserved, 1, 1)
  <2>1. Len(Reserved) = 1
    BY DEF Reserved, Field
  <2> QED BY <2>1, FixedRules, FixedIsSized DEF Spans
<1>4. Spans(<< >>, 0, 0)
  <2>1. IsSized(<< >>) /\ Width(<< >>) = 0
    BY FixedNone, FixedIsSized
  <2> QED BY <2>1 DEF Spans
<1> QED BY <1>1, <1>2, <1>3, <1>4

(* The fields that are always there of a description of a clock. *)
LEMMA DescriptionSpans ==
  Spans(Num(2) \o PTPText \o Var(2) \o PortAddress \o Octets(3) \o Reserved
        \o PTPText \o PTPText \o PTPText \o Octets(6), 22, 17)
<1> DEFINE a == Num(2)
           b == Octets(6)
           h1 == a \o PTPText
           h2 == h1 \o Var(2)
           h3 == h2 \o PortAddress
           h4 == h3 \o Octets(3)
           h5 == h4 \o Reserved
           h6 == h5 \o PTPText
           h7 == h6 \o PTPText
           h8 == h7 \o PTPText
           h9 == h8 \o b
<1>1. /\ Spans(a, 2, 1) /\ Spans(b, 6, 1) /\ Spans(Octets(3), 3, 1) /\ Spans(Reserved, 1, 1)
      /\ Spans(Var(2), 2, 2)
  BY SpansOne
<1>2. Spans(PTPText, 1, 2)
  BY SpansOne DEF PTPText
<1>3. Spans(PortAddress, 2 + 2, 1 + 2)
  BY <1>1, SpansBoth DEF PortAddress, a
<1> HIDE DEF a, b, h1, h2, h3, h4, h5, h6, h7, h8, h9
<1>4. Spans(h1, 2 + 1, 1 + 2)
  BY ONLY <1>1, <1>2, SpansBoth DEF h1
<1>5. Spans(h2, 3 + 2, 3 + 2)
  BY ONLY <1>1, <1>4, SpansBoth DEF h2
<1>6. Spans(h3, 5 + 4, 5 + 3)
  BY ONLY <1>3, <1>5, SpansBoth DEF h3
<1>7. Spans(h4, 9 + 3, 8 + 1)
  BY ONLY <1>1, <1>6, SpansBoth DEF h4
<1>8. Spans(h5, 12 + 1, 9 + 1)
  BY ONLY <1>1, <1>7, SpansBoth DEF h5
<1>9. Spans(h6, 13 + 1, 10 + 2)
  BY ONLY <1>2, <1>8, SpansBoth DEF h6
<1>10. Spans(h7, 14 + 1, 12 + 2)
  BY ONLY <1>2, <1>9, SpansBoth DEF h7
<1>11. Spans(h8, 15 + 1, 14 + 2)
  BY ONLY <1>2, <1>10, SpansBoth DEF h8
<1>12. Spans(h9, 16 + 6, 16 + 1)
  BY ONLY <1>1, <1>11, SpansBoth DEF h9
<1>13. Spans(h9, 22, 17)
  BY <1>12
<1> QED BY <1>13 DEF a, b, h1, h2, h3, h4, h5, h6, h7, h8, h9

(* Those of the properties of a port, and of the tables and texts. *)
LEMMA OtherSpans ==
  /\ Spans(PortIdentity \o Num(1) \o Num(1) \o PTPText, 13, 6)
  /\ Spans(PTPText, 1, 2) /\ Spans(Num(1) \o PTPText, 2, 3)
  /\ Spans(Num(1) \o Count(1), 2, 2) /\ Spans(Num(1) \o Count(2), 3, 2)
  /\ Spans(Count(2), 2, 1) /\ Spans(<< >>, 0, 0)
<1> DEFINE one == Num(1)
           two == Num(2)
           id == Octets(8)
           c1 == Count(1)
           c2 == Count(2)
           t == PTPText
           p == id \o two
           p1 == p \o one
           p2 == p1 \o one
           p3 == p2 \o t
<1>1. /\ Spans(one, 1, 1) /\ Spans(two, 2, 1) /\ Spans(id, 8, 1) /\ Spans(c1, 1, 1)
      /\ Spans(c2, 2, 1) /\ Spans(<< >>, 0, 0)
  BY SpansOne
<1>2. Spans(t, 1, 2)
  BY SpansOne DEF PTPText
<1> HIDE DEF one, two, id, c1, c2, t, p, p1, p2, p3
<1>3. Spans(one \o t, 1 + 1, 1 + 2)
  BY ONLY <1>1, <1>2, SpansBoth
<1>4. Spans(one \o c1, 1 + 1, 1 + 1)
  BY ONLY <1>1, SpansBoth
<1>5. Spans(one \o c2, 1 + 2, 1 + 1)
  BY ONLY <1>1, SpansBoth
<1>6. Spans(p, 8 + 2, 1 + 1)
  BY ONLY <1>1, SpansBoth DEF p
<1>7. Spans(p1, 10 + 1, 2 + 1)
  BY ONLY <1>1, <1>6, SpansBoth DEF p1
<1>8. Spans(p2, 11 + 1, 3 + 1)
  BY ONLY <1>1, <1>7, SpansBoth DEF p2
<1>9. Spans(p3, 12 + 1, 4 + 2)
  BY ONLY <1>2, <1>8, SpansBoth DEF p3
<1>10. /\ Spans(p3, 13, 6) /\ Spans(one \o t, 2, 3) /\ Spans(one \o c1, 2, 2)
       /\ Spans(one \o c2, 3, 2)
  BY <1>3, <1>4, <1>5, <1>9
<1> QED BY <1>1, <1>2, <1>10 DEF one, two, id, c1, c2, t, p, p1, p2, p3, PortIdentity, ClockIdentity

(* The heads of the nine layouts of variable size. *)
LEMMA VariableHeads ==
  /\ Spans(AllLayouts["CLOCK_DESCRIPTION"].head, 22, 17)
  /\ Spans(AllLayouts["USER_DESCRIPTION"].head, 1, 2)
  /\ Spans(AllLayouts["FAULT_LOG"].head, 2, 1)
  /\ Spans(AllLayouts["PATH_TRACE_LIST"].head, 0, 0)
  /\ Spans(AllLayouts["GRANDMASTER_CLUSTER_TABLE"].head, 2, 2)
  /\ Spans(AllLayouts["UNICAST_MASTER_TABLE"].head, 3, 2)
  /\ Spans(AllLayouts["ACCEPTABLE_MASTER_TABLE"].head, 2, 1)
  /\ Spans(AllLayouts["ALTERNATE_TIME_OFFSET_NAME"].head, 2, 3)
  /\ Spans(AllLayouts["PORT_PROPERTIES_NP"].head, 13, 6)
<1> DEFINE cd == Num(2) \o PTPText \o Var(2) \o PortAddress \o Octets(3) \o Reserved
                 \o PTPText \o PTPText \o PTPText \o Octets(6)
           pp == PortIdentity \o Num(1) \o Num(1) \o PTPText
<1>1. /\ "CLOCK_DESCRIPTION" \in DOMAIN ClockLayouts /\ "FAULT_LOG" \in DOMAIN ClockLayouts
      /\ ClockLayouts["CLOCK_DESCRIPTION"] = Plain(cd)
      /\ ClockLayouts["FAULT_LOG"] = Counted(Count(2), FaultRecord)
  BY DEF ClockLayouts
<1>2. /\ "PATH_TRACE_LIST" \in DOMAIN TimeLayouts
      /\ TimeLayouts["PATH_TRACE_LIST"] = Open(<< >>, ClockIdentity, 8)
  BY DEF TimeLayouts
<1>3. /\ "PORT_PROPERTIES_NP" \in DOMAIN PortLayouts
      /\ PortLayouts["PORT_PROPERTIES_NP"] = Plain(pp)
  BY DEF PortLayouts
<1> HIDE DEF cd, pp
<1>4. /\ AllLayouts["CLOCK_DESCRIPTION"].head = cd
      /\ AllLayouts["FAULT_LOG"].head = Count(2)
  BY <1>1, TablesTogether DEF Plain, Counted
<1>5. AllLayouts["PATH_TRACE_LIST"].head = << >>
  BY <1>2, TablesTogether DEF Open
<1>6. AllLayouts["PORT_PROPERTIES_NP"].head = pp
  BY <1>3, TablesTogether DEF Plain
<1>7. /\ AllLayouts["USER_DESCRIPTION"].head = PTPText
      /\ AllLayouts["ALTERNATE_TIME_OFFSET_NAME"].head = Num(1) \o PTPText
      /\ AllLayouts["GRANDMASTER_CLUSTER_TABLE"].head = Num(1) \o Count(1)
      /\ AllLayouts["UNICAST_MASTER_TABLE"].head = Num(1) \o Count(2)
      /\ AllLayouts["ACCEPTABLE_MASTER_TABLE"].head = Count(2)
  BY VariableIds DEF Plain, Counted
<1>8. Spans(cd, 22, 17) /\ Spans(pp, 13, 6)
  BY DescriptionSpans, OtherSpans DEF cd, pp
<1>9. /\ Spans(AllLayouts["CLOCK_DESCRIPTION"].head, 22, 17)
      /\ Spans(AllLayouts["FAULT_LOG"].head, 2, 1)
      /\ Spans(AllLayouts["PATH_TRACE_LIST"].head, 0, 0)
      /\ Spans(AllLayouts["PORT_PROPERTIES_NP"].head, 13, 6)
  BY <1>4, <1>5, <1>6, <1>8, OtherSpans, Zenon
<1>10. /\ Spans(AllLayouts["USER_DESCRIPTION"].head, 1, 2)
       /\ Spans(AllLayouts["GRANDMASTER_CLUSTER_TABLE"].head, 2, 2)
       /\ Spans(AllLayouts["UNICAST_MASTER_TABLE"].head, 3, 2)
       /\ Spans(AllLayouts["ACCEPTABLE_MASTER_TABLE"].head, 2, 1)
       /\ Spans(AllLayouts["ALTERNATE_TIME_OFFSET_NAME"].head, 2, 3)
  BY <1>7, OtherSpans, Zenon
<1> QED BY <1>9, <1>10

(* The end of the structure that a GET of variable size sends, and its fields. *)
LEMMA EmptyStructEnd ==
  ASSUME NEW t, IsSized(Layout[t].head)
  PROVE  /\ StructEnd(t, EmptyStruct(t)) = Width(Layout[t].head)
         /\ EmptyStruct(t).tlv = t /\ EmptyStruct(t).recs = << >>
         /\ \A i \in 1 .. Len(Layout[t].head) : Len(EmptyStruct(t).head[i]) = 0
<1> DEFINE fs == Layout[t].head
           s == EmptyStruct(t)
<1>1. s.tlv = t /\ s.head = [i \in 1 .. Len(fs) |-> << >>] /\ s.recs = << >>
  BY DEF EmptyStruct
<1>2. End(fs, s.head) = Width(fs) /\ Width(fs) \in Nat
  BY <1>1, EmptyEnd
<1>3. \A i \in 1 .. Len(fs) : Len(s.head[i]) = 0
  BY <1>1
<1> HIDE DEF s
<1>4. StructEnd(t, s) = Width(fs)
  BY <1>1, <1>2, EndWithout
<1> QED BY <1>1, <1>3, <1>4 DEF s

(* No record takes no octet. *)
LEMMA NoRecords ==
  /\ \A base : SumOfLens(<< >>, base) = 0
  /\ Ends([i \in 1 .. Len(<< >>) |-> FaultSize(<< >>[i])])[Len(<< >>)] = 0
<1>1. ASSUME NEW ns, ns \in Seq(Nat), Len(ns) = 0 PROVE Ends(ns)[0] = 0
  BY <1>1, EndsRule
<1>2. ASSUME NEW base PROVE SumOfLens(<< >>, base) = 0
  <2> DEFINE ns == [i \in 1 .. Len(<< >>) |-> base + Len(<< >>[i][3])]
  <2>1. ns \in Seq(Nat) /\ Len(ns) = 0
    OBVIOUS
  <2> HIDE DEF ns
  <2>2. Ends(ns)[0] = 0
    BY <1>1, <2>1
  <2> QED BY <2>2 DEF SumOfLens, ns
<1>3. Ends([i \in 1 .. Len(<< >>) |-> FaultSize(<< >>[i])])[Len(<< >>)] = 0
  <2> DEFINE ns == [i \in 1 .. Len(<< >>) |-> FaultSize(<< >>[i])]
  <2>1. ns \in Seq(Nat) /\ Len(ns) = 0
    OBVIOUS
  <2> HIDE DEF ns
  <2>2. Ends(ns)[0] = 0
    BY <1>1, <2>1
  <2> QED BY <2>2 DEF ns
<1> QED BY <1>2, <1>3

(* The nine size functions of proc.cpp with the empty structure of a GET. *)
LEMMA EmptyPlans ==
  ASSUME Layout = AllLayouts, NEW t, SizeOf(t) = -2
  PROVE  Planned(EmptyStruct(t)) = Even(StructEnd(t, EmptyStruct(t)))
<1> DEFINE s == EmptyStruct(t)
           h == Layout[t].head
<1>1. t \in {"CLOCK_DESCRIPTION", "USER_DESCRIPTION", "FAULT_LOG", "PATH_TRACE_LIST",
             "GRANDMASTER_CLUSTER_TABLE", "UNICAST_MASTER_TABLE",
             "ACCEPTABLE_MASTER_TABLE", "ALTERNATE_TIME_OFFSET_NAME", "PORT_PROPERTIES_NP"}
  BY DEF SizeOf
<1>2. IsSized(h)
  BY <1>1, VariableHeads DEF Spans
<1>3. /\ StructEnd(t, s) = Width(h) /\ s.tlv = t /\ s.recs = << >>
      /\ \A i \in 1 .. Len(h) : Len(s.head[i]) = 0
  BY <1>2, EmptyStructEnd
<1>4. Planned(s) = Even(DataFieldSize(s))
  BY <1>3 DEF Planned, Even
<1> HIDE DEF s
<1>5. t = "CLOCK_DESCRIPTION" => DataFieldSize(s) = 21 /\ Width(h) = 22
  <2> SUFFICES ASSUME t = "CLOCK_DESCRIPTION" PROVE DataFieldSize(s) = 21 /\ Width(h) = 22
    OBVIOUS
  <2>1. Width(h) = 22 /\ Len(h) = 17
    BY VariableHeads DEF Spans
  <2>2. /\ 3 \in 1 .. Len(h) /\ 5 \in 1 .. Len(h) /\ 8 \in 1 .. Len(h)
        /\ 12 \in 1 .. Len(h) /\ 14 \in 1 .. Len(h) /\ 16 \in 1 .. Len(h)
    BY ONLY <2>1
  <2>3. /\ Len(s.head[3]) = 0 /\ Len(s.head[5]) = 0 /\ Len(s.head[8]) = 0
        /\ Len(s.head[12]) = 0 /\ Len(s.head[14]) = 0 /\ Len(s.head[16]) = 0
    BY <1>3, <2>2
  <2>4. SizeBase(s.tlv) = 13
    BY <1>3 DEF SizeBase
  <2> QED BY <1>3, <2>1, <2>3, <2>4 DEF DataFieldSize
<1>6. t = "USER_DESCRIPTION" => DataFieldSize(s) = 1 /\ Width(h) = 1
  <2> SUFFICES ASSUME t = "USER_DESCRIPTION" PROVE DataFieldSize(s) = 1 /\ Width(h) = 1
    OBVIOUS
  <2>1. Width(h) = 1 /\ Len(h) = 2
    BY VariableHeads DEF Spans
  <2>2. 2 \in 1 .. Len(h)
    BY ONLY <2>1
  <2>3. Len(s.head[2]) = 0
    BY <1>3, <2>2
  <2>4. SizeBase(s.tlv) = 0
    BY <1>3 DEF SizeBase
  <2> QED BY <1>3, <2>1, <2>3, <2>4 DEF DataFieldSize
<1>7. t = "FAULT_LOG" => DataFieldSize(s) = 2 /\ Width(h) = 2
  BY <1>3, VariableHeads, NoRecords DEF DataFieldSize, SizeBase, Spans
<1>8. t = "PATH_TRACE_LIST" => DataFieldSize(s) = 0 /\ Width(h) = 0
  BY <1>3, VariableHeads DEF DataFieldSize, SizeBase, Spans
<1>9. t = "GRANDMASTER_CLUSTER_TABLE" => DataFieldSize(s) = 2 /\ Width(h) = 2
  BY <1>3, VariableHeads, NoRecords DEF DataFieldSize, SizeBase, Spans
<1>10. t = "UNICAST_MASTER_TABLE" => DataFieldSize(s) = 3 /\ Width(h) = 3
  BY <1>3, VariableHeads, NoRecords DEF DataFieldSize, SizeBase, Spans
<1>11. t = "ACCEPTABLE_MASTER_TABLE" => DataFieldSize(s) = 2 /\ Width(h) = 2
  BY <1>3, VariableHeads DEF DataFieldSize, SizeBase, Spans
<1>12. t = "ALTERNATE_TIME_OFFSET_NAME" => DataFieldSize(s) = 2 /\ Width(h) = 2
  <2> SUFFICES ASSUME t = "ALTERNATE_TIME_OFFSET_NAME" PROVE DataFieldSize(s) = 2 /\ Width(h) = 2
    OBVIOUS
  <2>1. Width(h) = 2 /\ Len(h) = 3
    BY VariableHeads DEF Spans
  <2>2. 3 \in 1 .. Len(h)
    BY ONLY <2>1
  <2>3. Len(s.head[3]) = 0
    BY <1>3, <2>2
  <2>4. SizeBase(s.tlv) = 1
    BY <1>3 DEF SizeBase
  <2> QED BY <1>3, <2>1, <2>3, <2>4 DEF DataFieldSize
<1>13. t = "PORT_PROPERTIES_NP" => DataFieldSize(s) = 13 /\ Width(h) = 13
  <2> SUFFICES ASSUME t = "PORT_PROPERTIES_NP" PROVE DataFieldSize(s) = 13 /\ Width(h) = 13
    OBVIOUS
  <2>1. Width(h) = 13 /\ Len(h) = 6
    BY VariableHeads DEF Spans
  <2>2. 6 \in 1 .. Len(h)
    BY ONLY <2>1
  <2>3. Len(s.head[6]) = 0
    BY <1>3, <2>2
  <2>4. SizeBase(s.tlv) = 12
    BY <1>3 DEF SizeBase
  <2> QED BY <1>3, <2>1, <2>3, <2>4 DEF DataFieldSize
<1>14. Even(DataFieldSize(s)) = Even(Width(h))
  BY <1>1, <1>5, <1>6, <1>7, <1>8, <1>9, <1>10, <1>11, <1>12, <1>13 DEF Even
<1> QED BY <1>3, <1>4, <1>14 DEF s

(* The strengthening tells which structure is built. *)
LEMMA SizesFromWire ==
  ASSUME LibraryTables
  PROVE  WireInv => SizesAgree
<1>1. Layout = AllLayouts
  BY DEF LibraryTables
<1> SUFFICES ASSUME WireInv, tlv \in DOMAIN Layout
             PROVE  SizesAgree
  BY DEF SizesAgree
<1>2. TablesAgree(tlv)
  BY <1>1, LibraryTablesAgree
<1>3. TableSize(tlv) = -2 /\ tlv \notin DOMAIN SigLayouts
        => Planned(EmptyStruct(tlv)) = Even(StructEnd(tlv, EmptyStruct(tlv)))
  BY <1>1, EmptyPlans DEF TableSize
<1>4. op = "build" => Sendable(tlv, d) /\ tlv \in SentIds
  BY DEF WireInv, BuildInv, Sendable
<1>5. op = "build" /\ Short(tlv, d) => PlanOf(tlv, d) = Even(StructEnd(tlv, d))
  BY <1>1, <1>4, LibraryPlans
<1> QED BY <1>2, <1>3, <1>5 DEF SizesAgree, PlanOf

(***************************************************************************)
(* With the tables and functions of the library, and for structures of any *)
(* number of records and texts and addresses below 65536 octets: the       *)
(* column of sizes in ids.h, the size() of the records of open lists and   *)
(* the size functions of proc.cpp count, but for an octet that makes the   *)
(* sum even, the octets that the calls of proc() move. So do all nine size *)
(* functions with the empty structure of a GET; CLOCK_DESCRIPTION_s, which *)
(* counts one octet too few, is right by that octet alone.                 *)
(***************************************************************************)
THEOREM LibrarySizesAgree ==
  ASSUME LibraryTables
  PROVE  CodecSpec => []SizesAgree
<1>1. WireInv => SizesAgree
  BY SizesFromWire
<1> QED BY <1>1, CodecIsUse, WireHolds, PTL

(* Fields without a Float64_t. *)
Floatless(fs) == IsSeq(fs) /\ \A i \in 1 .. Len(fs) : fs[i].k # "float"
NoFloatIn(lay) == Floatless(lay.head) /\ Floatless(lay.rec)

(* One field, and fields after fields. *)
LEMMA FloatlessOne == ASSUME NEW f, f.k # "float" PROVE Floatless(<<f>>)
<1>1. <<f>> \in Seq({f}) /\ Len(<<f>>) = 1 /\ <<f>>[1] = f
  OBVIOUS
<1>2. IsSeq(<<f>>)
  BY <1>1 DEF IsSeq
<1> QED BY <1>1, <1>2 DEF Floatless

(* Fields after fields. *)
LEMMA FloatlessBoth ==
  ASSUME NEW s, NEW t, Floatless(s), Floatless(t)
  PROVE  Floatless(s \o t)
<1>1. IsSeq(s) /\ IsSeq(t)
  BY DEF Floatless
<1>2. /\ IsSeq(s \o t) /\ Len(s) \in Nat /\ Len(t) \in Nat
      /\ Len(s \o t) = Len(s) + Len(t)
      /\ \A i \in 1 .. Len(s) : (s \o t)[i] = s[i]
      /\ \A i \in 1 .. Len(t) : (s \o t)[Len(s) + i] = t[i]
  BY ONLY <1>1, SeqOfBoth
<1>3. ASSUME NEW i \in 1 .. Len(s \o t) PROVE (s \o t)[i].k # "float"
  <2>1. CASE i \in 1 .. Len(s)
    BY <1>2, <2>1 DEF Floatless
  <2>2. CASE i \notin 1 .. Len(s)
    <3> DEFINE j == i - Len(s)
    <3>1. j \in 1 .. Len(t) /\ i = Len(s) + j
      BY <1>2, <2>2
    <3> HIDE DEF j
    <3> QED BY <1>2, <3>1 DEF Floatless
  <2> QED BY <2>1, <2>2
<1> QED BY <1>2, <1>3 DEF Floatless

(* What the layouts are put together from. *)
LEMMA FloatlessRules ==
  /\ Floatless(<< >>)
  /\ \A n : Floatless(Num(n)) /\ Floatless(Octets(n)) /\ Floatless(Count(n)) /\ Floatless(Var(n))
  /\ \A lo, hi : Floatless(Flags(lo, hi))
  /\ Floatless(Flag) /\ Floatless(Reserved)
  /\ Floatless(Field("fault", 0)) /\ Floatless(Field("tail", 0))
  /\ Floatless(Field("high16", 2))
  /\ Floatless([i \in 1 .. 32 |-> Field("le", 8)[1]])
  /\ \A s, t : Floatless(s) /\ Floatless(t) => Floatless(s \o t)
<1>1. ASSUME NEW k, k # "float", NEW n PROVE Floatless(Field(k, n))
  <2> DEFINE f == [k |-> k, n |-> n, lo |-> 1, hi |-> 256]
  <2>1. f.k # "float"
    BY <1>1
  <2> HIDE DEF f
  <2>2. Floatless(<<f>>)
    BY <2>1, FloatlessOne
  <2> QED BY <2>2 DEF Field, f
<1>2. ASSUME NEW lo, NEW hi PROVE Floatless(Flags(lo, hi))
  <2> DEFINE f == [k |-> "flags", n |-> 1, lo |-> lo, hi |-> hi]
  <2>1. f.k # "float"
    OBVIOUS
  <2> HIDE DEF f
  <2>2. Floatless(<<f>>)
    BY <2>1, FloatlessOne
  <2> QED BY <2>2 DEF Flags, f
<1>3. \A n : Floatless(Num(n)) /\ Floatless(Octets(n)) /\ Floatless(Count(n))
  BY <1>1 DEF Num, Octets, Count
<1>4. \A n : Floatless(Var(n))
  BY <1>1, FloatlessBoth DEF Var
<1>5. Floatless(Flag) /\ Floatless(Reserved)
  BY <1>1, <1>2 DEF Flag, Reserved
<1>6. Floatless(Field("fault", 0)) /\ Floatless(Field("tail", 0)) /\ Floatless(Field("high16", 2))
  BY <1>1
<1>7. Floatless([i \in 1 .. 32 |-> Field("le", 8)[1]])
  <2> DEFINE f == [k |-> "le", n |-> 8, lo |-> 1, hi |-> 256]
             cs == [i \in 1 .. 32 |-> f]
  <2>1. f.k # "float" /\ Field("le", 8)[1] = f
    BY DEF Field
  <2> HIDE DEF f
  <2>2. cs \in Seq({f}) /\ Len(cs) = 32 /\ \A i \in 1 .. 32 : cs[i] = f
    OBVIOUS
  <2>3. IsSeq(cs)
    BY <2>2 DEF IsSeq
  <2> HIDE DEF cs
  <2>4. Floatless(cs)
    BY <2>1, <2>2, <2>3 DEF Floatless
  <2> QED BY <2>1, <2>4 DEF cs
<1>8. Floatless(<< >>)
  <2>1. << >> \in Seq({})
    OBVIOUS
  <2> QED BY <2>1 DEF Floatless, IsSeq
<1> QED BY <1>2, <1>3, <1>4, <1>5, <1>6, <1>7, <1>8, FloatlessBoth

(* The types of IEEE 1588, and the records of the lists. *)
LEMMA FloatlessTypes ==
  /\ Floatless(U48) /\ Floatless(TimeInterval) /\ Floatless(Timestamp)
  /\ Floatless(ClockIdentity) /\ Floatless(PortIdentity) /\ Floatless(PortAddress)
  /\ Floatless(ClockQuality) /\ Floatless(PTPText) /\ Floatless(FaultRecord)
  /\ Floatless(AcceptableMaster) /\ Floatless(RxSyncRecord) /\ Floatless(ComputedRecord)
  /\ Floatless(TxEventRecord) /\ Floatless(DelayRecord)
<1>1. Floatless(U48) /\ Floatless(TimeInterval) /\ Floatless(ClockIdentity) /\ Floatless(PTPText)
  BY FloatlessRules DEF U48, TimeInterval, ClockIdentity, PTPText
<1>2. Floatless(Timestamp) /\ Floatless(PortIdentity) /\ Floatless(PortAddress)
  BY <1>1, FloatlessRules DEF Timestamp, PortIdentity, PortAddress
<1>3. Floatless(ClockQuality) /\ Floatless(FaultRecord) /\ Floatless(AcceptableMaster)
  BY <1>1, <1>2, FloatlessRules DEF ClockQuality, FaultRecord, AcceptableMaster
<1>4. /\ Floatless(RxSyncRecord) /\ Floatless(ComputedRecord)
      /\ Floatless(TxEventRecord) /\ Floatless(DelayRecord)
  BY <1>1, <1>2, FloatlessRules DEF RxSyncRecord, ComputedRecord, TxEventRecord, DelayRecord
<1> QED BY <1>1, <1>2, <1>3, <1>4

(* The three kinds of layouts. *)
LEMMA FloatlessLayouts ==
  /\ \A h : Floatless(h) => NoFloatIn(Plain(h))
  /\ \A h, r : Floatless(h) /\ Floatless(r) => NoFloatIn(Counted(h, r))
  /\ \A h, r, n : Floatless(h) /\ Floatless(r) => NoFloatIn(Open(h, r, n))
  BY FloatlessRules DEF NoFloatIn, Plain, Counted, Open

(* Only the enhanced accuracy metrics have a Float64_t. *)
LEMMA OnlyMetricsFloat ==
  ASSUME Layout = AllLayouts
  PROVE  \A t : t # "ENHANCED_ACCURACY_METRICS" => NoFloat(t)
<1> SUFFICES ASSUME NEW t \in DOMAIN Layout, t # "ENHANCED_ACCURACY_METRICS"
             PROVE  NoFloatIn(Layout[t])
  BY DEF NoFloat, NoFloatIn, Floatless
<1>1. \A id \in DOMAIN ClockLayouts : NoFloatIn(ClockLayouts[id])
  <2> DEFINE T == ClockLayouts
  <2>1. /\ NoFloatIn(T.CLOCK_DESCRIPTION)
        /\ NoFloatIn(T.USER_DESCRIPTION)
        /\ NoFloatIn(T.INITIALIZE)
        /\ NoFloatIn(T.FAULT_LOG)
        /\ NoFloatIn(T.DEFAULT_DATA_SET)
        /\ NoFloatIn(T.CURRENT_DATA_SET)
    BY FloatlessRules, FloatlessTypes, FloatlessLayouts DEF ClockLayouts
  <2>2. /\ NoFloatIn(T.PARENT_DATA_SET)
        /\ NoFloatIn(T.TIME_PROPERTIES_DATA_SET)
        /\ NoFloatIn(T.PORT_DATA_SET)
        /\ NoFloatIn(T.PRIORITY1)
        /\ NoFloatIn(T.PRIORITY2)
        /\ NoFloatIn(T.DOMAIN_)
    BY FloatlessRules, FloatlessTypes, FloatlessLayouts DEF ClockLayouts
  <2>3. /\ NoFloatIn(T.SLAVE_ONLY)
        /\ NoFloatIn(T.LOG_ANNOUNCE_INTERVAL)
        /\ NoFloatIn(T.ANNOUNCE_RECEIPT_TIMEOUT)
        /\ NoFloatIn(T.LOG_SYNC_INTERVAL)
        /\ NoFloatIn(T.VERSION_NUMBER)
    BY FloatlessRules, FloatlessTypes, FloatlessLayouts DEF ClockLayouts
  <2>4. DOMAIN T = {"CLOCK_DESCRIPTION", "USER_DESCRIPTION", "INITIALIZE", "FAULT_LOG",
                    "DEFAULT_DATA_SET", "CURRENT_DATA_SET", "PARENT_DATA_SET",
                    "TIME_PROPERTIES_DATA_SET", "PORT_DATA_SET", "PRIORITY1",
                    "PRIORITY2", "DOMAIN_", "SLAVE_ONLY", "LOG_ANNOUNCE_INTERVAL",
                    "ANNOUNCE_RECEIPT_TIMEOUT", "LOG_SYNC_INTERVAL", "VERSION_NUMBER"}
    BY DEF ClockLayouts
  <2> HIDE DEF T
  <2>5. \A id \in DOMAIN T : NoFloatIn(T[id])
    BY <2>1, <2>2, <2>3, <2>4
  <2> QED BY <2>5 DEF T
<1>2. \A id \in DOMAIN TimeLayouts : NoFloatIn(TimeLayouts[id])
  BY FloatlessRules, FloatlessTypes, FloatlessLayouts DEF TimeLayouts
<1>3. \A id \in DOMAIN PortLayouts : NoFloatIn(PortLayouts[id])
  BY FloatlessRules, FloatlessTypes, FloatlessLayouts DEF PortLayouts
<1>4. \A id \in DOMAIN SigLayouts :
        id # "ENHANCED_ACCURACY_METRICS" => NoFloatIn(SigLayouts[id])
  BY FloatlessRules, FloatlessTypes, FloatlessLayouts DEF SigLayouts
<1> QED BY <1>1, <1>2, <1>3, <1>4, TablesTogether DEF MngIds

(* What the three strengthenings say of any use of the codec, with the library's tables. *)
LibraryCodec ==
  /\ CodecTypeOK /\ StaysInside /\ SizesAgree /\ PlanIsKept /\ RoundTrip /\ TruncatedRejected
  /\ tlv # "ENHANCED_ACCURACY_METRICS" => FixedSizeIsExact /\ RecordsFit

(* They say all of it. *)
LEMMA LibraryUses ==
  ASSUME LibraryTables
  PROVE  UseSpec => []LibraryCodec
<1>1. tlv # "ENHANCED_ACCURACY_METRICS" => NoFloat(tlv)
  BY OnlyMetricsFloat DEF LibraryTables
<1>2. Inv /\ WireInv => CodecTypeOK /\ SizesAgree /\ PlanIsKept
  BY SizesFromWire DEF Inv, WireInv, BuildInv, PlanIsKept, Returned
<1>3. WireInv => RoundTrip /\ TruncatedRejected
  BY DEF WireInv, ParseInv, RoundTrip, TruncatedRejected, Returned
<1>4. Inv => StaysInside
  BY CopiesWhatFits DEF Inv, StaysInside
<1>5. Inv /\ ReceiveInv /\ SizesAgree /\ NoFloat(tlv) => FixedSizeIsExact /\ RecordsFit
  BY DEF ReceiveInv, SizesAgree, FixedSizeIsExact, RecordsFit, Returned
<1>6. Inv /\ WireInv /\ ReceiveInv => LibraryCodec
  BY <1>1, <1>2, <1>3, <1>4, <1>5 DEF LibraryCodec
<1> QED BY <1>6, InvHolds, ReceiveHolds, WireHolds, PTL

(***************************************************************************)
(* Therefore build() of any structure of the library whose texts and       *)
(* addresses are below 65536 octets needs and produces the size that       *)
(* getMsgPlanedLen() promises and copies no octet behind its buffer; and   *)
(* no TLV that the network can bring, of any length and content, is read   *)
(* behind its end, but for the enhanced accuracy metrics: their Float64_t  *)
(* bring the cursor behind it, by eight octets at most, and ask for more   *)
(* octets than the TLV has. All others are taken exactly with the octets   *)
(* they need, and never fail inside a record of a list.                    *)
(***************************************************************************)
THEOREM LibraryKeepsItsSizes ==
  ASSUME LibraryTables
  PROVE  CodecSpec => []( /\ PlanIsKept /\ StaysInside
                          /\ tlv # "ENHANCED_ACCURACY_METRICS" => FixedSizeIsExact /\ RecordsFit )
<1>1. LibraryCodec =>
        /\ PlanIsKept /\ StaysInside
        /\ tlv # "ENHANCED_ACCURACY_METRICS" => FixedSizeIsExact /\ RecordsFit
  BY DEF LibraryCodec
<1> QED BY <1>1, CodecIsUse, LibraryUses, PTL
=============================================================================
