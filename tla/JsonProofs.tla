----------------------------- MODULE JsonProofs -----------------------------
(***************************************************************************)
(* The writer of json.cpp puts its commas by one flag and a stack of       *)
(* flags; a reader of JSON has a state and a stack of brackets. The        *)
(* theorem at the end shows that the reader accepts what msg2json() wrote, *)
(* for every id, structure and text, as long as no text needs an escape.   *)
(*                                                                         *)
(* The argument is a relation between the two: inside of brackets, after   *)
(* every call, the flag of the writer says whether the reader expects a    *)
(* first member or a comma, and both stacks hold the same brackets         *)
(* (Inside). The calls that write whole members keep the relation          *)
(* (Neutral), and so do sequences of such calls, of any length.            *)
(***************************************************************************)
EXTENDS SetShow, CodecProofs

-----------------------------------------------------------------------------
(* The recursions of Json *)

(* One step of the writer, of the reader, or of a concatenation: what the three
   recursions of Json do with the element y. *)
Step(kind, x, y) ==
  CASE kind = "write" -> Exec(x, y) [] kind = "read" -> ReadToken(x, y) [] OTHER -> x \o y

(* e holds what such a recursion has after each element of s. *)
IsFold(kind, base, s, e) ==
  e[0] = base /\ \A i \in 1 .. Len(s) : e[i] = Step(kind, e[i - 1], s[i])

(* The equation of such a recursion. *)
FoldEq(kind, base, s, n, e) ==
  e = [i \in 0 .. n |-> IF i = 0 THEN base ELSE Step(kind, e[i - 1], s[i])]

(* What the equation says at each argument. *)
LEMMA FoldUnfolded ==
  ASSUME NEW kind, NEW base, NEW s, NEW n \in Nat, NEW e, FoldEq(kind, base, s, n, e)
  PROVE  e[0] = base /\ \A i \in 1 .. n : e[i] = Step(kind, e[i - 1], s[i])
<1> DEFINE g == [i \in 0 .. n |-> IF i = 0 THEN base ELSE Step(kind, e[i - 1], s[i])]
<1>1. g[0] = base /\ \A i \in 1 .. n : g[i] = Step(kind, e[i - 1], s[i])
  OBVIOUS
<1>2. e = g
  BY DEF FoldEq
<1> HIDE DEF g
<1> QED BY <1>1, <1>2

(* The recursions have a solution. *)
LEMMA FoldExists ==
  ASSUME NEW kind, NEW base, NEW s
  PROVE  \A n \in Nat : \E e : FoldEq(kind, base, s, n, e)
<1> DEFINE S == {n \in Nat : \E e : FoldEq(kind, base, s, n, e)}
<1>1. 0 \in S
  <2> DEFINE z == [i \in 0 .. 0 |-> base]
  <2>1. FoldEq(kind, base, s, 0, z)
    BY DEF FoldEq
  <2> QED BY <2>1
<1>2. ASSUME NEW n \in S PROVE n + 1 \in S
  <2>1. n \in Nat /\ n + 1 \in Nat
    BY <1>2
  <2>2. PICK e : FoldEq(kind, base, s, n, e)
    BY <1>2
  <2>3. e[0] = base /\ \A i \in 1 .. n : e[i] = Step(kind, e[i - 1], s[i])
    BY <2>1, <2>2, FoldUnfolded
  <2> DEFINE g == [i \in 0 .. (n + 1) |-> IF i = n + 1 THEN Step(kind, e[n], s[n + 1]) ELSE e[i]]
  <2>4. \A i \in 0 .. (n + 1) : g[i] = IF i = 0 THEN base ELSE Step(kind, g[i - 1], s[i])
    <3>1. g[0] = base
      BY <2>1, <2>3
    <3>2. \A i \in 1 .. n : g[i] = e[i] /\ g[i - 1] = e[i - 1]
      BY <2>1
    <3>3. g[n + 1] = Step(kind, e[n], s[n + 1]) /\ g[(n + 1) - 1] = e[n]
      BY <2>1
    <3>4. \A i \in 0 .. (n + 1) : i = 0 \/ i \in 1 .. n \/ i = n + 1
      BY <2>1
    <3> HIDE DEF g
    <3> QED BY <2>1, <2>3, <3>1, <3>2, <3>3, <3>4
  <2>5. g = [i \in 0 .. (n + 1) |-> g[i]]
    OBVIOUS
  <2> HIDE DEF g
  <2>6. FoldEq(kind, base, s, n + 1, g)
    BY <2>4, <2>5 DEF FoldEq
  <2> QED BY <2>1, <2>6
<1>3. S \in SUBSET Nat
  OBVIOUS
<1>4. \A n \in Nat : n \in S
  <2> HIDE DEF S
  <2> QED BY <1>1, <1>2, <1>3, Inductive
<1> QED BY <1>4

(* Two recursions over sequences that agree up to n agree up to n. *)
LEMMA FoldsAgree ==
  ASSUME NEW kind, NEW base, NEW s, NEW e, NEW t, NEW f,
         IsFold(kind, base, s, e), IsFold(kind, base, t, f),
         Len(s) \in Nat, Len(t) \in Nat,
         NEW n \in Nat, n <= Len(s), n <= Len(t), \A i \in 1 .. n : s[i] = t[i]
  PROVE  \A i \in 0 .. n : e[i] = f[i]
<1> DEFINE S == {i \in Nat : i <= n => e[i] = f[i]}
<1>1. 0 \in S
  BY DEF IsFold
<1>2. ASSUME NEW i \in S PROVE i + 1 \in S
  <2>1. i \in Nat /\ i + 1 \in Nat /\ (i + 1) - 1 = i
    BY <1>2
  <2>2. SUFFICES ASSUME i + 1 <= n PROVE e[i + 1] = f[i + 1]
    BY <2>1
  <2>3. e[i] = f[i] /\ s[i + 1] = t[i + 1] /\ i + 1 \in 1 .. Len(s) /\ i + 1 \in 1 .. Len(t)
    BY <1>2, <2>1, <2>2
  <2>4. e[i + 1] = Step(kind, e[(i + 1) - 1], s[i + 1])
    BY <2>3 DEF IsFold
  <2>5. f[i + 1] = Step(kind, f[(i + 1) - 1], t[i + 1])
    BY <2>3 DEF IsFold
  <2> QED BY <2>1, <2>3, <2>4, <2>5
<1>3. S \in SUBSET Nat
  OBVIOUS
<1>4. \A i \in Nat : i \in S
  <2> HIDE DEF S
  <2> QED BY <1>1, <1>2, <1>3, Inductive
<1> QED BY <1>4

(* The writer after each call. *)
LEMMA WritesRule ==
  ASSUME NEW w, NEW s, Len(s) \in Nat
  PROVE  IsFold("write", w, s, Writes(w, s))
<1> DEFINE G(e) == e = [i \in 0 .. Len(s) |-> IF i = 0 THEN w ELSE Exec(e[i - 1], s[i])]
<1>1. \A x, y : Step("write", x, y) = Exec(x, y)
  BY DEF Step
<1>2. PICK e : FoldEq("write", w, s, Len(s), e)
  BY FoldExists
<1>3. \A f : G(f) <=> FoldEq("write", w, s, Len(s), f)
  BY <1>1 DEF FoldEq
<1>4. Writes(w, s) = CHOOSE f : G(f)
  BY DEF Writes
<1> HIDE DEF G
<1>5. G(Writes(w, s))
  BY <1>2, <1>3, <1>4
<1>6. FoldEq("write", w, s, Len(s), Writes(w, s))
  BY <1>3, <1>5
<1> DEFINE ws == Writes(w, s)
           n == Len(s)
           kind == "write"
<1>0. n \in Nat /\ FoldEq(kind, w, s, n, ws)
  BY <1>6
<1> HIDE DEF ws, n, kind
<1>7. ws[0] = w /\ \A i \in 1 .. n : ws[i] = Step(kind, ws[i - 1], s[i])
  BY ONLY <1>0, FoldUnfolded
<1> QED BY <1>7 DEF IsFold, ws, kind, n

(* The reader after each token. *)
LEMMA ReadsRule ==
  ASSUME NEW s, Len(s) \in Nat
  PROVE  IsFold("read", [open |-> << >>, due |-> "value"], s, Reads(s))
<1> DEFINE w == [open |-> << >>, due |-> "value"]
           G(e) == e = [i \in 0 .. Len(s) |-> IF i = 0 THEN w ELSE ReadToken(e[i - 1], s[i])]
<1>1. \A x, y : Step("read", x, y) = ReadToken(x, y)
  BY DEF Step
<1>2. PICK e : FoldEq("read", w, s, Len(s), e)
  BY FoldExists
<1>4. Reads(s) = CHOOSE f : G(f)
  BY DEF Reads
<1> HIDE DEF w
<1>3. \A f : G(f) <=> FoldEq("read", w, s, Len(s), f)
  BY <1>1 DEF FoldEq
<1> HIDE DEF G
<1>5. G(Reads(s))
  BY <1>2, <1>3, <1>4
<1>6. FoldEq("read", w, s, Len(s), Reads(s))
  BY <1>3, <1>5
<1> DEFINE rs == Reads(s)
           n == Len(s)
           kind == "read"
<1>0. n \in Nat /\ FoldEq(kind, w, s, n, rs)
  BY <1>6
<1> HIDE DEF rs, n, kind
<1>7. rs[0] = w /\ \A i \in 1 .. n : rs[i] = Step(kind, rs[i - 1], s[i])
  BY ONLY <1>0, FoldUnfolded
<1>8. IsFold("read", w, s, Reads(s))
  BY <1>7 DEF IsFold, rs, n, kind
<1> QED BY <1>8 DEF w

(* One more element. *)
LEMMA SeqAppend ==
  ASSUME NEW s, NEW x, IsSeq(s)
  PROVE  /\ IsSeq(Append(s, x)) /\ Len(s) \in Nat /\ Len(Append(s, x)) = Len(s) + 1
         /\ \A i \in 1 .. Len(s) : Append(s, x)[i] = s[i]
         /\ Append(s, x)[Len(s) + 1] = x
<1>1. PICK T : s \in Seq(T)
  BY DEF IsSeq
<1>2. s \in Seq(T \cup {x}) /\ x \in T \cup {x}
  BY <1>1
<1> DEFINE U == T \cup {x}
<1> HIDE DEF U
<1>3. s \in Seq(U) /\ x \in U
  BY <1>2 DEF U
<1> QED BY <1>3, AppendProperties DEF IsSeq

(* The reader takes one more token from where it stands. *)
LEMMA ReadsAppend ==
  ASSUME NEW s, NEW tk, IsSeq(s)
  PROVE  Reads(Append(s, tk))[Len(s) + 1] = ReadToken(Reads(s)[Len(s)], tk)
<1> DEFINE r == Append(s, tk)
           n == Len(s)
           a == [open |-> << >>, due |-> "value"]
<1>1. /\ n \in Nat /\ Len(r) = n + 1
      /\ \A i \in 1 .. n : r[i] = s[i]
      /\ r[n + 1] = tk
  BY SeqAppend
<1>2. IsFold("read", a, s, Reads(s)) /\ IsFold("read", a, r, Reads(r))
  BY <1>1, ReadsRule
<1> HIDE DEF r, a
<1>3. Reads(r)[n] = Reads(s)[n]
  <2>1. \A i \in 0 .. n : Reads(r)[i] = Reads(s)[i]
    BY <1>1, <1>2, FoldsAgree
  <2> QED BY <1>1, <2>1
<1>4. Reads(r)[n + 1] = Step("read", Reads(r)[(n + 1) - 1], r[n + 1])
  <2>1. n + 1 \in 1 .. Len(r)
    BY <1>1
  <2> QED BY <1>2, <2>1 DEF IsFold
<1>5. (n + 1) - 1 = n
  BY <1>1
<1>6. Reads(r)[n + 1] = Step("read", Reads(s)[n], tk)
  BY <1>1, <1>3, <1>4, <1>5
<1> QED BY <1>6 DEF Step, r

(* Nothing written. *)
LEMMA WriteNone == \A w : Write(w, << >>) = w
<1> SUFFICES ASSUME NEW w PROVE Write(w, << >>) = w
  OBVIOUS
<1>1. IsFold("write", w, << >>, Writes(w, << >>))
  BY WritesRule
<1> QED BY <1>1 DEF IsFold, Write

(* One call. *)
LEMMA WriteOne == \A w, c : Write(w, <<c>>) = Exec(w, c)
<1> SUFFICES ASSUME NEW w, NEW c PROVE Write(w, <<c>>) = Exec(w, c)
  OBVIOUS
<1> DEFINE s == <<c>>
<1>1. Len(s) = 1 /\ s[1] = c
  OBVIOUS
<1> HIDE DEF s
<1>2. IsFold("write", w, s, Writes(w, s))
  BY <1>1, WritesRule
<1>3. Writes(w, s)[0] = w /\ Writes(w, s)[1] = Step("write", Writes(w, s)[1 - 1], s[1])
  BY <1>1, <1>2 DEF IsFold
<1>4. Writes(w, s)[1] = Step("write", w, c)
  BY <1>1, <1>3
<1>5. Write(w, s) = Exec(w, c)
  BY <1>1, <1>4 DEF Step, Write
<1> QED BY <1>5 DEF s

(* The calls t after the calls s. *)
LEMMA WriteBoth ==
  ASSUME NEW w, NEW s, NEW t, IsSeq(s), IsSeq(t)
  PROVE  Write(w, s \o t) = Write(Write(w, s), t)
<1> DEFINE r == s \o t
           n == Len(s)
           m == Len(t)
           e == Writes(w, r)
           f == [j \in 0 .. m |-> e[n + j]]
           kind == "write"
<1>1. /\ n \in Nat /\ m \in Nat /\ Len(r) = n + m
      /\ \A i \in 1 .. n : r[i] = s[i]
      /\ \A i \in 1 .. m : r[n + i] = t[i]
  BY SeqOfBoth
<1>2. IsFold(kind, w, s, Writes(w, s)) /\ IsFold(kind, w, r, e)
  BY <1>1, WritesRule
<1>3. IsFold(kind, Write(w, s), t, Writes(Write(w, s), t))
  BY <1>1, WritesRule
<1> HIDE DEF r, e, kind
<1>4. e[n] = Write(w, s)
  <2>1. n \in Nat /\ n <= Len(s) /\ n <= Len(r) /\ Len(s) \in Nat /\ Len(r) \in Nat
    BY <1>1
  <2> DEFINE g == Writes(w, s)
  <2>2. IsFold(kind, w, s, g) /\ IsFold(kind, w, r, e) /\ \A i \in 1 .. n : s[i] = r[i]
    BY <1>1, <1>2
  <2> HIDE DEF g, n
  <2>3. \A i \in 0 .. n : g[i] = e[i]
    BY ONLY <2>1, <2>2, FoldsAgree
  <2> QED BY <1>1, <2>3 DEF Write, g, n
<1>5. IsFold(kind, Write(w, s), t, f)
  <2>1. f[0] = Write(w, s)
    BY <1>1, <1>4
  <2>2. ASSUME NEW i \in 1 .. m PROVE f[i] = Step(kind, f[i - 1], t[i])
    <3>1. /\ n + i \in 1 .. Len(r) /\ (n + i) - 1 = n + (i - 1)
          /\ i \in 0 .. m /\ i - 1 \in 0 .. m
      BY <1>1
    <3>2. e[n + i] = Step(kind, e[(n + i) - 1], r[n + i])
      BY <1>2, <3>1 DEF IsFold
    <3>3. f[i] = e[n + i] /\ f[i - 1] = e[n + (i - 1)]
      BY <3>1
    <3> HIDE DEF f
    <3> QED BY <1>1, <3>1, <3>2, <3>3
  <2> HIDE DEF f
  <2> QED BY <2>1, <2>2 DEF IsFold
<1>6. f[m] = e[n + m]
  BY <1>1
<1> HIDE DEF f
<1>7. \A i \in 0 .. m : Writes(Write(w, s), t)[i] = f[i]
  BY <1>1, <1>3, <1>5, FoldsAgree
<1>8. Write(w, r) = e[n + m]
  BY <1>1 DEF Write, e
<1>9. Write(Write(w, s), t) = f[m]
  <2>1. m \in 0 .. m
    BY <1>1
  <2> QED BY <1>7, <2>1 DEF Write
<1> QED BY <1>6, <1>8, <1>9 DEF r

-----------------------------------------------------------------------------
(* The writer and the reader *)

(* A state of the reader, and one in which it found what is not JSON. *)
IsReader(a) == a = [open |-> a.open, due |-> a.due]
IsError(a) == IsReader(a) /\ a.due = "error"
Bad(tk) == tk.k = "text" /\ NeedsEscape(tk.v)

(* After the tokens r the reader is at a, or has met a text to escape. *)
ReadsTo(r, a) ==
  /\ IsSeq(r) /\ IsReader(a)
  /\ IF HasEscape(r) THEN IsError(Reads(r)[Len(r)]) ELSE Reads(r)[Len(r)] = a

(* An error remains, and a text to escape is one. *)
LEMMA ErrorStays ==
  ASSUME NEW a, NEW tk, IsReader(a), a.due = "error" \/ Bad(tk)
  PROVE  IsError(ReadToken(a, tk))
<1>1. ReadToken(a, tk) = [a EXCEPT !.due = "error"]
  <2>1. CASE a.due = "error"
    BY <2>1 DEF ReadToken
  <2>2. CASE Bad(tk)
    BY <2>2 DEF ReadToken, Bad
  <2> QED BY <2>1, <2>2
<1>2. [a EXCEPT !.due = "error"] = [open |-> a.open, due |-> "error"]
  BY DEF IsReader
<1> QED BY <1>1, <1>2 DEF IsError, IsReader

(* One more token is a step of the reader. *)
LEMMA PutReads ==
  ASSUME NEW r, NEW a, NEW tk, NEW b, ReadsTo(r, a), IsReader(b), Bad(tk) \/ b = ReadToken(a, tk)
  PROVE  ReadsTo(Append(r, tk), b)
<1> DEFINE x == Reads(r)[Len(r)]
           q == Append(r, tk)
<1>1. /\ IsSeq(q) /\ Len(r) \in Nat /\ Len(q) = Len(r) + 1
      /\ \A i \in 1 .. Len(r) : q[i] = r[i]
      /\ q[Len(r) + 1] = tk
  BY SeqAppend DEF ReadsTo
<1>2. Reads(q)[Len(q)] = ReadToken(x, tk)
  BY <1>1, ReadsAppend DEF ReadsTo
<1> HIDE DEF x, q
<1>3. HasEscape(q) <=> HasEscape(r) \/ Bad(tk)
  <2>1. \A i \in 1 .. Len(q) : i \in 1 .. Len(r) \/ i = Len(r) + 1
    BY <1>1
  <2>2. \A i \in 1 .. Len(r) : i \in 1 .. Len(q)
    BY <1>1
  <2>3. Len(r) + 1 \in 1 .. Len(q)
    BY <1>1
  <2> QED BY <1>1, <2>1, <2>2, <2>3 DEF HasEscape, Bad
<1>4. CASE HasEscape(r)
  <2>1. IsReader(x) /\ x.due = "error"
    BY <1>4 DEF ReadsTo, IsError, x
  <2>2. IsError(ReadToken(x, tk))
    BY <2>1, ErrorStays
  <2> QED BY <1>1, <1>2, <1>3, <1>4, <2>2 DEF ReadsTo, q
<1>5. CASE ~HasEscape(r) /\ Bad(tk)
  <2>1. IsReader(x)
    BY <1>5 DEF ReadsTo, x
  <2>2. IsError(ReadToken(x, tk))
    BY <1>5, <2>1, ErrorStays
  <2> QED BY <1>1, <1>2, <1>3, <1>5, <2>2 DEF ReadsTo, q
<1>6. CASE ~HasEscape(r) /\ ~Bad(tk)
  <2>1. x = a
    BY <1>6 DEF ReadsTo, x
  <2> QED BY <1>1, <1>2, <1>3, <1>6, <2>1 DEF ReadsTo, q
<1> QED BY <1>4, <1>5, <1>6

(* The state of the reader inside the brackets st. *)
At(st, x) == [open |-> st, due |-> x]
Bracket == {"{", "["}

(* The writer before the first member of a bracket, and before another one. *)
W(r, first, vs) == [result |-> r, m_first |-> first, m_first_vals |-> vs]
AtFirst(r, vs) == W(r, TRUE, vs)
Later(r, vs) == W(r, FALSE, vs)
Pushed(vs) == Append(vs, FALSE)

(* The writer stands inside the brackets st, where the reader expects the first
   member or one more as m_first says, and no bracket was opened with m_first set. *)
Stacked(st, vs) == st \in Seq(Bracket) /\ vs \in Seq({FALSE}) /\ Len(vs) = Len(st)
Inside(w, st) ==
  \E r, vs :
    /\ Stacked(st, vs)
    /\ \/ w = AtFirst(r, vs) /\ ReadsTo(r, At(st, "first"))
       \/ w = Later(r, vs) /\ ReadsTo(r, At(st, "after"))

(* Inside of an object. *)
InObject(w, st) == Inside(w, st) /\ st # << >> /\ Last(st) = "{"

(* What the functions of the writer do to its members. *)
LEMMA WriterSteps ==
  /\ \A r, vs, k, v : Put(Later(r, vs), k, v) = Later(Append(r, Tkn(k, v)), vs)
  /\ \A r, vs : close(AtFirst(r, vs)) = Later(r, vs)
  /\ \A r, vs : close(Later(r, vs)) = Later(Append(r, Tkn(",", "")), vs)
  /\ \A r, vs, k : open(Later(r, vs), k) = AtFirst(Append(r, Tkn(k, "")), Pushed(vs))
<1>1. \A r, vs : AtFirst(r, vs).m_first = TRUE /\ Later(r, vs).m_first = FALSE
  BY DEF W, Later, AtFirst
<1>2. \A r, vs : AtFirst(r, vs).result = r /\ Later(r, vs).result = r
  BY DEF W, Later, AtFirst
<1>3. \A r, vs : AtFirst(r, vs).m_first_vals = vs /\ Later(r, vs).m_first_vals = vs
  BY DEF W, Later, AtFirst
<1>4. ASSUME NEW r, NEW vs, NEW k, NEW v
      PROVE  Put(Later(r, vs), k, v) = Later(Append(r, Tkn(k, v)), vs)
  <2>1. \A f : Put(W(r, f, vs), k, v) = W(Append(r, Tkn(k, v)), f, vs)
    BY DEF W, Put
  <2>2. PICK f : f = FALSE
    OBVIOUS
  <2>3. \A q : W(q, f, vs) = Later(q, vs)
    BY <2>2 DEF Later
  <2> QED BY <2>1, <2>3
<1>5. ASSUME NEW r, NEW vs
      PROVE  close(AtFirst(r, vs)) = Later(r, vs)
  <2>1. AtFirst(r, vs).m_first /\ AtFirst(r, vs).result = r /\ AtFirst(r, vs).m_first_vals = vs
    BY <1>1, <1>2, <1>3
  <2> QED BY <2>1 DEF close, Later, W
<1>6. ASSUME NEW r, NEW vs
      PROVE  close(Later(r, vs)) = Later(Append(r, Tkn(",", "")), vs)
  <2>1. ~Later(r, vs).m_first /\ Later(r, vs).result = r /\ Later(r, vs).m_first_vals = vs
    BY <1>1, <1>2, <1>3
  <2>2. close(Later(r, vs)) = W(Append(r, Tkn(",", "")), FALSE, vs)
    BY <2>1 DEF close, W
  <2> QED BY <2>2 DEF Later
<1>a. \A q, f, us : W(q, f, us).m_first = f /\ W(q, f, us).m_first_vals = us /\ W(q, f, us).result = q
  BY DEF W
<1>7. \A r, vs, k : open(Later(r, vs), k) = AtFirst(Append(r, Tkn(k, "")), Pushed(vs))
  BY <1>a DEF open, W, Later, AtFirst, Pushed
<1> QED BY <1>4, <1>5, <1>6, <1>7

(* The last element and the rest. *)
LEMMA LastFront ==
  ASSUME NEW T, NEW s \in Seq(T), s # << >>
  PROVE  Last(s) \in T /\ Front(s) \in Seq(T) /\ Len(s) \in Nat /\ Len(s) > 0
         /\ Len(Front(s)) = Len(s) - 1
<1>1. Len(s) \in Nat /\ Len(s) > 0 /\ Len(s) \in 1 .. Len(s)
  OBVIOUS
<1>2. s[Len(s)] \in T
  BY <1>1
<1>3. SubSeq(s, 1, Len(s) - 1) \in Seq(T) /\ Len(SubSeq(s, 1, Len(s) - 1)) = Len(s) - 1
  <2> DEFINE n == Len(s) - 1
  <2>1. n \in 0 .. Len(s) /\ 1 \in 1 .. (Len(s) + 1) /\ n - 1 + 1 = n
    BY <1>1
  <2> HIDE DEF n
  <2>2. SubSeq(s, 1, n) \in Seq(T) /\ Len(SubSeq(s, 1, n)) = n
    BY <1>1, <2>1, SubSeqProperties
  <2> QED BY <2>2 DEF n
<1> QED BY <1>1, <1>2, <1>3 DEF Last, Front

(* One token after the other, as the writer puts them. *)
LEMMA TokensRead ==
  ASSUME NEW st \in Seq(Bracket)
  PROVE  /\ st # << >> => ReadToken(At(st, "after"), Tkn(",", "")) = At(st, "member")
         /\ st # << >> /\ Last(st) = "{" => \A n : \A x \in {"first", "member"} :
              ReadToken(At(st, x), Tkn("name", n)) = At(st, "value")
         /\ \A v : \A k \in {"num", "str", "bool", "text"} :
              Bad(Tkn(k, v)) \/ ReadToken(At(st, "value"), Tkn(k, v)) = At(st, "after")
         /\ \A k \in {"{", "["} :
              ReadToken(At(st, "value"), Tkn(k, "")) = At(Append(st, k), "first")
         /\ st # << >> => \A x \in {"first", "after"} :
              ReadToken(At(st, x), Tkn(IF Last(st) = "{" THEN "}" ELSE "]", ""))
                = At(Front(st), "after")
<1>1. st # << >> => ReadToken(At(st, "after"), Tkn(",", "")) = At(st, "member")
  BY DEF At, Tkn, ReadToken
<1>2. st # << >> /\ Last(st) = "{" => \A n : \A x \in {"first", "member"} :
        ReadToken(At(st, x), Tkn("name", n)) = At(st, "value")
  BY DEF At, Tkn, ReadToken
<1>3. ASSUME NEW v, NEW k \in {"num", "str", "bool", "text"}
      PROVE  Bad(Tkn(k, v)) \/ ReadToken(At(st, "value"), Tkn(k, v)) = At(st, "after")
  <2>1. CASE k = "text"
    BY <2>1 DEF Bad, At, Tkn, ReadToken
  <2>2. CASE k \in {"num", "str", "bool"}
    BY <2>2 DEF At, Tkn, ReadToken
  <2> QED BY <2>1, <2>2
<1>4. \A k \in {"{", "["} : ReadToken(At(st, "value"), Tkn(k, "")) = At(Append(st, k), "first")
  BY DEF At, Tkn, ReadToken
<1>5. ASSUME st # << >>, NEW x \in {"first", "after"}
      PROVE  ReadToken(At(st, x), Tkn(IF Last(st) = "{" THEN "}" ELSE "]", ""))
               = At(Front(st), "after")
  <2>1. Last(st) \in {"{", "["}
    <3>1. Last(st) \in Bracket
      BY <1>5, LastFront
    <3> QED BY <3>1 DEF Bracket
  <2>2. CASE Last(st) = "{"
    BY <1>5, <2>2 DEF At, Tkn, ReadToken
  <2>3. CASE Last(st) = "["
    BY <1>5, <2>3 DEF At, Tkn, ReadToken
  <2> QED BY <2>1, <2>2, <2>3
<1> QED BY <1>1, <1>2, <1>3, <1>4, <1>5

(* The stacks of the writer and of the reader grow and shrink together. *)
LEMMA StackSteps ==
  ASSUME NEW st, NEW vs, Stacked(st, vs)
  PROVE  /\ \A k \in Bracket : Stacked(Append(st, k), Pushed(vs))
         /\ st # << >> => Stacked(Front(st), Front(vs)) /\ Last(vs) = FALSE
<1> DEFINE F == {FALSE}
<1>1. st \in Seq(Bracket) /\ vs \in Seq(F) /\ Len(vs) = Len(st)
  BY DEF Stacked
<1>2. ASSUME NEW k \in Bracket PROVE Stacked(Append(st, k), Pushed(vs))
  <2>1. PICK f : f = FALSE /\ f \in F
    OBVIOUS
  <2>2. Pushed(vs) = Append(vs, f)
    BY <2>1 DEF Pushed
  <2> HIDE DEF F
  <2>3. Append(vs, f) \in Seq(F) /\ Len(Append(vs, f)) = Len(vs) + 1
    BY <1>1, <2>1, AppendProperties
  <2>4. Append(st, k) \in Seq(Bracket) /\ Len(Append(st, k)) = Len(st) + 1
    BY <1>1, AppendProperties
  <2> QED BY <1>1, <2>2, <2>3, <2>4 DEF Stacked, F
<1>3. ASSUME st # << >> PROVE Stacked(Front(st), Front(vs)) /\ Last(vs) = FALSE
  <2> HIDE DEF F
  <2>1. Len(st) \in Nat /\ Len(st) > 0 /\ Front(st) \in Seq(Bracket) /\ Len(Front(st)) = Len(st) - 1
    BY <1>1, <1>3, LastFront
  <2>2. vs # << >>
    BY <1>1, <2>1
  <2>3. Last(vs) \in F /\ Front(vs) \in Seq(F) /\ Len(Front(vs)) = Len(vs) - 1
    BY <1>1, <2>2, LastFront
  <2> QED BY <1>1, <2>1, <2>3 DEF Stacked, F
<1> QED BY <1>2, <1>3

(* A token that is put. *)
LEMMA PutLater == \A r, vs, k, v : Put(Later(r, vs), k, v) = Later(Append(r, Tkn(k, v)), vs)
BY WriterSteps

(* A bracket that is closed, with or without members in it. *)
LEMMA ShutBoth ==
  ASSUME NEW r, NEW vs, NEW k, NEW w, w = Later(r, vs) \/ w = AtFirst(r, vs), Last(vs) = FALSE
  PROVE  shut(w, k) = Later(Append(r, Tkn(k, "")), Front(vs))
<1>1. w.result = r /\ w.m_first_vals = vs
  BY DEF W, Later, AtFirst
<1>2. shut(w, k) = [result |-> Append(r, Tkn(k, "")), m_first |-> FALSE, m_first_vals |-> Front(vs)]
  BY <1>1 DEF shut
<1> QED BY <1>2 DEF Later, W

(* A name is put where the reader expects one, and a value or a bracket is due then. *)
LEMMA NameCall ==
  ASSUME NEW w, NEW st, InObject(w, st), NEW name
  PROVE  \E r, vs : /\ startName(w, name) = Later(r, vs)
                    /\ Stacked(st, vs) /\ ReadsTo(r, At(st, "value"))
<1>1. PICK r, vs : /\ Stacked(st, vs)
                   /\ \/ w = AtFirst(r, vs) /\ ReadsTo(r, At(st, "first"))
                      \/ w = Later(r, vs) /\ ReadsTo(r, At(st, "after"))
  BY DEF InObject, Inside
<1>s. st \in Seq(Bracket) /\ st # << >> /\ Last(st) = "{"
  BY <1>1 DEF InObject, Stacked
<1>0. \A y : IsReader(At(st, y))
  BY DEF IsReader, At
<1>2. \E q : \E x \in {"first", "member"} : close(w) = Later(q, vs) /\ ReadsTo(q, At(st, x))
  <2>1. CASE w = AtFirst(r, vs) /\ ReadsTo(r, At(st, "first"))
    BY <2>1, WriterSteps
  <2>2. CASE w = Later(r, vs) /\ ReadsTo(r, At(st, "after"))
    <3>1. ReadToken(At(st, "after"), Tkn(",", "")) = At(st, "member")
      BY <1>s, TokensRead
    <3>2. ReadsTo(Append(r, Tkn(",", "")), At(st, "member"))
      BY <1>0, <2>2, <3>1, PutReads
    <3>3. close(w) = Later(Append(r, Tkn(",", "")), vs)
      BY <2>2, WriterSteps
    <3> QED BY <3>2, <3>3
  <2> QED BY <1>1, <2>1, <2>2
<1>3. PICK q : \E x \in {"first", "member"} : close(w) = Later(q, vs) /\ ReadsTo(q, At(st, x))
  BY <1>2
<1>4. PICK x \in {"first", "member"} : close(w) = Later(q, vs) /\ ReadsTo(q, At(st, x))
  BY <1>3
<1>5. ReadsTo(Append(q, Tkn("name", name)), At(st, "value"))
  <2>1. ReadToken(At(st, x), Tkn("name", name)) = At(st, "value")
    BY <1>s, TokensRead
  <2> QED BY <1>0, <1>4, <2>1, PutReads
<1>6. startName(w, name) = Later(Append(q, Tkn("name", name)), vs)
  BY <1>4, PutLater DEF startName
<1> QED BY <1>1, <1>5, <1>6

(* A name with a value: one more member. *)
LEMMA ValueCall ==
  ASSUME NEW w, NEW st, InObject(w, st), NEW name, NEW v, NEW k \in {"num", "str", "bool", "text"}
  PROVE  InObject(Exec(w, [op |-> "value", name |-> name, k |-> k, v |-> v]), st)
<1> DEFINE u == Exec(w, [op |-> "value", name |-> name, k |-> k, v |-> v])
<1>1. PICK r, vs : /\ startName(w, name) = Later(r, vs)
                   /\ Stacked(st, vs) /\ ReadsTo(r, At(st, "value"))
  BY NameCall
<1>2. u = Later(Append(r, Tkn(k, v)), vs)
  <2>1. u = Put(startName(w, name), k, v)
    BY DEF Exec
  <2> QED BY <1>1, <2>1, PutLater
<1>3. ReadsTo(Append(r, Tkn(k, v)), At(st, "after"))
  <2>1. Bad(Tkn(k, v)) \/ ReadToken(At(st, "value"), Tkn(k, v)) = At(st, "after")
    BY <1>1, TokensRead DEF Stacked
  <2>2. IsReader(At(st, "after"))
    BY DEF IsReader, At
  <2> QED BY <1>1, <2>1, <2>2, PutReads
<1> HIDE DEF u
<1>4. InObject(u, st)
  BY <1>1, <1>2, <1>3 DEF InObject, Inside
<1> QED BY <1>4 DEF u

(* A name with a bracket: the writer is inside of it. *)
LEMMA OpenCall ==
  ASSUME NEW w, NEW st, InObject(w, st), NEW name, NEW v, NEW k \in Bracket
  PROVE  Inside(Exec(w, [op |-> "named", name |-> name, k |-> k, v |-> v]), Append(st, k))
<1> DEFINE u == Exec(w, [op |-> "named", name |-> name, k |-> k, v |-> v])
<1>1. PICK r, vs : /\ startName(w, name) = Later(r, vs)
                   /\ Stacked(st, vs) /\ ReadsTo(r, At(st, "value"))
  BY NameCall
<1>2. u = AtFirst(Append(r, Tkn(k, "")), Pushed(vs))
  <2>1. u = open(startName(w, name), k)
    BY DEF Exec
  <2> QED BY <1>1, <2>1, WriterSteps
<1>3. ReadsTo(Append(r, Tkn(k, "")), At(Append(st, k), "first"))
  <2>1. ReadToken(At(st, "value"), Tkn(k, "")) = At(Append(st, k), "first")
    <3>1. k \in {"{", "["}
      BY DEF Bracket
    <3> QED BY <1>1, <3>1, TokensRead DEF Stacked
  <2>2. IsReader(At(Append(st, k), "first"))
    BY DEF IsReader, At
  <2> QED BY <1>1, <2>1, <2>2, PutReads
<1>4. Stacked(Append(st, k), Pushed(vs))
  BY <1>1, StackSteps
<1> HIDE DEF u
<1>5. Inside(u, Append(st, k))
  BY <1>2, <1>3, <1>4 DEF Inside
<1> QED BY <1>5 DEF u

(* The bracket is closed: the writer is behind a member of the one around it. *)
LEMMA ShutCall ==
  ASSUME NEW w, NEW st, Inside(w, st), st # << >>, NEW name, NEW v,
         NEW k, k = IF Last(st) = "{" THEN "}" ELSE "]"
  PROVE  LET u == Exec(w, [op |-> "shut", name |-> name, k |-> k, v |-> v])
         IN  Inside(u, Front(st)) /\ ReadsTo(u.result, At(Front(st), "after"))
<1> DEFINE u == Exec(w, [op |-> "shut", name |-> name, k |-> k, v |-> v])
<1>1. PICK r, vs : /\ Stacked(st, vs)
                   /\ \/ w = AtFirst(r, vs) /\ ReadsTo(r, At(st, "first"))
                      \/ w = Later(r, vs) /\ ReadsTo(r, At(st, "after"))
  BY DEF Inside
<1>s. Stacked(Front(st), Front(vs)) /\ Last(vs) = FALSE
  BY <1>1, StackSteps
<1>2. u = Later(Append(r, Tkn(k, "")), Front(vs))
  <2>1. u = shut(w, k)
    BY DEF Exec
  <2>2. w = Later(r, vs) \/ w = AtFirst(r, vs)
    BY <1>1
  <2> QED BY <1>s, <2>1, <2>2, ShutBoth
<1>3. ReadsTo(Append(r, Tkn(k, "")), At(Front(st), "after"))
  <2>1. \A x \in {"first", "after"} : ReadToken(At(st, x), Tkn(k, "")) = At(Front(st), "after")
    BY <1>1, TokensRead DEF Stacked
  <2>2. IsReader(At(Front(st), "after"))
    BY DEF IsReader, At
  <2>3. PICK x \in {"first", "after"} : ReadsTo(r, At(st, x))
    BY <1>1
  <2> QED BY <2>1, <2>2, <2>3, PutReads
<1> HIDE DEF u
<1>4. u.result = Append(r, Tkn(k, ""))
  BY <1>2 DEF W, Later
<1>5. Inside(u, Front(st))
  BY <1>2, <1>3, <1>s DEF Inside
<1> QED BY <1>3, <1>4, <1>5 DEF u

-----------------------------------------------------------------------------
(* Sequences of calls *)

(* Calls that write whole members, and calls that open an object and write some. *)
Neutral(calls) ==
  IsSeq(calls) /\ \A w, st : InObject(w, st) => InObject(Write(w, calls), st)
Opened(calls) ==
  IsSeq(calls) /\ \A w, st : InObject(w, st) => InObject(Write(w, calls), Append(st, "{"))

(* A sequence with one bracket more. *)
LEMMA OneMore ==
  ASSUME NEW st \in Seq(Bracket), NEW k \in Bracket
  PROVE  /\ Append(st, k) # << >> /\ Append(st, k) \in Seq(Bracket)
         /\ Last(Append(st, k)) = k /\ Front(Append(st, k)) = st
<1> DEFINE q == Append(st, k)
<1>1. /\ q \in Seq(Bracket) /\ Len(q) = Len(st) + 1 /\ q[Len(q)] = k
      /\ \A i \in 1 .. Len(st) : q[i] = st[i]
  BY AppendProperties
<1> HIDE DEF q
<1>2. q # << >>
  BY <1>1
<1>3. Front(q) \in Seq(Bracket) /\ Len(Front(q)) = Len(st)
  BY <1>1, <1>2, LastFront
<1>4. \A i \in 1 .. Len(st) : Front(q)[i] = st[i]
  BY <1>1 DEF Front
<1>5. Front(q) = st
  BY <1>3, <1>4, SeqEqual
<1> QED BY <1>1, <1>2, <1>5 DEF q, Last

(* Members after members. *)
LEMMA NeutralBoth ==
  ASSUME NEW s, NEW t, Neutral(t)
  PROVE  /\ Neutral(s) => Neutral(s \o t)
         /\ Opened(s) => Opened(s \o t)
<1>1. IsSeq(t)
  BY DEF Neutral
<1>2. ASSUME Neutral(s) PROVE Neutral(s \o t)
  <2>1. IsSeq(s) /\ IsSeq(s \o t)
    BY <1>1, <1>2, SeqOfBoth DEF Neutral
  <2>2. ASSUME NEW w, NEW st, InObject(w, st) PROVE InObject(Write(w, s \o t), st)
    <3>1. Write(w, s \o t) = Write(Write(w, s), t)
      BY <1>1, <2>1, WriteBoth
    <3>2. InObject(Write(w, s), st)
      BY <1>2, <2>2 DEF Neutral
    <3>3. InObject(Write(Write(w, s), t), st)
      BY <3>2 DEF Neutral
    <3> QED BY <3>1, <3>3
  <2> QED BY <2>1, <2>2 DEF Neutral
<1>3. ASSUME Opened(s) PROVE Opened(s \o t)
  <2>1. IsSeq(s) /\ IsSeq(s \o t)
    BY <1>1, <1>3, SeqOfBoth DEF Opened
  <2>2. ASSUME NEW w, NEW st, InObject(w, st) PROVE InObject(Write(w, s \o t), Append(st, "{"))
    <3>1. Write(w, s \o t) = Write(Write(w, s), t)
      BY <1>1, <2>1, WriteBoth
    <3>2. InObject(Write(w, s), Append(st, "{"))
      BY <1>3, <2>2 DEF Opened
    <3>3. InObject(Write(Write(w, s), t), Append(st, "{"))
      BY <3>2 DEF Neutral
    <3> QED BY <3>1, <3>3
  <2> QED BY <2>1, <2>2 DEF Opened
<1> QED BY <1>2, <1>3

(* One call is a sequence. *)
LEMMA CallIsSeq ==
  ASSUME NEW o, NEW name, NEW k, NEW v
  PROVE  IsSeq(Call(o, name, k, v))
<1> DEFINE c == [op |-> o, name |-> name, k |-> k, v |-> v]
<1>1. Call(o, name, k, v) = <<c>>
  BY DEF Call
<1> HIDE DEF c
<1>2. <<c>> \in Seq({c})
  OBVIOUS
<1> QED BY <1>1, <1>2 DEF IsSeq

(* The calls of the writer, by what they write. *)
LEMMA NeutralValue ==
  ASSUME NEW name, NEW v, NEW k \in {"num", "str", "bool", "text"}
  PROVE  Neutral(Call("value", name, k, v))
<1> DEFINE c == [op |-> "value", name |-> name, k |-> k, v |-> v]
<1>1. Call("value", name, k, v) = <<c>>
  BY DEF Call
<1>2. ASSUME NEW w, NEW st, InObject(w, st) PROVE InObject(Write(w, <<c>>), st)
  <2>1. InObject(Exec(w, c), st)
    BY <1>2, ValueCall
  <2> HIDE DEF c
  <2> QED BY <2>1, WriteOne
<1> HIDE DEF c
<1> QED BY <1>1, <1>2, CallIsSeq DEF Neutral

(* procObject() opens an object. *)
LEMMA OpenedObject == \A name : Opened(procObject(name))
<1> SUFFICES ASSUME NEW name PROVE Opened(procObject(name))
  OBVIOUS
<1> DEFINE c == [op |-> "named", name |-> name, k |-> "{", v |-> << >>]
<1>1. procObject(name) = <<c>> /\ IsSeq(procObject(name))
  BY CallIsSeq DEF Call, procObject
<1>2. ASSUME NEW w, NEW st, InObject(w, st) PROVE InObject(Write(w, <<c>>), Append(st, "{"))
  <2>0. "{" \in Bracket
    BY DEF Bracket
  <2>1. Inside(Exec(w, c), Append(st, "{"))
    BY <1>2, <2>0, OpenCall
  <2>2. Append(st, "{") # << >> /\ Last(Append(st, "{")) = "{"
    <3>1. st \in Seq(Bracket)
      BY <1>2 DEF InObject, Inside, Stacked
    <3> QED BY <2>0, <3>1, OneMore
  <2> HIDE DEF c
  <2> QED BY <2>1, <2>2, WriteOne DEF InObject
<1> HIDE DEF c
<1> QED BY <1>1, <1>2 DEF Opened

(* An object with its members, closed, is one member. *)
LEMMA NeutralClosed ==
  ASSUME NEW s, Opened(s)
  PROVE  Neutral(s \o closeObject)
<1> DEFINE c == [op |-> "shut", name |-> "", k |-> "}", v |-> << >>]
<1>1. closeObject = <<c>> /\ IsSeq(closeObject)
  BY CallIsSeq DEF Call, closeObject
<1>2. IsSeq(s) /\ IsSeq(s \o closeObject)
  BY <1>1, SeqOfBoth DEF Opened
<1>3. ASSUME NEW w, NEW st, InObject(w, st) PROVE InObject(Write(w, s \o closeObject), st)
  <2> DEFINE u == Write(w, s)
             q == Append(st, "{")
  <2>0. st \in Seq(Bracket) /\ st # << >> /\ Last(st) = "{"
    BY <1>3 DEF InObject, Inside, Stacked
  <2>1. q # << >> /\ Last(q) = "{" /\ Front(q) = st
    <3>1. "{" \in Bracket
      BY DEF Bracket
    <3> QED BY <2>0, <3>1, OneMore
  <2>2. Inside(u, q)
    BY <1>3 DEF Opened, InObject
  <2> HIDE DEF u, q
  <2>3. Inside(Exec(u, c), st)
    <3>1. "}" = IF Last(q) = "{" THEN "}" ELSE "]"
      BY <2>1
    <3> QED BY <2>1, <2>2, <3>1, ShutCall
  <2>4. Write(w, s \o closeObject) = Write(u, closeObject)
    <3>1. IsSeq(s) /\ IsSeq(closeObject)
      BY <1>1, <1>2
    <3>2. Write(w, s \o closeObject) = Write(Write(w, s), closeObject)
      BY ONLY <3>1, WriteBoth
    <3> QED BY <3>2 DEF u
  <2>5. Write(u, <<c>>) = Exec(u, c)
    BY WriteOne
  <2> HIDE DEF c
  <2> QED BY <1>1, <2>0, <2>3, <2>4, <2>5 DEF InObject
<1> QED BY <1>2, <1>3 DEF Neutral

(* An empty array is one member. *)
LEMMA NeutralArray == \A name : Neutral(procArray(name))
<1> SUFFICES ASSUME NEW name PROVE Neutral(procArray(name))
  OBVIOUS
<1> DEFINE b == [op |-> "named", name |-> name, k |-> "[", v |-> << >>]
           c == [op |-> "shut", name |-> "", k |-> "]", v |-> << >>]
<1>1. procArray(name) = <<b>> \o <<c>>
  BY DEF Call, procArray
<1>2. IsSeq(<<b>>) /\ IsSeq(<<c>>)
  BY CallIsSeq DEF Call
<1>3. ASSUME NEW w, NEW st, InObject(w, st) PROVE InObject(Write(w, <<b>> \o <<c>>), st)
  <2> DEFINE u == Exec(w, b)
             q == Append(st, "[")
  <2>0. st \in Seq(Bracket) /\ st # << >> /\ Last(st) = "{" /\ "[" \in Bracket
    BY <1>3 DEF InObject, Inside, Stacked, Bracket
  <2>1. q # << >> /\ Last(q) = "[" /\ Front(q) = st
    BY <2>0, OneMore
  <2>2. Inside(u, q)
    BY <1>3, <2>0, OpenCall
  <2> HIDE DEF u, q
  <2>3. Inside(Exec(u, c), st)
    <3>1. "]" = IF Last(q) = "{" THEN "}" ELSE "]"
      BY <2>1
    <3> QED BY <2>1, <2>2, <3>1, ShutCall
  <2> HIDE DEF b, c
  <2>4. Write(w, <<b>> \o <<c>>) = Write(Write(w, <<b>>), <<c>>)
    BY <1>2, WriteBoth
  <2>5. Write(w, <<b>> \o <<c>>) = Exec(u, c)
    BY <2>4, WriteOne DEF u
  <2> QED BY <2>0, <2>3, <2>5 DEF InObject
<1>4. IsSeq(<<b>> \o <<c>>)
  BY <1>2, SeqOfBoth
<1> HIDE DEF b, c
<1> QED BY <1>1, <1>3, <1>4 DEF Neutral

-----------------------------------------------------------------------------
(* The members of the structures *)

(* What json.cpp writes for one value. *)
LEMMA NeutralOne ==
  ASSUME NEW name, NEW v
  PROVE  /\ Neutral(procValue(name, v)) /\ Neutral(procString(name, v))
         /\ Neutral(procText(name, v)) /\ Neutral(procBool(name, v))
BY NeutralValue DEF procValue, procString, procText, procBool

(* What it writes for a port identity and for the quality of a clock. *)
LEMMA NeutralPortId == \A name, id, number : Neutral(ProcPortId(name, id, number))
<1> SUFFICES ASSUME NEW name, NEW id, NEW number PROVE Neutral(ProcPortId(name, id, number))
  OBVIOUS
<1>1. Opened(procObject(name) \o procString("clockIdentity", id))
  BY OpenedObject, NeutralOne, NeutralBoth
<1>2. Opened(procObject(name) \o procString("clockIdentity", id) \o procValue("portNumber", number))
  BY <1>1, NeutralOne, NeutralBoth
<1> QED BY <1>2, NeutralClosed DEF ProcPortId

(* A clock quality is one member, an object of its own. *)
LEMMA NeutralQuality == \A name, h, at : Neutral(ProcQuality(name, h, at))
<1> SUFFICES ASSUME NEW name, NEW h, NEW at PROVE Neutral(ProcQuality(name, h, at))
  OBVIOUS
<1> DEFINE a == procObject(name) \o procValue("clockClass", h[at])
           b == a \o procValue("clockAccuracy", h[at + 1])
           c == b \o procValue("offsetScaledLogVariance", h[at + 2])
<1>1. Opened(a)
  BY OpenedObject, NeutralOne, NeutralBoth
<1>2. Opened(b)
  BY <1>1, NeutralOne, NeutralBoth
<1>3. Opened(c)
  BY <1>2, NeutralOne, NeutralBoth
<1> QED BY <1>3, NeutralClosed DEF ProcQuality

MemberKinds ==
  {"num", "octets", "text", "binary", "flag", "u48", "stamp", "portId", "address", "quality", "array"}
  \cup DOMAIN EnumValues

(* What it writes for a member of a structure. *)
LEMMA NeutralMember ==
  ASSUME NEW m, NEW h, m.k \in MemberKinds
  PROVE  Neutral(ProcMember(m, h))
<1>1. CASE m.k \in {"num", "octets", "text", "binary", "flag", "u48", "stamp"}
  BY <1>1, NeutralOne DEF ProcMember
<1>6. CASE m.k \in DOMAIN EnumValues
  <2> DEFINE v == NameOf(m.k, h[m.at])
  <2>1. m.k \in {"timeSource", "portState", "timestamping", "networkProtocol"}
    BY <1>6 DEF EnumValues
  <2>2. ProcMember(m, h) = procString(m.name, v)
    BY <1>6, <2>1 DEF ProcMember
  <2> HIDE DEF v
  <2> QED BY <2>2, NeutralOne
<1>2. CASE m.k = "portId"
  BY <1>2, NeutralPortId DEF ProcMember
<1>3. CASE m.k = "address"
  <2> DEFINE v == NameOf("networkProtocol", h[m.at])
             a == procObject(m.name) \o procString("networkProtocol", v)
             b == a \o procString("addressField", h[m.at + 2])
  <2>1. Opened(a)
    BY OpenedObject, NeutralOne, NeutralBoth
  <2>2. Opened(b)
    BY <2>1, NeutralOne, NeutralBoth
  <2>3. Neutral(b \o closeObject)
    BY <2>2, NeutralClosed
  <2> QED BY <1>3, <2>3 DEF ProcMember
<1>4. CASE m.k = "quality"
  BY <1>4, NeutralQuality DEF ProcMember
<1>5. CASE m.k = "array"
  BY <1>5, NeutralArray DEF ProcMember
<1> QED BY <1>1, <1>2, <1>3, <1>4, <1>5, <1>6 DEF MemberKinds

(* The headers. *)
LEMMA NeutralHeads == Neutral(JsonHead) /\ Neutral(MngHead) /\ Neutral(<< >>)
<1> DEFINE h1 == procValue("sequenceId", << >>)
           h2 == h1 \o procValue("sdoId", << >>)
           h3 == h2 \o procValue("domainNumber", << >>)
           h4 == h3 \o procValue("versionPTP", << >>)
           h5 == h4 \o procValue("minorVersionPTP", << >>)
           h6 == h5 \o procString("messageType", << >>)
           m1 == procString("actionField", << >>)
           m2 == m1 \o procString("tlvType", << >>)
<1>1. Neutral(h1)
  BY NeutralOne
<1>2. Neutral(h2)
  BY <1>1, NeutralOne, NeutralBoth
<1>3. Neutral(h3)
  BY <1>2, NeutralOne, NeutralBoth
<1>4. Neutral(h4)
  BY <1>3, NeutralOne, NeutralBoth
<1>5. Neutral(h5)
  BY <1>4, NeutralOne, NeutralBoth
<1>6. Neutral(h6)
  BY <1>5, NeutralOne, NeutralBoth
<1>7. Neutral(JsonHead)
  BY <1>6, NeutralPortId, NeutralBoth DEF JsonHead
<1>8. Neutral(m1)
  BY NeutralOne
<1>9. Neutral(m2)
  BY <1>8, NeutralOne, NeutralBoth
<1>10. Neutral(MngHead)
  BY <1>9, NeutralOne, NeutralBoth DEF MngHead
<1>11. Neutral(<< >>)
  <2>1. << >> \in Seq({})
    OBVIOUS
  <2> QED BY <2>1, WriteNone DEF Neutral, IsSeq
<1> QED BY <1>7, <1>10, <1>11
(* A list of members that json.cpp writes. *)
IsMembers(ms) == IsSeq(ms) /\ \A i \in 1 .. Len(ms) : ms[i].k \in MemberKinds

(* One member, and lists of them. *)
LEMMA MembersOne ==
  ASSUME NEW k \in MemberKinds, NEW name, NEW at, NEW bit
  PROVE  IsMembers(Member(k, name, at, bit))
<1> DEFINE m == [k |-> k, name |-> name, at |-> at, bit |-> bit]
<1>1. Member(k, name, at, bit) = <<m>> /\ m.k \in MemberKinds
  BY DEF Member
<1> HIDE DEF m
<1>2. <<m>> \in Seq({m}) /\ Len(<<m>>) = 1 /\ <<m>>[1] = m
  OBVIOUS
<1>3. \A i \in 1 .. Len(<<m>>) : <<m>>[i].k \in MemberKinds
  BY <1>1, <1>2
<1> QED BY <1>1, <1>2, <1>3 DEF IsMembers, IsSeq

(* One list of members after the other. *)
LEMMA MembersMore ==
  ASSUME NEW s, NEW t, IsMembers(s), IsMembers(t)
  PROVE  IsMembers(s \o t)
<1>1. /\ IsSeq(s \o t) /\ Len(s) \in Nat /\ Len(t) \in Nat
      /\ Len(s \o t) = Len(s) + Len(t)
      /\ \A i \in 1 .. Len(s) : (s \o t)[i] = s[i]
      /\ \A i \in 1 .. Len(t) : (s \o t)[Len(s) + i] = t[i]
  BY SeqOfBoth DEF IsMembers
<1>2. ASSUME NEW i \in 1 .. Len(s \o t) PROVE (s \o t)[i].k \in MemberKinds
  <2>1. CASE i \in 1 .. Len(s)
    BY <1>1, <2>1 DEF IsMembers
  <2>2. CASE i \notin 1 .. Len(s)
    <3> DEFINE j == i - Len(s)
    <3>1. j \in 1 .. Len(t) /\ i = Len(s) + j
      BY <1>1, <2>2
    <3> HIDE DEF j
    <3> QED BY <1>1, <3>1 DEF IsMembers
  <2> QED BY <2>1, <2>2
<1> QED BY <1>1, <1>2 DEF IsMembers

(* What the lists of json.cpp are put together from. *)
LEMMA MembersRules ==
  /\ \A name, at : /\ IsMembers(Val(name, at)) /\ IsMembers(Oct(name, at))
                   /\ IsMembers(Txt(name, at)) /\ IsMembers(Bin(name, at)) /\ IsMembers(U48Val(name, at))
                   /\ IsMembers(Stamp(name, at)) /\ IsMembers(PortId(name, at))
                   /\ IsMembers(Address(name, at)) /\ IsMembers(Quality(name, at))
  /\ \A name, at : \A enum \in DOMAIN EnumValues : IsMembers(Enum(enum, name, at))
  /\ "timeSource" \in DOMAIN EnumValues /\ "portState" \in DOMAIN EnumValues
  /\ "timestamping" \in DOMAIN EnumValues
  /\ \A name : IsMembers(Arr(name))
  /\ \A name, at, bit : IsMembers(Flg(name, at, bit))
  /\ \A at : IsMembers(UtcFlagsShown(at)) /\ IsMembers(TraceFlagsShown(at))
  /\ \A s, t : IsMembers(s) /\ IsMembers(t) => IsMembers(s \o t)
<1>1. \A k \in MemberKinds : \A name, at, bit : IsMembers(Member(k, name, at, bit))
  BY MembersOne
<1>2. \A name, at : /\ IsMembers(Val(name, at)) /\ IsMembers(Oct(name, at))
                   /\ IsMembers(Txt(name, at)) /\ IsMembers(Bin(name, at)) /\ IsMembers(U48Val(name, at))
                   /\ IsMembers(Stamp(name, at)) /\ IsMembers(PortId(name, at))
                   /\ IsMembers(Address(name, at)) /\ IsMembers(Quality(name, at))
  BY <1>1 DEF Val, Oct, Txt, Bin, U48Val, Stamp, PortId, Address, Quality, MemberKinds
<1>3. \A name : IsMembers(Arr(name))
  BY <1>1 DEF Arr, MemberKinds
<1>4. \A name, at, bit : IsMembers(Flg(name, at, bit))
  BY <1>1 DEF Flg, MemberKinds
<1>5. \A s, t : IsMembers(s) /\ IsMembers(t) => IsMembers(s \o t)
  BY MembersMore
<1>6. \A at : IsMembers(UtcFlagsShown(at)) /\ IsMembers(TraceFlagsShown(at))
  BY <1>4, <1>5 DEF UtcFlagsShown, TraceFlagsShown
<1>7. \A name, at : \A enum \in DOMAIN EnumValues : IsMembers(Enum(enum, name, at))
  BY <1>1 DEF Enum, MemberKinds
<1>8. /\ "timeSource" \in DOMAIN EnumValues /\ "portState" \in DOMAIN EnumValues
      /\ "timestamping" \in DOMAIN EnumValues
  BY DEF EnumValues
<1> QED BY <1>2, <1>3, <1>4, <1>5, <1>6, <1>7, <1>8

(* The three parts of the table of json.cpp hold such lists. *)
LEMMA ShowClock == \A id \in DOMAIN ClockMembersShown : IsMembers(ClockMembersShown[id])
<1> DEFINE T == ClockMembersShown
<1>1. /\ IsMembers(T.CLOCK_DESCRIPTION)
      /\ IsMembers(T.USER_DESCRIPTION)
      /\ IsMembers(T.INITIALIZE)
      /\ IsMembers(T.FAULT_LOG)
  BY MembersRules DEF ClockMembersShown
<1>2. /\ IsMembers(T.DEFAULT_DATA_SET)
      /\ IsMembers(T.CURRENT_DATA_SET)
      /\ IsMembers(T.PARENT_DATA_SET)
      /\ IsMembers(T.TIME_PROPERTIES_DATA_SET)
  BY MembersRules DEF ClockMembersShown
<1>3. /\ IsMembers(T.PORT_DATA_SET)
      /\ IsMembers(T.PRIORITY1)
      /\ IsMembers(T.PRIORITY2)
      /\ IsMembers(T.DOMAIN_)
  BY MembersRules DEF ClockMembersShown
<1>4. /\ IsMembers(T.SLAVE_ONLY)
      /\ IsMembers(T.LOG_ANNOUNCE_INTERVAL)
      /\ IsMembers(T.ANNOUNCE_RECEIPT_TIMEOUT)
      /\ IsMembers(T.LOG_SYNC_INTERVAL)
  BY MembersRules DEF ClockMembersShown
<1>5. /\ IsMembers(T.VERSION_NUMBER)
  BY MembersRules DEF ClockMembersShown
<1>6. DOMAIN T = {"CLOCK_DESCRIPTION",
                  "USER_DESCRIPTION",
                  "INITIALIZE",
                  "FAULT_LOG",
                  "DEFAULT_DATA_SET",
                  "CURRENT_DATA_SET",
                  "PARENT_DATA_SET",
                  "TIME_PROPERTIES_DATA_SET",
                  "PORT_DATA_SET",
                  "PRIORITY1",
                  "PRIORITY2",
                  "DOMAIN_",
                  "SLAVE_ONLY",
                  "LOG_ANNOUNCE_INTERVAL",
                  "ANNOUNCE_RECEIPT_TIMEOUT",
                  "LOG_SYNC_INTERVAL",
                  "VERSION_NUMBER"}
  BY DEF ClockMembersShown
<1> HIDE DEF T
<1>7. \A id \in DOMAIN T : IsMembers(T[id])
  BY <1>1, <1>2, <1>3, <1>4, <1>5, <1>6
<1> QED BY <1>7 DEF T

(* The second part. *)
LEMMA ShowTime == \A id \in DOMAIN TimeMembersShown : IsMembers(TimeMembersShown[id])
<1> DEFINE T == TimeMembersShown
<1>1. /\ IsMembers(T.TIME)
      /\ IsMembers(T.CLOCK_ACCURACY)
      /\ IsMembers(T.UTC_PROPERTIES)
      /\ IsMembers(T.TRACEABILITY_PROPERTIES)
  BY MembersRules DEF TimeMembersShown
<1>2. /\ IsMembers(T.TIMESCALE_PROPERTIES)
      /\ IsMembers(T.UNICAST_NEGOTIATION_ENABLE)
      /\ IsMembers(T.PATH_TRACE_LIST)
      /\ IsMembers(T.PATH_TRACE_ENABLE)
  BY MembersRules DEF TimeMembersShown
<1>3. /\ IsMembers(T.GRANDMASTER_CLUSTER_TABLE)
      /\ IsMembers(T.UNICAST_MASTER_TABLE)
      /\ IsMembers(T.UNICAST_MASTER_MAX_TABLE_SIZE)
      /\ IsMembers(T.ACCEPTABLE_MASTER_TABLE)
  BY MembersRules DEF TimeMembersShown
<1>4. /\ IsMembers(T.ACCEPTABLE_MASTER_TABLE_ENABLED)
      /\ IsMembers(T.ACCEPTABLE_MASTER_MAX_TABLE_SIZE)
      /\ IsMembers(T.ALTERNATE_MASTER)
      /\ IsMembers(T.ALTERNATE_TIME_OFFSET_ENABLE)
  BY MembersRules DEF TimeMembersShown
<1>5. /\ IsMembers(T.ALTERNATE_TIME_OFFSET_NAME)
      /\ IsMembers(T.ALTERNATE_TIME_OFFSET_MAX_KEY)
      /\ IsMembers(T.ALTERNATE_TIME_OFFSET_PROPERTIES)
  BY MembersRules DEF TimeMembersShown
<1>6. DOMAIN T = {"TIME",
                  "CLOCK_ACCURACY",
                  "UTC_PROPERTIES",
                  "TRACEABILITY_PROPERTIES",
                  "TIMESCALE_PROPERTIES",
                  "UNICAST_NEGOTIATION_ENABLE",
                  "PATH_TRACE_LIST",
                  "PATH_TRACE_ENABLE",
                  "GRANDMASTER_CLUSTER_TABLE",
                  "UNICAST_MASTER_TABLE",
                  "UNICAST_MASTER_MAX_TABLE_SIZE",
                  "ACCEPTABLE_MASTER_TABLE",
                  "ACCEPTABLE_MASTER_TABLE_ENABLED",
                  "ACCEPTABLE_MASTER_MAX_TABLE_SIZE",
                  "ALTERNATE_MASTER",
                  "ALTERNATE_TIME_OFFSET_ENABLE",
                  "ALTERNATE_TIME_OFFSET_NAME",
                  "ALTERNATE_TIME_OFFSET_MAX_KEY",
                  "ALTERNATE_TIME_OFFSET_PROPERTIES"}
  BY DEF TimeMembersShown
<1> HIDE DEF T
<1>7. \A id \in DOMAIN T : IsMembers(T[id])
  BY <1>1, <1>2, <1>3, <1>4, <1>5, <1>6
<1> QED BY <1>7 DEF T

(* The third part. *)
LEMMA ShowPort == \A id \in DOMAIN PortMembersShown : IsMembers(PortMembersShown[id])
<1> DEFINE T == PortMembersShown
<1>1. /\ IsMembers(T.TRANSPARENT_CLOCK_PORT_DATA_SET)
      /\ IsMembers(T.LOG_MIN_PDELAY_REQ_INTERVAL)
      /\ IsMembers(T.TRANSPARENT_CLOCK_DEFAULT_DATA_SET)
      /\ IsMembers(T.PRIMARY_DOMAIN)
  BY MembersRules DEF PortMembersShown
<1>2. /\ IsMembers(T.DELAY_MECHANISM)
      /\ IsMembers(T.EXTERNAL_PORT_CONFIGURATION_ENABLED)
      /\ IsMembers(T.MASTER_ONLY)
      /\ IsMembers(T.HOLDOVER_UPGRADE_ENABLE)
  BY MembersRules DEF PortMembersShown
<1>3. /\ IsMembers(T.EXT_PORT_CONFIG_PORT_DATA_SET)
      /\ IsMembers(T.TIME_STATUS_NP)
      /\ IsMembers(T.GRANDMASTER_SETTINGS_NP)
      /\ IsMembers(T.PORT_DATA_SET_NP)
  BY MembersRules DEF PortMembersShown
<1>4. /\ IsMembers(T.SUBSCRIBE_EVENTS_NP)
      /\ IsMembers(T.PORT_PROPERTIES_NP)
      /\ IsMembers(T.PORT_STATS_NP)
      /\ IsMembers(T.SYNCHRONIZATION_UNCERTAIN_NP)
  BY MembersRules DEF PortMembersShown
<1>5. DOMAIN T = {"TRANSPARENT_CLOCK_PORT_DATA_SET",
                  "LOG_MIN_PDELAY_REQ_INTERVAL",
                  "TRANSPARENT_CLOCK_DEFAULT_DATA_SET",
                  "PRIMARY_DOMAIN",
                  "DELAY_MECHANISM",
                  "EXTERNAL_PORT_CONFIGURATION_ENABLED",
                  "MASTER_ONLY",
                  "HOLDOVER_UPGRADE_ENABLE",
                  "EXT_PORT_CONFIG_PORT_DATA_SET",
                  "TIME_STATUS_NP",
                  "GRANDMASTER_SETTINGS_NP",
                  "PORT_DATA_SET_NP",
                  "SUBSCRIBE_EVENTS_NP",
                  "PORT_PROPERTIES_NP",
                  "PORT_STATS_NP",
                  "SYNCHRONIZATION_UNCERTAIN_NP"}
  BY DEF PortMembersShown
<1> HIDE DEF T
<1>6. \A id \in DOMAIN T : IsMembers(T[id])
  BY <1>1, <1>2, <1>3, <1>4, <1>5
<1> QED BY <1>6 DEF T

(* Every id has such a list. *)
LEMMA AllMembers == \A id \in DOMAIN MembersShown : IsMembers(MembersShown[id])
BY ShowClock, ShowTime, ShowPort DEF MembersShown

(* FlattenSeq puts its sequences one behind the other. *)
LEMMA FlattenRule ==
  ASSUME NEW seqs, IsSeq(seqs), Len(seqs) # 0, IsSeq(seqs[1])
  PROVE  \E f : /\ FlattenSeq(seqs) = f[Len(seqs)] /\ f[1] = seqs[1]
                /\ \A i \in 2 .. Len(seqs) : f[i] = f[i - 1] \o seqs[i]
<1> DEFINE n == Len(seqs)
           G(f) == f = [i \in 1 .. n |-> IF i = 1 THEN seqs[i] ELSE f[i - 1] \o seqs[i]]
<1>n. n \in Nat /\ n > 0
  BY DEF IsSeq
<1>s. << >> \o seqs[1] = seqs[1]
  BY DEF IsSeq
<1>1. PICK e : FoldEq("cat", << >>, seqs, n, e)
  BY <1>n, FoldExists
<1>2. e[0] = << >> /\ \A i \in 1 .. n : e[i] = e[i - 1] \o seqs[i]
  <2>1. \A x, y : Step("cat", x, y) = x \o y
    BY DEF Step
  <2> HIDE DEF n, G
  <2>2. e[0] = << >> /\ \A i \in 1 .. n : e[i] = Step("cat", e[i - 1], seqs[i])
    <3> DEFINE kind == "cat"
               base == << >>
    <3>1. n \in Nat /\ FoldEq(kind, base, seqs, n, e)
      BY <1>n, <1>1
    <3> HIDE DEF kind, base
    <3>2. e[0] = base /\ \A i \in 1 .. n : e[i] = Step(kind, e[i - 1], seqs[i])
      BY ONLY <3>1, FoldUnfolded
    <3> QED BY <3>2 DEF kind, base
  <2> QED BY <2>1, <2>2
<1> DEFINE g == [i \in 1 .. n |-> e[i]]
<1>3. G(g)
  <2>1. g[1] = seqs[1]
    <3> HIDE DEF n
    <3>1. 1 \in 1 .. n /\ 1 - 1 = 0
      BY <1>n
    <3>2. e[1] = e[1 - 1] \o seqs[1]
      BY <1>2, <3>1
    <3>3. e[1] = << >> \o seqs[1]
      BY <1>2, <3>1, <3>2
    <3> QED BY <1>s, <3>1, <3>3
  <2>2. \A i \in 1 .. n : i # 1 => g[i] = g[i - 1] \o seqs[i]
    <3> SUFFICES ASSUME NEW i \in 1 .. n, i # 1 PROVE g[i] = g[i - 1] \o seqs[i]
      OBVIOUS
    <3>1. i - 1 \in 1 .. n
      BY <1>n
    <3>2. g[i] = e[i] /\ g[i - 1] = e[i - 1]
      BY <3>1
    <3> HIDE DEF g
    <3> QED BY <1>2, <3>2
  <2>3. g = [i \in 1 .. n |-> g[i]]
    OBVIOUS
  <2> HIDE DEF g
  <2> QED BY <2>1, <2>2, <2>3
<1>4. FlattenSeq(seqs) = (CHOOSE f : G(f))[n]
  BY DEF FlattenSeq
<1> DEFINE h == CHOOSE f : G(f)
<1> HIDE DEF G, g
<1>5. G(h)
  BY <1>3
<1> HIDE DEF h
<1>6. h = [i \in 1 .. n |-> IF i = 1 THEN seqs[i] ELSE h[i - 1] \o seqs[i]]
  BY <1>5 DEF G
<1>7. h[1] = seqs[1] /\ \A i \in 2 .. n : h[i] = h[i - 1] \o seqs[i]
  <2> DEFINE k == [i \in 1 .. n |-> IF i = 1 THEN seqs[i] ELSE h[i - 1] \o seqs[i]]
  <2>1. k[1] = seqs[1] /\ \A i \in 2 .. n : k[i] = h[i - 1] \o seqs[i]
    <3> HIDE DEF n
    <3>1. 1 \in 1 .. n /\ \A i \in 2 .. n : i \in 1 .. n /\ i # 1
      BY <1>n
    <3> QED BY <3>1
  <2>2. h = k
    BY <1>6
  <2> HIDE DEF k
  <2> QED BY <2>1, <2>2
<1>8. FlattenSeq(seqs) = h[n]
  BY <1>4 DEF h
<1> QED BY <1>7, <1>8

(* Members after members, as many as there are. *)
LEMMA FlattenNeutral ==
  ASSUME NEW seqs, IsSeq(seqs), \A i \in 1 .. Len(seqs) : Neutral(seqs[i])
  PROVE  Neutral(FlattenSeq(seqs))
<1>n. Len(seqs) \in Nat /\ (Len(seqs) = 0 => seqs = << >>)
  BY DEF IsSeq
<1>1. CASE Len(seqs) = 0
  <2>1. FlattenSeq(seqs) = << >>
    BY <1>n, <1>1 DEF FlattenSeq
  <2> QED BY <2>1, NeutralHeads
<1>2. CASE Len(seqs) # 0
  <2>0. 1 \in 1 .. Len(seqs)
    BY <1>n, <1>2
  <2>s. IsSeq(seqs[1])
    BY <2>0 DEF Neutral
  <2>1. PICK f : /\ FlattenSeq(seqs) = f[Len(seqs)] /\ f[1] = seqs[1]
                 /\ \A i \in 2 .. Len(seqs) : f[i] = f[i - 1] \o seqs[i]
    BY <1>2, <2>s, FlattenRule
  <2> DEFINE S == {i \in Nat : i + 1 <= Len(seqs) => Neutral(f[i + 1])}
  <2>2. 0 \in S
    <3>1. Neutral(f[1])
      BY <2>0, <2>1
    <3>2. 0 + 1 = 1
      OBVIOUS
    <3> QED BY <3>1, <3>2
  <2>3. ASSUME NEW i \in S PROVE i + 1 \in S
    <3>1. i \in Nat
      BY <2>3
    <3>2. SUFFICES ASSUME (i + 1) + 1 <= Len(seqs) PROVE Neutral(f[(i + 1) + 1])
      BY <3>1
    <3> DEFINE j == (i + 1) + 1
    <3>3. j \in 2 .. Len(seqs) /\ j \in 1 .. Len(seqs) /\ j - 1 = i + 1 /\ i + 1 <= Len(seqs)
      BY <1>n, <3>1, <3>2
    <3>4. Neutral(f[i + 1])
      BY <2>3, <3>3
    <3> HIDE DEF j
    <3>5. f[j] = f[i + 1] \o seqs[j]
      BY <2>1, <3>3
    <3>6. Neutral(f[i + 1] \o seqs[j])
      BY <3>3, <3>4, NeutralBoth
    <3>7. Neutral(f[j])
      BY <3>5, <3>6
    <3> QED BY <3>7 DEF j
  <2>4. S \in SUBSET Nat
    OBVIOUS
  <2>5. \A i \in Nat : i \in S
    <3> HIDE DEF S
    <3> QED BY <2>2, <2>3, <2>4, Inductive
  <2>6. Len(seqs) - 1 \in Nat /\ (Len(seqs) - 1) + 1 = Len(seqs)
    BY <1>n, <1>2
  <2> QED BY <2>1, <2>5, <2>6
<1> QED BY <1>1, <1>2

(* The members of the structure of an id. *)
LEMMA NeutralData == \A id \in DOMAIN MembersShown : \A h : Neutral(data2json(id, h))
<1> SUFFICES ASSUME NEW id \in DOMAIN MembersShown, NEW h PROVE Neutral(data2json(id, h))
  OBVIOUS
<1> DEFINE ms == MembersShown[id]
           seqs == [i \in 1 .. Len(ms) |-> ProcMember(ms[i], h)]
<1>1. IsMembers(ms) /\ data2json(id, h) = FlattenSeq(seqs)
  BY AllMembers DEF data2json
<1>2. Len(ms) \in Nat /\ \A i \in 1 .. Len(ms) : Neutral(ProcMember(ms[i], h))
  <2> HIDE DEF ms
  <2>1. Len(ms) \in Nat
    BY <1>1 DEF IsMembers, IsSeq
  <2> QED BY <1>1, <2>1, NeutralMember DEF IsMembers
<1> HIDE DEF ms
<1>3. IsSeq(seqs) /\ Len(seqs) = Len(ms) /\ \A i \in 1 .. Len(seqs) : seqs[i] = ProcMember(ms[i], h)
  <2>1. seqs \in Seq({ProcMember(ms[i], h) : i \in 1 .. Len(ms)})
    BY <1>2
  <2>2. Len(seqs) = Len(ms)
    BY <1>2
  <2> QED BY <2>1, <2>2 DEF IsSeq
<1> HIDE DEF seqs
<1> QED BY <1>1, <1>2, <1>3, FlattenNeutral

(* A message is JSON exactly if none of its texts needs an escape. *)
LEMMA MessageIsJson ==
  ASSUME NEW calls, Neutral(calls)
  PROVE  IsJson(msg2json(calls)) <=> ~HasEscape(msg2json(calls))
<1> DEFINE c == [op |-> "open", name |-> "", k |-> "{", v |-> << >>]
           b == [op |-> "shut", name |-> "", k |-> "}", v |-> << >>]
           s1 == startObject \o JsonHead
           s2 == s1 \o calls
           w1 == Write(NewWriter, startObject)
           w2 == Write(NewWriter, s1)
           w3 == Write(NewWriter, s2)
           st == <<"{">>
<1>0. startObject = <<c>> /\ closeObject = <<b>>
  BY DEF Call, startObject, closeObject
<1>i. IsSeq(startObject) /\ IsSeq(closeObject)
  BY CallIsSeq DEF startObject, closeObject
<1>s. IsSeq(JsonHead) /\ IsSeq(calls)
  BY NeutralHeads DEF Neutral
<1>q. IsSeq(s1) /\ IsSeq(s2)
  BY <1>i, <1>s, SeqOfBoth
<1>r. ReadsTo(<< >>, At(<< >>, "value"))
  <2>1. Reads(<< >>)[0] = At(<< >>, "value")
    BY ReadsRule DEF IsFold, At
  <2>2. << >> \in Seq({}) /\ Len(<< >>) = 0
    OBVIOUS
  <2> QED BY <2>1, <2>2 DEF ReadsTo, HasEscape, IsReader, At, IsSeq
<1>b. "{" \in Bracket /\ << >> \in Seq(Bracket) /\ Append(<< >>, "{") = st
  BY DEF Bracket
<1>t. Stacked(<< >>, << >>)
  BY DEF Stacked
<1>1. InObject(w1, st)
  <2>1. NewWriter = Later(<< >>, << >>)
    BY DEF NewWriter, Later, W
  <2>2. w1 = Exec(NewWriter, c)
    BY <1>0, WriteOne
  <2>3. Exec(NewWriter, c) = open(NewWriter, "{")
    BY DEF Exec
  <2>4. w1 = AtFirst(Append(<< >>, Tkn("{", "")), Pushed(<< >>))
    BY <2>1, <2>2, <2>3, WriterSteps
  <2>5. ReadToken(At(<< >>, "value"), Tkn("{", "")) = At(st, "first")
    BY <1>b, TokensRead
  <2>6. IsReader(At(st, "first"))
    BY DEF IsReader, At
  <2>7. ReadsTo(Append(<< >>, Tkn("{", "")), At(st, "first"))
    BY <1>r, <2>5, <2>6, PutReads
  <2>8. Stacked(st, Pushed(<< >>))
    <3>1. Stacked(Append(<< >>, "{"), Pushed(<< >>))
      BY <1>b, <1>t, StackSteps
    <3> QED BY <1>b, <3>1
  <2>9. st # << >> /\ Last(st) = "{"
    BY DEF Last
  <2> HIDE DEF w1, st
  <2> QED BY <2>4, <2>7, <2>8, <2>9 DEF InObject, Inside
<1>2. InObject(w2, st)
  <2>1. w2 = Write(w1, JsonHead)
    BY ONLY <1>i, <1>s, WriteBoth
  <2> HIDE DEF w1, w2, st
  <2> QED BY <1>1, <2>1, NeutralHeads DEF Neutral
<1>3. InObject(w3, st)
  <2>1. w3 = Write(w2, calls)
    BY <1>q, <1>s, WriteBoth
  <2> HIDE DEF w2, w3, st
  <2> QED BY <1>2, <2>1 DEF Neutral
<1> DEFINE u == Exec(w3, b)
<1>4. Write(NewWriter, s2 \o closeObject) = u
  <2>1. Write(NewWriter, s2 \o closeObject) = Write(w3, closeObject)
    BY ONLY <1>i, <1>q, WriteBoth
  <2> HIDE DEF w3
  <2> QED BY <1>0, <2>1, WriteOne
<1>5. msg2json(calls) = u.result
  BY <1>4 DEF msg2json
<1>6. ReadsTo(u.result, At(<< >>, "after"))
  <2>1. Inside(w3, st) /\ st # << >> /\ "}" = IF Last(st) = "{" THEN "}" ELSE "]"
    BY <1>3 DEF InObject
  <2>2. Front(st) = << >>
    BY <1>b, OneMore
  <2> HIDE DEF w3, st
  <2>3. ReadsTo(u.result, At(Front(st), "after"))
    BY <2>1, ShutCall
  <2> QED BY <2>2, <2>3
<1> DEFINE r == u.result
<1> HIDE DEF r, u
<1>7. msg2json(calls) = r /\ ReadsTo(r, At(<< >>, "after"))
  BY <1>5, <1>6 DEF r
<1>8. At(<< >>, "after").due = "after" /\ \A a : IsError(a) => a.due = "error"
  BY DEF At, IsError
<1>9. IsJson(r) <=> ~HasEscape(r)
  <2>1. IsJson(r) <=> Reads(r)[Len(r)] = At(<< >>, "after")
    BY DEF IsJson, At
  <2> QED BY <1>7, <1>8, <2>1 DEF ReadsTo
<1> QED BY <1>7, <1>9

(* What is in front of the members of a dataField. *)
LEMMA OpenedData == Opened(MngHead \o procObject("dataField"))
<1> DEFINE a == procObject("dataField")
           o == MngHead \o a
<1>1. IsSeq(MngHead) /\ IsSeq(a) /\ Neutral(MngHead) /\ Opened(a)
  BY NeutralHeads, OpenedObject DEF Neutral, Opened
<1>2. IsSeq(o)
  BY <1>1, SeqOfBoth
<1>3. ASSUME NEW w, NEW st, InObject(w, st) PROVE InObject(Write(w, o), Append(st, "{"))
  <2>1. InObject(Write(w, MngHead), st)
    BY <1>1, <1>3 DEF Neutral
  <2> HIDE DEF a
  <2>2. InObject(Write(Write(w, MngHead), a), Append(st, "{"))
    BY <1>1, <2>1 DEF Opened
  <2>3. Write(w, o) = Write(Write(w, MngHead), a)
    BY <1>1, WriteBoth
  <2> HIDE DEF o
  <2> QED BY <2>2, <2>3
<1> HIDE DEF o, a
<1>4. Opened(o)
  BY <1>2, <1>3 DEF Opened
<1> QED BY <1>4 DEF o, a

(* A dataField without members, and the two texts an error status has here. *)
LEMMA NeutralOther ==
  \A m \in { MngHead, MngHead \o procObject("dataField") \o closeObject,
             MngHead \o procString("managementErrorId", << >>) \o procText("displayData", <<65>>),
             MngHead \o procString("managementErrorId", << >>) \o procText("displayData", <<34>>),
             << >> } : Neutral(m)
<1> DEFINE e == MngHead \o procString("managementErrorId", << >>)
<1>1. Neutral(MngHead) /\ Neutral(<< >>)
  BY NeutralHeads
<1>2. Neutral(e)
  BY <1>1, NeutralOne, NeutralBoth
<1>3. \A v : Neutral(e \o procText("displayData", v))
  BY <1>2, NeutralOne, NeutralBoth
<1>5. Neutral(MngHead \o procObject("dataField") \o closeObject)
  BY OpenedData, NeutralClosed
<1> HIDE DEF e
<1>4. Neutral(e \o procText("displayData", <<65>>)) /\ Neutral(e \o procText("displayData", <<34>>))
  BY <1>3
<1> QED BY <1>1, <1>4, <1>5 DEF e

(* What is written is JSON, and before it is not. *)
LEMMA JsonWritten == WriteJson => JsonWellFormed'
<1>1. ASSUME JsonOfData PROVE JsonWellFormed'
  <2> DEFINE o == MngHead \o procObject("dataField")
             p == o \o data2json(tlv, d.head)
             calls == p \o closeObject
  <2>1. tlv \in DOMAIN MembersShown /\ json' = [of |-> "data", tokens |-> msg2json(calls)]
    BY <1>1 DEF JsonOfData
  <2>2. Opened(o)
    BY OpenedData
  <2>3. Neutral(data2json(tlv, d.head))
    BY <2>1, NeutralData
  <2>4. Opened(p)
    BY <2>2, <2>3, NeutralBoth
  <2>5. Neutral(calls)
    BY <2>4, NeutralClosed
  <2> HIDE DEF calls
  <2>6. IsJson(msg2json(calls)) <=> ~HasEscape(msg2json(calls))
    BY <2>5, MessageIsJson
  <2>7. json'.tokens = msg2json(calls)
    BY <2>1
  <2> QED BY <2>6, <2>7 DEF JsonWellFormed
<1>2. ASSUME JsonOfOther PROVE JsonWellFormed'
  <2>1. \E m : Neutral(m) /\ json' = [of |-> "other", tokens |-> msg2json(m)]
    BY <1>2, NeutralOther DEF JsonOfOther
  <2>2. PICK m : Neutral(m) /\ json' = [of |-> "other", tokens |-> msg2json(m)]
    BY <2>1
  <2>3. IsJson(msg2json(m)) <=> ~HasEscape(msg2json(m))
    BY <2>2, MessageIsJson
  <2>4. json'.tokens = msg2json(m)
    BY <2>2
  <2> QED BY <2>3, <2>4 DEF JsonWellFormed
<1> QED BY <1>1, <1>2 DEF WriteJson

(***************************************************************************)
(* For every id with members to show, every structure and every text: what *)
(* msg2json() returns is JSON, exactly as long as no text from outside     *)
(* needs an escape. The flag m_first and its stack keep commas and         *)
(* brackets right at every depth.                                          *)
(***************************************************************************)
THEOREM JsonIsWellFormed == SetShowSpec => []JsonWellFormed
<1>1. json = NoJson => JsonWellFormed
  BY DEF NoJson, JsonWellFormed
<1>2. SetShowInit => JsonWellFormed
  BY <1>1 DEF SetShowInit
<1>3. JsonWellFormed /\ [SetShowNext]_setVars => JsonWellFormed'
  <2> SUFFICES ASSUME JsonWellFormed, [SetShowNext]_setVars
               PROVE  JsonWellFormed'
    OBVIOUS
  <2>1. CASE json' = NoJson
    BY <2>1 DEF NoJson, JsonWellFormed
  <2>2. CASE WriteJson
    BY <2>2, JsonWritten
  <2>3. CASE UNCHANGED setVars
    BY <2>3 DEF setVars, JsonWellFormed
  <2> QED
    BY <2>1, <2>2, <2>3 DEF SetShowNext, ReadLine, SendTyped, CodecStep, NextOne
<1> QED
  BY <1>2, <1>3, PTL DEF SetShowSpec

=============================================================================
