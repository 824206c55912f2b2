------------------------------- MODULE Codec -------------------------------
(***************************************************************************)
(* Message::proc() and the functions made of it: the octets of a dataField *)
(* or of a signaling TLV are written (build) or read (parse) one proc() at *)
(* a time, with the cursor m_cur and the octets left m_left.               *)
(*                                                                         *)
(* A number is the sequence of its octets, least significant first, as on  *)
(* the host; text, octet arrays and the wire are sequences of octets in    *)
(* their order. A structure has a value for each field of head and for     *)
(* each field of each record; lengths, counts and reserved octets are      *)
(* << >> until proc() fills them.                                          *)
(***************************************************************************)
EXTENDS Layouts, SequencesExt

CONSTANTS
  Layout,     \* the layout of each TLV
  Structs,    \* what callers build: records of tlv, head and recs
  Rooms,      \* how many octets more or less than planned a buffer has
  Received    \* what the network brings: records of tlv and octets

Octet == 0 .. 255

(***************************************************************************)
(* pos is the next call of proc() of the function of tlv; rec is 0 in the  *)
(* head, or the number of the record. d is the structure, buf the octets,  *)
(* len and cnt the length and the count read last. Histories: op is the    *)
(* last operation, room the octets it had at its start, sent the structure *)
(* and the octets of the last build, as long as nothing else is built or   *)
(* received.                                                               *)
(***************************************************************************)
VARIABLES pc, op, tlv, rec, pos, d, buf, len, cnt, m_cur, m_left, m_size, ret, room, sent

codecVars ==
  <<pc, op, tlv, rec, pos, d, buf, len, cnt, m_cur, m_left, m_size, ret, room, sent>>

Nothing == [tlv |-> "none", head |-> << >>, recs |-> << >>, octets |-> << >>]

CodecInit ==
  /\ pc = "idle" /\ op = "none" /\ tlv = "none"
  /\ rec = 0 /\ pos = 1
  /\ d = [head |-> << >>, recs |-> << >>]
  /\ buf = << >> /\ len = 0 /\ cnt = 0
  /\ m_cur = 0 /\ m_left = 0 /\ m_size = 0
  /\ ret = "OK" /\ room = 0
  /\ sent = Nothing

-----------------------------------------------------------------------------
(* Conversions *)

(* Mutant: no cut to the width of the field. *)
DigitsUncut(x, n) == IF n = 1 THEN <<x>> ELSE <<x % 256, x \div 256>>

(* A length or a count in one or two octets, cut to the width of the field. *)
Digits(x, n) == IF n = 1 THEN <<x % 256>> ELSE <<x % 256, (x \div 256) % 256>>

(* The number of one or two octets. *)
Value(v) == IF Len(v) = 1 THEN v[1] ELSE v[1] + 256 * v[2]

(* procFlags(): the bits of the mask, or of a single flag whether it is set. *)
Masked(f, x) ==
  IF f.hi - f.lo = 1
  THEN IF x > 0 THEN 1 ELSE 0
  ELSE (x % f.hi) - (x % f.lo)

(* The length of a text or an octet string is handed to proc() as an uint16_t. *)
Cut16(n) == n % 65536

(* Mutant: the two halves of a 48 bit value both in host order. *)
ToWireSwapped(f, v) ==
  CASE f.k \in {"num", "len", "count"} -> Reverse(v)
    [] f.k = "body" -> SubSeq(v, 1, Cut16(Len(v)))
    [] OTHER -> IF f.k = "high16" THEN SubSeq(v, 1, 2) ELSE v

(* cpu_to_net and cpu_to_le: the octets of a value on the wire, up to where the
   cursor moves. *)
ToWire(f, v) ==
  CASE f.k \in {"num", "len", "count"} -> Reverse(v)
    [] f.k = "high16" -> Reverse(SubSeq(v, 1, 2))
    [] f.k = "body" -> SubSeq(v, 1, Cut16(Len(v)))
    [] OTHER -> v

(* net_to_cpu and le_to_cpu: the value of octets of the wire. *)
FromWire(f, o) ==
  CASE f.k \in {"num", "len", "count"} -> Reverse(o)
    [] f.k = "high16" -> Reverse(o) \o <<0, 0>>
    [] OTHER -> o

-----------------------------------------------------------------------------
(* proc() *)

Fields == IF rec = 0 THEN Layout[tlv].head ELSE Layout[tlv].rec
Values == IF rec = 0 THEN d.head ELSE d.recs[rec]
WithValues(v) ==
  IF rec = 0 THEN [d EXCEPT !.head = v] ELSE [d EXCEPT !.recs[rec] = v]
f0 == Fields[pos]

(* What the structure holds in a field when its proc() writes it. *)
ToWrite ==
  LET v == Values[pos] IN
  CASE f0.k = "len" -> Digits(Len(Values[pos + 1]), f0.n)
    [] f0.k = "count" -> Digits(Len(d.recs), f0.n)
    [] f0.k = "reserved" -> <<0>>
    [] f0.k = "flags" -> <<Masked(f0, v[1])>>
    [] OTHER -> v

(* The octets of the field: a proc() that writes a text or an octet string takes its
   length, one that reads it the length read before. *)
FieldLen ==
  CASE f0.k = "body" -> IF op = "build" THEN Cut16(Len(Values[pos])) ELSE len
    [] f0.k = "tail" -> m_left
    [] OTHER -> f0.n

(* Mutant: the length read is not compared with the octets left. *)
NeedUnchecked == IF f0.k = "body" THEN 0 ELSE FieldLen

(* The octets proc() must find left. *)
Need == FieldLen

(* The octets proc() moves: Float64_t moves twice. *)
Moved == IF f0.k = "float" THEN 2 * FieldLen ELSE FieldLen

(* The octets that proc() copies into the buffer: Binary::copy() takes all of an octet
   string, whatever the length that was checked. An octet string is told from a text by
   the two octets of its length. *)
Copied ==
  IF f0.k = "body" /\ Fields[pos - 1].n = 2 THEN Len(Values[pos]) ELSE FieldLen

Move(k) == m_cur' = m_cur + k /\ m_left' = m_left - k /\ m_size' = m_size + k

Fail(err) ==
  /\ pc' = "idle" /\ ret' = err
  /\ UNCHANGED <<op, tlv, rec, pos, d, buf, len, cnt, m_cur, m_left, m_size, room, sent>>

(* A proc48() that is asked to write more than 48 bits. *)
TooLarge == f0.k = "high16" /\ (Values[pos][3] # 0 \/ Values[pos][4] # 0)

ProcWrites ==
  /\ pc = "run" /\ op = "build" /\ pos <= Len(Fields)
  /\ IF TooLarge THEN Fail("VAL")
     ELSE IF m_left < Need THEN Fail("TOO_SMALL")
     ELSE /\ d' = WithValues([Values EXCEPT ![pos] = ToWrite])
          /\ buf' = buf \o ToWire(f0, ToWrite)
          /\ Move(Moved)
          /\ pos' = pos + 1
          /\ UNCHANGED <<pc, op, tlv, rec, len, cnt, ret, room, sent>>

(* proc(FaultRecord_t): the length of the record against those of its texts. *)
FaultMismatch ==
  /\ f0.k = "fault"
  /\ Value(Values[1]) # 16 + Value(Values[6]) + Value(Values[8]) + Value(Values[10])

ProcReads ==
  /\ pc = "run" /\ op # "build" /\ pos <= Len(Fields)
  /\ IF FaultMismatch THEN Fail("SIZE_MISS")
     ELSE IF m_left < Need THEN Fail("TOO_SMALL")
     ELSE LET v == FromWire(f0, SubSeq(buf, m_cur + 1, m_cur + FieldLen)) IN
          /\ d' = WithValues(Append(Values, v))
          /\ len' = IF f0.k = "len" THEN Value(v) ELSE len
          /\ cnt' = IF f0.k = "count" THEN Value(v) ELSE cnt
          /\ Move(Moved)
          /\ pos' = pos + 1
          /\ UNCHANGED <<pc, op, tlv, rec, buf, ret, room, sent>>

-----------------------------------------------------------------------------
(* The lists at the end of a TLV and the end of the functions *)

(* Mutant: a counted list also ends with the octets. *)
AnotherRecordIfLeft ==
  LET list == Layout[tlv].list IN
  \/ list # "none" /\ op = "build" /\ rec < Len(d.recs)
  \/ list = "counted" /\ op # "build" /\ rec < cnt /\ m_left > 0
  \/ list = "open" /\ op # "build" /\ m_left >= Layout[tlv].size

(* The conditions of the loops of vector_b, vector_f and vector_o. *)
AnotherRecord ==
  LET list == Layout[tlv].list IN
  \/ list # "none" /\ op = "build" /\ rec < Len(d.recs)
  \/ list = "counted" /\ op # "build" /\ rec < cnt
  \/ list = "open" /\ op # "build" /\ m_left >= Layout[tlv].size

NextRecord ==
  /\ pc = "run" /\ pos > Len(Fields) /\ AnotherRecord
  /\ rec' = rec + 1 /\ pos' = 1
  /\ d' = IF op = "build" THEN d ELSE [d EXCEPT !.recs = Append(@, << >>)]
  /\ UNCHANGED <<pc, op, tlv, buf, len, cnt, m_cur, m_left, m_size, ret, room, sent>>

Finished == pc = "run" /\ pos > Len(Fields) /\ ~AnotherRecord

(* build() adds an octet where the length is odd. *)
EndBuild ==
  /\ Finished /\ op = "build"
  /\ IF m_size % 2 = 1 /\ m_left < 1 THEN Fail("TOO_SMALL")
     ELSE /\ buf' = IF m_size % 2 = 1 THEN Append(buf, 0) ELSE buf
          /\ Move(m_size % 2)
          /\ pc' = "idle" /\ ret' = "OK"
          /\ sent' = [tlv |-> tlv, head |-> d.head, recs |-> d.recs, octets |-> buf']
          /\ UNCHANGED <<op, tlv, rec, pos, d, len, cnt, room>>

EndParse ==
  /\ Finished /\ op # "build"
  /\ pc' = "idle" /\ ret' = "OK"
  /\ UNCHANGED <<op, tlv, rec, pos, d, buf, len, cnt, m_cur, m_left, m_size, room, sent>>

-----------------------------------------------------------------------------
(* The callers: build(), parse() and parseSig() *)

Start(o, t, s, b, r) ==
  /\ pc = "idle" /\ pc' = "run"
  /\ op' = o /\ tlv' = t /\ rec' = 0 /\ pos' = 1 /\ d' = s /\ buf' = b
  /\ len' = 0 /\ cnt' = 0
  /\ m_cur' = 0 /\ m_left' = r /\ m_size' = 0 /\ room' = r /\ ret' = "OK"

(* Where each of a row of octet strings ends that have the lengths ns. *)
Ends(ns) == LET e[i \in 0 .. Len(ns)] == IF i = 0 THEN 0 ELSE e[i - 1] + ns[i] IN e

SumOfLens(recs, base) ==
  Ends([i \in 1 .. Len(recs) |-> base + Len(recs[i][3])])[Len(recs)]

(* FaultRecord_t::size() *)
FaultSize(r) == 3 + 10 + (1 + Len(r[7])) + (1 + Len(r[9])) + (1 + Len(r[11]))

(* dataFieldSize(): the size functions of proc.cpp. *)
DataFieldSize(s) ==
  LET h == s.head IN
  SizeBase(s.tlv) +
  ( CASE s.tlv = "CLOCK_DESCRIPTION" ->
           Len(h[5]) + (4 + Len(h[8])) + (1 + Len(h[3]))
           + (1 + Len(h[12])) + (1 + Len(h[14])) + (1 + Len(h[16]))
      [] s.tlv = "USER_DESCRIPTION" -> 1 + Len(h[2])
      [] s.tlv = "ALTERNATE_TIME_OFFSET_NAME" -> 1 + Len(h[3])
      [] s.tlv = "PORT_PROPERTIES_NP" -> 1 + Len(h[6])
      [] s.tlv = "FAULT_LOG" ->
           Ends([i \in 1 .. Len(s.recs) |-> FaultSize(s.recs[i])])[Len(s.recs)]
      [] s.tlv = "PATH_TRACE_LIST" -> 8 * Len(s.recs)
      [] s.tlv = "ACCEPTABLE_MASTER_TABLE" -> 11 * Len(s.recs)
      [] OTHER -> SumOfLens(s.recs, 4) )

(* getMsgPlanedLen() without the constant part: the table or the function, even. *)
Planned(s) ==
  LET n == IF SizeOf(s.tlv) = -2 THEN DataFieldSize(s) ELSE SizeOf(s.tlv)
  IN  n + (n % 2)

(***************************************************************************)
(* A layout: the length of a text or an octet string stands in front of it *)
(* in one or two octets, and the flags of a mask fit into one.             *)
(***************************************************************************)
FieldType == [k : STRING, n : Nat, lo : Nat \ {0}, hi : Nat \ {0}]
IsLayout(fs) ==
  /\ fs \in Seq(FieldType)
  /\ \A i \in 1 .. Len(fs) :
       /\ fs[i].k = "len" => i < Len(fs) /\ fs[i + 1].k = "body"
       /\ fs[i].k = "body" => i > 1 /\ fs[i - 1].k = "len"
       /\ fs[i].k \in {"len", "count"} => fs[i].n \in {1, 2}
       /\ fs[i].k \in {"reserved", "flags"} => fs[i].n = 1
       /\ fs[i].k = "high16" => fs[i].n = 2
       /\ fs[i].k = "float" => fs[i].n = 8
       /\ fs[i].k = "flags" => \A x \in Octet : Masked(fs[i], x) \in Octet

Kinds(fs) == {fs[i].k : i \in 1 .. Len(fs)}

(* The fields of a structure that an application sends, and those of fixed size. *)
PlainKinds == {"num", "octets", "le", "flags", "reserved", "count", "high16"}
SentKinds == PlainKinds \cup {"len", "body"}
FixedKinds == PlainKinds \cup {"float"}

(* The values of a structure of proc.h for the fields fs. *)
HasShape(vs, fs) ==
  /\ vs \in Seq(Seq(Octet)) /\ Len(vs) = Len(fs)
  /\ \A i \in 1 .. Len(fs) : /\ fs[i].k \in {"num", "octets", "le", "flags"} => Len(vs[i]) = fs[i].n
                             /\ fs[i].k = "high16" => Len(vs[i]) = 4
IsStruct(t, s) ==
  /\ HasShape(s.head, Layout[t].head)
  /\ s.recs \in Seq(Seq(Seq(Octet)))
  /\ \A i \in 1 .. Len(s.recs) : HasShape(s.recs[i], Layout[t].rec)

ASSUME RoomsAssumption == Rooms \subseteq Int

(* The count of a list stands in the head. *)
ASSUME LayoutAssumption ==
  \A t \in DOMAIN Layout :
    /\ IsLayout(Layout[t].head) /\ IsLayout(Layout[t].rec)
    /\ Layout[t].list \in {"none", "counted", "open"}
    /\ Layout[t].list = "counted" => "count" \in Kinds(Layout[t].head)
    /\ "count" \notin Kinds(Layout[t].rec)

(* No id that an application may set has a list without count. *)
ASSUME StructsAssumption ==
  \A s \in Structs :
    /\ s.tlv \in DOMAIN Layout /\ IsStruct(s.tlv, s) /\ Planned(s) \in Nat
    /\ Kinds(Layout[s.tlv].head) \cup Kinds(Layout[s.tlv].rec) \subseteq SentKinds
    /\ Layout[s.tlv].list # "open"
    /\ Layout[s.tlv].list = "none" => s.recs = << >>

(* No dataField that is empty is read. parse() takes those of even length only, but
   parseSig() reads any that a MANAGEMENT TLV has. *)
ASSUME ReceivedAssumption ==
  \A x \in Received :
    /\ x.tlv \in DOMAIN Layout /\ x.octets \in Seq(Octet)
    /\ x.tlv \notin DOMAIN SigLayouts => x.octets # << >>

(* The instance that the library is: its functions, and the ids that have a build(). *)
LibraryTables == Layout = AllLayouts /\ \A s \in Structs : s.tlv \in SentIds

(* build() of a structure in a buffer; m_left is what follows the TLV's header. *)
StartBuild ==
  \E s \in Structs, k \in Rooms :
    /\ Planned(s) + k >= 0
    /\ Start("build", s.tlv, [head |-> s.head, recs |-> s.recs], << >>, Planned(s) + k)
    /\ sent' = Nothing

(* parse() of what build() wrote last, or of the front part of it. *)
StartParse ==
  \E n \in 1 .. Len(sent.octets) :
    /\ n % 2 = 0
    /\ Start("parse", sent.tlv, [head |-> << >>, recs |-> << >>],
             SubSeq(sent.octets, 1, n), n)
    /\ UNCHANGED sent

(* parse() and parseSig() of what the network brings. *)
Receive ==
  \E x \in Received :
    /\ Start("receive", x.tlv, [head |-> << >>, recs |-> << >>], x.octets, Len(x.octets))
    /\ sent' = Nothing

CodecNext ==
  StartBuild \/ StartParse \/ Receive
  \/ ProcWrites \/ ProcReads \/ NextRecord \/ EndBuild \/ EndParse

CodecSpec == CodecInit /\ [][CodecNext]_codecVars

-----------------------------------------------------------------------------
(* Properties *)

(* The state is well formed; every octet written or read is one, whatever the
   lengths of the caller's texts and lists. *)
CodecTypeOK ==
  /\ pc \in {"idle", "run"} /\ op \in {"none", "build", "parse", "receive"}
  /\ ret \in {"OK", "TOO_SMALL", "VAL", "SIZE_MISS"}
  /\ rec \in Nat /\ pos \in Nat \ {0} /\ len \in Nat /\ cnt \in Nat
  /\ m_cur \in Nat /\ m_left \in Int /\ m_size \in Nat /\ room \in Nat
  /\ buf \in Seq(Octet)

(* A TLV function that has no Float64_t. *)
NoFloat(t) ==
  t \in DOMAIN Layout =>
    /\ \A i \in 1 .. Len(Layout[t].head) : Layout[t].head[i].k # "float"
    /\ \A i \in 1 .. Len(Layout[t].rec) : Layout[t].rec[i].k # "float"

Returned(o) == pc = "idle" /\ op = o

(* The texts and octet strings are as long as an uint16_t can say. *)
ShortFields(fs, vs) ==
  \A i \in 1 .. Len(fs) : fs[i].k = "body" => Len(vs[i]) < 65536
Short(t, s) ==
  /\ ShortFields(Layout[t].head, s.head)
  /\ \A r \in 1 .. Len(s.recs) : ShortFields(Layout[t].rec, s.recs[r])

(* The next proc() of build() copies no octet behind the buffer. *)
CopiesInside ==
  pc = "run" /\ op = "build" /\ pos <= Len(Fields) /\ m_left >= Need => Copied <= m_left

(* proc() never moves the cursor behind the octets it was given, neither those of a
   buffer to write nor those of a message to read, whatever they hold; a Float64_t,
   which moves twice, brings it eight octets behind them at most. Nor does build() copy
   octets behind the buffer, as long as no octet string has more of them than an
   uint16_t can say. *)
StaysInside ==
  /\ m_cur + m_left = room
  /\ m_left >= IF NoFloat(tlv) THEN 0 ELSE -8
  /\ op = "build" /\ Short(tlv, d) => CopiesInside

(* The structure has no value its fields can not hold: texts and lists not longer
   than their length and count can say. *)
Reach(n) == IF n = 1 THEN 256 ELSE 65536
FieldsFit(fs, vs) ==
  \A i \in 1 .. Len(fs) : fs[i].k = "len" => Len(vs[i + 1]) < Reach(fs[i].n)
Fits(t, s) ==
  /\ FieldsFit(Layout[t].head, s.head)
  /\ \A i \in 1 .. Len(s.recs) : FieldsFit(Layout[t].rec, s.recs[i])
  /\ \A i \in 1 .. Len(Layout[t].head) :
       Layout[t].head[i].k = "count" => Len(s.recs) < Reach(Layout[t].head[i].n)

(* parse() of what build() wrote gives the structure that was built, with its
   lists, byte orders, 48 bit values and flags. *)
RoundTrip ==
  Returned("parse") /\ Len(buf) = Len(sent.octets) /\ Fits(tlv, sent)
    => ret = "OK" /\ d.head = sent.head /\ d.recs = sent.recs

(* parse() accepts no front part of it: every function notices missing octets,
   in a list too. *)
TruncatedRejected ==
  Returned("parse") /\ Len(buf) < Len(sent.octets) /\ Fits(tlv, sent) => ret # "OK"

(* The octets that a text and all other fields take, one by one and together. *)
Takes(fs, vs) ==
  [i \in 1 .. Len(fs) |-> IF fs[i].k = "body" THEN Cut16(Len(vs[i])) ELSE fs[i].n]
End(fs, vs) == Ends(Takes(fs, vs))[Len(fs)]
RecEnds(t, s) == Ends([r \in 1 .. Len(s.recs) |-> End(Layout[t].rec, s.recs[r])])
StructEnd(t, s) == End(Layout[t].head, s.head) + RecEnds(t, s)[Len(s.recs)]

Even(n) == n + (n % 2)
TableSize(t) == IF t \in DOMAIN SigLayouts THEN SigSizeOf(t) ELSE SizeOf(t)

(* The column of sizes in ids.h, and the size() of the records of a list without
   count, against the calls of proc(). *)
TablesAgree(t) ==
  LET lay == Layout[t] IN
  /\ TableSize(t) # -2 =>
       /\ lay.list = "none" /\ Kinds(lay.head) \subseteq FixedKinds
       /\ TableSize(t) = IF t \in DOMAIN SigLayouts THEN End(lay.head, << >>)
                         ELSE Even(End(lay.head, << >>))
  /\ lay.list = "open" => /\ Kinds(lay.rec) \subseteq FixedKinds
                          /\ lay.size = End(lay.rec, << >>)

(* The structure of which a GET of variable size sends the octets: no text, address or
   record in it. *)
EmptyStruct(t) ==
  [tlv |-> t, head |-> [i \in 1 .. Len(Layout[t].head) |-> << >>], recs |-> << >>]

(* The column of sizes in ids.h, the size() of the records of lists without count and
   the size functions of proc.cpp give the octets, made even, that the calls of proc()
   move: three places in which the fields of a TLV are added up by hand, apart from the
   function that reads and writes them. A size function is held against what its callers
   hand to it: the structure of an application, with texts and octet strings that an
   uint16_t can count, or the empty one of a GET. (CLOCK_DESCRIPTION_s counts 13 octets
   of the 14 that are always there; a GET does not notice, as 21 is made even.) *)
SizesAgree ==
  tlv \in DOMAIN Layout =>
    /\ TablesAgree(tlv)
    /\ TableSize(tlv) = -2 /\ tlv \notin DOMAIN SigLayouts =>
         Planned(EmptyStruct(tlv)) = Even(StructEnd(tlv, EmptyStruct(tlv)))
    /\ op = "build" /\ Short(tlv, d) =>
         Planned([tlv |-> tlv, head |-> d.head, recs |-> d.recs]) = Even(StructEnd(tlv, d))

(* build() needs and produces the size that ids.h and the size functions of
   proc.cpp promise, for every TLV function whose texts and octet strings are not longer
   than an uint16_t can say; only a value of more than 48 bits makes it fail in a buffer
   of that size. *)
PlanIsKept ==
  Returned("build") /\ Short(tlv, d) =>
    LET planned == Planned([tlv |-> tlv, head |-> d.head, recs |-> d.recs]) IN
    /\ ret = "OK" => m_size = planned /\ Len(buf) = planned
    /\ ret = "TOO_SMALL" => room < planned

(* A received TLV of fixed size is accepted exactly if it has the octets its table or
   its types say. The table holds the octets that parse() must find, which takes an even
   number of them only; of an odd dataField in a signaling message nothing is said. *)
FixedSizeIsExact ==
  Returned("receive") /\ TableSize(tlv) # -2 /\ (tlv \in DOMAIN SigLayouts \/ room % 2 = 0)
    => (ret = "OK" <=> room >= TableSize(tlv))

(* A list that ends with its TLV never fails inside a record: the size() in the
   condition of its loop is what its proc() needs. *)
RecordsFit ==
  Returned("receive") /\ Layout[tlv].list = "open" /\ ret # "OK" => rec = 0
=============================================================================
