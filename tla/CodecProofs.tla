---------------------------- MODULE CodecProofs ----------------------------
(***************************************************************************)
(* Proofs about Codec, for any layouts, structures and received octets:    *)
(* lengths and counts that come from the wire never lead the cursor out of *)
(* the octets, but for the eight that a Float64_t moves too far, and sizes *)
(* that count the fields right decide what is accepted. What the recursive *)
(* sum Ends is, is shown once by induction (EndsRule).                     *)
(***************************************************************************)
EXTENDS Codec, SequenceTheorems, WellFoundedInduction, TLAPS

(* The structure to write, while it is written. *)
BuildOK ==
  pc = "run" /\ op = "build" =>
    /\ d = [head |-> d.head, recs |-> d.recs]
    /\ IsStruct(tlv, d)
    /\ rec <= Len(d.recs)

(* The strengthening: the three counts of the octets are one, the octets to read
   are there, and an operation under way has a layout. *)
Inv ==
  /\ CodecTypeOK
  /\ sent.octets \in Seq(Octet)
  /\ sent.octets # << >> => sent.tlv \in DOMAIN Layout
  /\ m_size = m_cur /\ m_cur + m_left = room
  /\ op \in {"parse", "receive"} => room = Len(buf)
  /\ pc = "run" => op # "none" /\ tlv \in DOMAIN Layout
  /\ BuildOK
  /\ m_left >= IF NoFloat(tlv) THEN 0 ELSE -8

(* A structure that an application may send. *)
Sendable(t, s) ==
  /\ t \in DOMAIN Layout /\ IsStruct(t, s)
  /\ Kinds(Layout[t].head) \cup Kinds(Layout[t].rec) \subseteq SentKinds
  /\ Layout[t].list # "open"
  /\ Layout[t].list = "none" => s.recs = << >>
  /\ LibraryTables => t \in SentIds

(***************************************************************************)
(* The uses of the codec that the proofs are about: build() of any such    *)
(* structure in a buffer of any size, and a fresh start between two calls. *)
(* Those of CodecSpec are among them, and those of SetShow.                *)
(***************************************************************************)
BuildAny ==
  \E t, s, r :
    /\ Sendable(t, s) /\ r \in Nat
    /\ Start("build", t, [head |-> s.head, recs |-> s.recs], << >>, r)
    /\ sent' = Nothing
Afresh == pc = "idle" /\ CodecInit'
UseNext ==
  BuildAny \/ Afresh \/ StartParse \/ Receive
  \/ ProcWrites \/ ProcReads \/ NextRecord \/ EndBuild \/ EndParse
UseSpec == CodecInit /\ [][UseNext]_codecVars

(* The structures that CodecSpec builds may be sent. *)
LEMMA CodecBuilds == StartBuild => BuildAny
<1>1. SUFFICES ASSUME NEW s \in Structs, NEW k \in Rooms, Planned(s) + k >= 0,
                      Start("build", s.tlv, [head |-> s.head, recs |-> s.recs], << >>,
                            Planned(s) + k),
                      sent' = Nothing
               PROVE  BuildAny
  BY DEF StartBuild
<1>2. Sendable(s.tlv, s) /\ Planned(s) + k \in Nat
  BY <1>1, StructsAssumption, RoomsAssumption DEF Sendable, LibraryTables
<1> QED BY <1>1, <1>2 DEF BuildAny

(* The codec alone is such a use. *)
LEMMA CodecIsUse == CodecSpec => UseSpec
<1>1. [CodecNext]_codecVars => [UseNext]_codecVars
  BY CodecBuilds DEF CodecNext, UseNext
<1> QED BY <1>1, PTL DEF CodecSpec, UseSpec

-----------------------------------------------------------------------------
(* Octets in the other order are octets. *)
LEMMA ReverseType ==
  ASSUME NEW s \in Seq(Octet)
  PROVE  Reverse(s) \in Seq(Octet) /\ Len(Reverse(s)) = Len(s)
BY DEF Reverse

(* A length or a count becomes octets, whatever it is. *)
LEMMA DigitsType ==
  ASSUME NEW x \in Nat, NEW n
  PROVE  Digits(x, n) \in Seq(Octet)
<1>1. x % 256 \in Octet /\ (x \div 256) % 256 \in Octet
  BY DEF Octet
<1> QED BY <1>1 DEF Digits

(* One or two octets are a number. *)
LEMMA ValueType ==
  ASSUME NEW v \in Seq(Octet), Len(v) \in {1, 2}
  PROVE  Value(v) \in Nat
<1>n. Octet \subseteq Nat
  BY DEF Octet
<1>1. v[1] \in Nat
  <2>1. v[1] \in Octet
    BY ElementOfSeq
  <2> QED BY <2>1, <1>n
<1>2. CASE Len(v) = 1
  <2>1. Value(v) = v[1]
    BY <1>2 DEF Value
  <2> QED BY <1>1, <2>1
<1>3. CASE Len(v) = 2
  <2>1. Value(v) = v[1] + 256 * v[2]
    BY <1>3 DEF Value
  <2>2. v[2] \in Octet
    BY <1>3, ElementOfSeq
  <2>3. v[2] \in Nat
    BY <2>2, <1>n
  <2> QED BY <1>1, <2>1, <2>3
<1> QED BY <1>2, <1>3

(* A length cut to an uint16_t. *)
LEMMA Cut16Type ==
  ASSUME NEW n \in Nat
  PROVE  /\ Cut16(n) \in Nat /\ Cut16(n) <= n
         /\ n < 65536 => Cut16(n) = n
BY DEF Cut16

(* The octets up to where the cursor moves. *)
LEMMA CutType ==
  ASSUME NEW v \in Seq(Octet)
  PROVE  /\ SubSeq(v, 1, Cut16(Len(v))) \in Seq(Octet)
         /\ Len(SubSeq(v, 1, Cut16(Len(v)))) = Cut16(Len(v))
<1>1. Len(v) \in Nat
  OBVIOUS
<1>2. Cut16(Len(v)) \in Nat /\ Cut16(Len(v)) <= Len(v)
  BY <1>1, Cut16Type
<1> QED BY <1>1, <1>2, SubSeqProperties

(* Writing a value that consists of octets writes octets. *)
LEMMA ToWireType ==
  ASSUME NEW f, NEW v \in Seq(Octet), f.k = "high16" => Len(v) >= 2
  PROVE  ToWire(f, v) \in Seq(Octet)
<1>1. CASE f.k = "high16"
  <2>1. SubSeq(v, 1, 2) \in Seq(Octet)
    BY <1>1, SubSeqProperties
  <2> QED BY <1>1, <2>1, ReverseType DEF ToWire
<1>2. CASE f.k = "body"
  BY <1>2, CutType DEF ToWire
<1>3. CASE f.k \notin {"high16", "body"}
  BY <1>3, ReverseType DEF ToWire
<1> QED BY <1>1, <1>2, <1>3

(* What is read consists of octets, as many as are on the wire. *)
LEMMA FromWireType ==
  ASSUME NEW f, NEW o \in Seq(Octet)
  PROVE  /\ FromWire(f, o) \in Seq(Octet)
         /\ f.k \in {"len", "count"} => Len(FromWire(f, o)) = Len(o)
<1>1. <<0, 0>> \in Seq(Octet)
  BY DEF Octet
<1>2. Reverse(o) \o <<0, 0>> \in Seq(Octet)
  BY <1>1, ReverseType, ConcatProperties
<1> QED BY <1>2, ReverseType DEF FromWire

-----------------------------------------------------------------------------
(* The next field of an operation under way. *)
LEMMA NextField ==
  ASSUME Inv, pc = "run", pos <= Len(Fields)
  PROVE  /\ IsLayout(Fields) /\ pos \in 1 .. Len(Fields)
         /\ f0 \in FieldType
         /\ f0.k \in {"len", "count"} => f0.n \in {1, 2}
         /\ f0.k = "float" => f0.n = 8
         /\ NoFloat(tlv) => f0.k # "float"
<1>1. tlv \in DOMAIN Layout /\ pos \in Nat \ {0}
  BY DEF Inv, CodecTypeOK
<1>2. IsLayout(Fields)
  BY <1>1, LayoutAssumption DEF Fields
<1>3. Len(Fields) \in Nat
  BY <1>2 DEF IsLayout
<1>4. pos \in 1 .. Len(Fields)
  BY <1>1, <1>3
<1>5. f0 \in FieldType
  BY <1>2, <1>4, ElementOfSeq DEF IsLayout, f0
<1>6. f0.k \in {"len", "count"} => f0.n \in {1, 2}
  BY <1>2, <1>4 DEF IsLayout, f0
<1>7. NoFloat(tlv) => f0.k # "float"
  BY <1>1, <1>4 DEF NoFloat, Fields, f0
<1>8. f0.k = "float" => f0.n = 8
  BY <1>2, <1>4 DEF IsLayout, f0
<1> QED BY <1>2, <1>4, <1>5, <1>6, <1>7, <1>8

(* The values of the part of the structure that is being written. *)
LEMMA WrittenValues ==
  ASSUME Inv, pc = "run", op = "build"
  PROVE  HasShape(Values, Fields)
<1>1. IsStruct(tlv, d) /\ rec <= Len(d.recs) /\ rec \in Nat
  BY DEF Inv, BuildOK, CodecTypeOK
<1>2. CASE rec = 0
  BY <1>1, <1>2 DEF IsStruct, Values, Fields
<1>3. CASE rec # 0
  <2>1. Len(d.recs) \in Nat
    BY <1>1 DEF IsStruct
  <2>2. rec \in 1 .. Len(d.recs)
    BY <1>1, <1>3, <2>1
  <2> QED BY <1>1, <1>3, <2>2 DEF IsStruct, Values, Fields
<1> QED BY <1>2, <1>3

(* A proc() that returns an error leaves everything where it is. *)
LEMMA FailInv ==
  ASSUME Inv, NEW err \in {"TOO_SMALL", "VAL", "SIZE_MISS"}, Fail(err)
  PROVE  Inv'
BY DEF Inv, Fail, CodecTypeOK, BuildOK, NoFloat

(* A proc() that finds the octets it needs moves by no more than are left. *)
LEMMA MoveInside ==
  ASSUME Inv, pc = "run", pos <= Len(Fields), ~(m_left < Need), Move(Moved),
         op = "build" => HasShape(Values, Fields)
  PROVE  /\ Need = FieldLen /\ Need \in Int /\ m_cur + Need <= room
         /\ m_cur' \in Nat /\ m_size' \in Nat /\ m_left' \in Int
         /\ m_size' = m_cur' /\ m_cur' + m_left' = room
         /\ m_left' >= IF NoFloat(tlv) THEN 0 ELSE -8
<1>1. /\ m_cur \in Nat /\ m_left \in Int /\ room \in Nat /\ len \in Nat
      /\ m_size = m_cur /\ m_cur + m_left = room
  BY DEF Inv, CodecTypeOK
<1>2. f0.n \in Nat /\ (NoFloat(tlv) => f0.k # "float") /\ (f0.k = "float" => f0.n = 8)
  BY NextField DEF FieldType
<1>3. op = "build" => Cut16(Len(Values[pos])) \in Nat
  <2>1. ASSUME op = "build" PROVE Values[pos] \in Seq(Octet)
    <3>1. Values \in Seq(Seq(Octet)) /\ pos \in 1 .. Len(Values)
      BY <2>1, NextField DEF HasShape
    <3> QED BY <3>1, ElementOfSeq
  <2>2. op = "build" => Len(Values[pos]) \in Nat
    BY <2>1
  <2> QED BY <2>2, Cut16Type
<1>4. /\ Need = FieldLen /\ Need \in Int /\ (f0.k # "tail" => Need \in Nat)
      /\ f0.k = "tail" => Need = m_left
      /\ f0.k = "float" => Need = 8
  BY <1>1, <1>2, <1>3 DEF Need, FieldLen
<1>5. Moved = IF f0.k = "float" THEN 16 ELSE Need
  BY <1>4 DEF Moved
<1>6. Need <= m_left
  BY <1>1, <1>4
<1>7. m_cur' = m_cur + Moved /\ m_left' = m_left - Moved /\ m_size' = m_size + Moved
  BY DEF Move
<1>8. CASE f0.k = "float"
  BY <1>1, <1>2, <1>4, <1>5, <1>6, <1>7, <1>8
<1>9. CASE f0.k # "float"
  <2>1. m_left' >= 0 /\ m_cur' \in Nat
    BY <1>1, <1>4, <1>5, <1>6, <1>7, <1>9
  <2>2. m_left' >= IF NoFloat(tlv) THEN 0 ELSE -8
    BY <1>1, <1>4, <1>5, <1>7, <1>9, <2>1
  <2> QED BY <1>1, <1>4, <1>5, <1>6, <1>7, <1>9, <2>1, <2>2
<1> QED BY <1>8, <1>9

(* Reading a field. *)
LEMMA ReadsInv ==
  ASSUME Inv, ProcReads
  PROVE  Inv'
<1>1. pc = "run" /\ op # "build" /\ pos <= Len(Fields)
  BY DEF ProcReads
<1>2. CASE FaultMismatch
  BY <1>2, FailInv DEF ProcReads
<1>3. CASE ~FaultMismatch /\ m_left < Need
  BY <1>3, FailInv DEF ProcReads
<1>4. CASE ~FaultMismatch /\ ~(m_left < Need)
  <2> DEFINE o == SubSeq(buf, m_cur + 1, m_cur + FieldLen)
             v == FromWire(f0, o)
  <2>1. /\ len' = IF f0.k = "len" THEN Value(v) ELSE len
        /\ cnt' = IF f0.k = "count" THEN Value(v) ELSE cnt
        /\ Move(Moved) /\ pos' = pos + 1
        /\ UNCHANGED <<pc, op, tlv, rec, buf, ret, room, sent>>
    BY <1>4 DEF ProcReads
  <2>2. /\ Need = FieldLen /\ Need \in Int /\ m_cur + Need <= room
        /\ m_cur' \in Nat /\ m_size' \in Nat /\ m_left' \in Int
        /\ m_size' = m_cur' /\ m_cur' + m_left' = room
        /\ m_left' >= IF NoFloat(tlv) THEN 0 ELSE -8
    BY <1>1, <1>4, <2>1, MoveInside
  <2>3. m_cur \in Nat /\ buf \in Seq(Octet) /\ room = Len(buf)
    BY <1>1 DEF Inv, CodecTypeOK
  <2>4. \A i \in m_cur + 1 .. m_cur + Need : buf[i] \in Octet
    <3> TAKE i \in m_cur + 1 .. m_cur + Need
    <3>1. i \in 1 .. Len(buf)
      BY <2>2, <2>3
    <3> QED BY <2>3, <3>1, ElementOfSeq
  <2>5. /\ o \in Seq(Octet)
        /\ Need = 1 => Len(o) = 1
        /\ Need = 2 => Len(o) = 2
    <3>0. o = SubSeq(buf, m_cur + 1, m_cur + Need)
      BY <2>2
    <3> HIDE DEF o
    <3>1. m_cur + 1 \in Int /\ m_cur + Need \in Int
      BY <2>2, <2>3
    <3>2. /\ o \in Seq(Octet)
          /\ Len(o) = IF m_cur + 1 <= m_cur + Need
                      THEN (m_cur + Need) - (m_cur + 1) + 1 ELSE 0
      BY <2>4, <3>0, <3>1, SubSeqProperties
    <3> QED BY <2>2, <2>3, <3>2
  <2>6. f0.k \in {"len", "count"} => Value(v) \in Nat
    <3>1. SUFFICES ASSUME f0.k \in {"len", "count"} PROVE Value(v) \in Nat
      OBVIOUS
    <3>2. Need = f0.n /\ f0.n \in {1, 2}
      BY <1>1, <3>1, NextField DEF Need, FieldLen
    <3> HIDE DEF o
    <3>3. Len(o) \in {1, 2}
      <4>1. Need = 1 \/ Need = 2
        BY <3>2
      <4> QED BY <2>5, <4>1
    <3>4. v \in Seq(Octet) /\ Len(v) = Len(o)
      BY <2>5, <3>1, FromWireType
    <3> HIDE DEF v
    <3> QED BY <3>3, <3>4, ValueType
  <2>7. len' \in Nat /\ cnt' \in Nat /\ pos' \in Nat \ {0}
    BY <2>1, <2>6 DEF Inv, CodecTypeOK
  <2>8. CodecTypeOK'
    BY <2>1, <2>2, <2>7 DEF Inv, CodecTypeOK
  <2> HIDE DEF o, v
  <2> QED BY <1>1, <2>1, <2>2, <2>8 DEF Inv, BuildOK, NoFloat
<1> QED BY <1>2, <1>3, <1>4

(* What is written into a field consists of octets and keeps the structure in shape. *)
LEMMA WrittenType ==
  ASSUME Inv, pc = "run", op = "build", pos <= Len(Fields)
  PROVE  /\ ToWrite \in Seq(Octet)
         /\ HasShape([Values EXCEPT ![pos] = ToWrite], Fields)
         /\ ToWire(f0, ToWrite) \in Seq(Octet)
<1>1. /\ IsLayout(Fields) /\ pos \in 1 .. Len(Fields) /\ f0 = Fields[pos]
      /\ HasShape(Values, Fields)
  BY NextField, WrittenValues DEF f0
<1>2. /\ Values \in Seq(Seq(Octet)) /\ Len(Values) = Len(Fields)
      /\ f0.k \in {"num", "octets", "le", "flags"} => Len(Values[pos]) = f0.n
      /\ f0.k = "flags" => Len(Values[pos]) = 1 /\ f0.n = 1
      /\ f0.k = "high16" => Len(Values[pos]) = 4
  BY <1>1 DEF HasShape, IsLayout
<1>3. Values[pos] \in Seq(Octet)
  BY <1>1, <1>2, ElementOfSeq
<1>4. ToWrite \in Seq(Octet)
  <2>1. CASE f0.k = "len"
    <3>1. pos + 1 \in 1 .. Len(Values)
      BY <1>1, <1>2, <2>1 DEF IsLayout
    <3>2. Values[pos + 1] \in Seq(Octet)
      BY <1>2, <3>1, ElementOfSeq
    <3>3. Len(Values[pos + 1]) \in Nat
      BY <3>2
    <3> QED BY <2>1, <3>3, DigitsType DEF ToWrite
  <2>2. CASE f0.k = "count"
    <3>1. Len(d.recs) \in Nat
      BY DEF Inv, BuildOK, IsStruct
    <3> QED BY <2>2, <3>1, DigitsType DEF ToWrite
  <2>3. CASE f0.k = "reserved"
    BY <2>3 DEF ToWrite, Octet
  <2>4. CASE f0.k = "flags"
    <3>1. Values[pos][1] \in Octet
      BY <1>2, <1>3, <2>4, ElementOfSeq
    <3>2. Masked(f0, Values[pos][1]) \in Octet
      BY <1>1, <2>4, <3>1 DEF IsLayout
    <3> QED BY <2>4, <3>2 DEF ToWrite
  <2>5. CASE f0.k \notin {"len", "count", "reserved", "flags"}
    BY <1>3, <2>5 DEF ToWrite
  <2> QED BY <2>1, <2>2, <2>3, <2>4, <2>5
<1>5. /\ f0.k \in {"num", "octets", "le", "flags"} => Len(ToWrite) = f0.n
      /\ f0.k = "high16" => Len(ToWrite) = 4
  BY <1>2 DEF ToWrite
<1>6. ToWire(f0, ToWrite) \in Seq(Octet)
  <2>1. f0.k = "high16" => Len(ToWrite) >= 2
    BY <1>5
  <2> QED BY <1>4, <2>1, ToWireType
<1>7. HasShape([Values EXCEPT ![pos] = ToWrite], Fields)
  BY <1>1, <1>2, <1>4, <1>5 DEF HasShape
<1> QED BY <1>4, <1>6, <1>7

(* Writing a field. *)
LEMMA WritesInv ==
  ASSUME Inv, ProcWrites
  PROVE  Inv'
<1>1. pc = "run" /\ op = "build" /\ pos <= Len(Fields)
  BY DEF ProcWrites
<1>2. CASE TooLarge
  BY <1>2, FailInv DEF ProcWrites
<1>3. CASE ~TooLarge /\ m_left < Need
  BY <1>3, FailInv DEF ProcWrites
<1>4. CASE ~TooLarge /\ ~(m_left < Need)
  <2> DEFINE vs == [Values EXCEPT ![pos] = ToWrite]
  <2>1. /\ d' = WithValues(vs)
        /\ buf' = buf \o ToWire(f0, ToWrite)
        /\ Move(Moved) /\ pos' = pos + 1
        /\ UNCHANGED <<pc, op, tlv, rec, len, cnt, ret, room, sent>>
    BY <1>4 DEF ProcWrites
  <2>2. HasShape(Values, Fields)
    BY <1>1, WrittenValues
  <2>3. /\ m_cur' \in Nat /\ m_size' \in Nat /\ m_left' \in Int
        /\ m_size' = m_cur' /\ m_cur' + m_left' = room
        /\ m_left' >= IF NoFloat(tlv) THEN 0 ELSE -8
    BY <1>1, <1>4, <2>1, <2>2, MoveInside
  <2>4. HasShape(vs, Fields) /\ ToWire(f0, ToWrite) \in Seq(Octet)
    BY <1>1, WrittenType
  <2>5. buf' \in Seq(Octet)
    BY <2>1, <2>4, ConcatProperties DEF Inv, CodecTypeOK
  <2>6. CodecTypeOK'
    BY <2>1, <2>3, <2>5 DEF Inv, CodecTypeOK
  <2> HIDE DEF vs
  <2>7. BuildOK'
    <3>1. /\ d = [head |-> d.head, recs |-> d.recs] /\ IsStruct(tlv, d)
          /\ rec <= Len(d.recs) /\ rec \in Nat
      BY <1>1 DEF Inv, BuildOK, CodecTypeOK
    <3>2. CASE rec = 0
      <4>1. d' = [head |-> vs, recs |-> d.recs]
        BY <2>1, <3>1, <3>2 DEF WithValues
      <4> QED BY <2>1, <2>4, <3>1, <3>2, <4>1 DEF BuildOK, IsStruct, Fields
    <3>3. CASE rec # 0
      <4>1. d' = [head |-> d.head, recs |-> [d.recs EXCEPT ![rec] = vs]]
        BY <2>1, <3>1, <3>3 DEF WithValues
      <4>2. HasShape(vs, Layout[tlv].rec)
        BY <2>4, <3>3 DEF Fields
      <4>3. d.recs \in Seq(Seq(Seq(Octet))) /\ vs \in Seq(Seq(Octet))
        BY <3>1, <4>2 DEF IsStruct, HasShape
      <4>4. /\ d'.recs \in Seq(Seq(Seq(Octet))) /\ Len(d'.recs) = Len(d.recs)
            /\ \A i \in 1 .. Len(d.recs) : d'.recs[i] = IF i = rec THEN vs ELSE d.recs[i]
        <5>1. d'.recs = [d.recs EXCEPT ![rec] = vs]
          BY <4>1
        <5>2. Len(d.recs) \in Nat
          BY <4>3
        <5>3. rec \in 1 .. Len(d.recs)
          BY <3>1, <3>3, <5>2
        <5> QED BY <4>3, <5>1, <5>3, ExceptSeq
      <4>5. \A i \in 1 .. Len(d'.recs) : HasShape(d'.recs[i], Layout[tlv].rec)
        BY <3>1, <4>2, <4>4 DEF IsStruct
      <4>6. IsStruct(tlv, d')
        BY <3>1, <4>1, <4>4, <4>5 DEF IsStruct
      <4> QED BY <2>1, <3>1, <4>1, <4>4, <4>6 DEF BuildOK
    <3> QED BY <3>2, <3>3
  <2> QED BY <1>1, <2>1, <2>3, <2>6, <2>7 DEF Inv, NoFloat
<1> QED BY <1>2, <1>3, <1>4

(* The steps between the fields and at the end of a function. *)
LEMMA ControlInv ==
  ASSUME Inv, NextRecord \/ EndBuild \/ EndParse
  PROVE  Inv'
<1>1. CASE NextRecord
  <2>1. CodecTypeOK'
    BY <1>1 DEF NextRecord, Inv, CodecTypeOK
  <2>2. BuildOK'
    <3>1. SUFFICES ASSUME op = "build" PROVE BuildOK'
      BY <1>1 DEF NextRecord, BuildOK
    <3>0. AnotherRecord => rec < Len(d.recs)
      BY <3>1 DEF AnotherRecord
    <3>2. /\ d' = d /\ tlv' = tlv /\ rec' = rec + 1 /\ rec < Len(d.recs) /\ rec \in Nat
          /\ IsStruct(tlv, d) /\ d = [head |-> d.head, recs |-> d.recs]
      BY <1>1, <3>0, <3>1 DEF NextRecord, Inv, BuildOK, CodecTypeOK
    <3>3. Len(d.recs) \in Nat
      BY <3>2 DEF IsStruct
    <3> QED BY <3>2, <3>3 DEF BuildOK, IsStruct
  <2> QED BY <1>1, <2>1, <2>2 DEF NextRecord, Inv, NoFloat
<1>2. CASE EndBuild
  <2>1. CASE m_size % 2 = 1 /\ m_left < 1
    BY <1>2, <2>1, FailInv DEF EndBuild
  <2>2. CASE ~(m_size % 2 = 1 /\ m_left < 1)
    <3>1. /\ buf' = IF m_size % 2 = 1 THEN Append(buf, 0) ELSE buf
          /\ Move(m_size % 2) /\ pc' = "idle" /\ ret' = "OK" /\ op = "build"
          /\ sent' = [tlv |-> tlv, head |-> d.head, recs |-> d.recs, octets |-> buf']
          /\ UNCHANGED <<op, tlv, rec, pos, d, len, cnt, room>>
      BY <1>2, <2>2 DEF EndBuild
    <3>2. buf' \in Seq(Octet)
      <4>1. 0 \in Octet
        BY DEF Octet
      <4> QED BY <3>1, <4>1, AppendProperties DEF Inv, CodecTypeOK
    <3>3. /\ m_cur' \in Nat /\ m_size' \in Nat /\ m_left' \in Int
          /\ m_size' = m_cur' /\ m_cur' + m_left' = room
          /\ m_left' >= IF NoFloat(tlv) THEN 0 ELSE -8
      <4>1. /\ m_cur \in Nat /\ m_size \in Nat /\ m_left \in Int
            /\ m_size = m_cur /\ m_cur + m_left = room
            /\ m_left >= IF NoFloat(tlv) THEN 0 ELSE -8
        BY DEF Inv, CodecTypeOK
      <4>2. /\ m_cur' = m_cur + (m_size % 2) /\ m_left' = m_left - (m_size % 2)
            /\ m_size' = m_size + (m_size % 2)
        BY <3>1 DEF Move
      <4>3. CASE m_size % 2 = 1
        <5>1. m_left >= 1
          BY <2>2, <4>1, <4>3
        <5> QED BY ONLY <4>1, <4>2, <4>3, <5>1
      <4>4. CASE m_size % 2 = 0
        BY ONLY <4>1, <4>2, <4>4
      <4>5. m_size % 2 \in {0, 1}
        BY <4>1
      <4> QED BY <4>3, <4>4, <4>5
    <3>4. tlv \in DOMAIN Layout
      BY <1>2 DEF EndBuild, Finished, Inv
    <3>5. CodecTypeOK'
      BY <3>1, <3>2, <3>3 DEF Inv, CodecTypeOK
    <3> QED BY <3>1, <3>2, <3>3, <3>4, <3>5 DEF Inv, BuildOK, NoFloat
  <2> QED BY <2>1, <2>2
<1>3. CASE EndParse
  BY <1>3 DEF EndParse, Inv, CodecTypeOK, BuildOK, NoFloat
<1> QED BY <1>1, <1>2, <1>3

(* Calling build(), parse() or parseSig(). *)
LEMMA StartInv ==
  ASSUME Inv, BuildAny \/ StartParse \/ Receive
  PROVE  Inv'
<1>0. << >> \in Seq(Octet)
  OBVIOUS
<1>1. CASE BuildAny
  <2>1. PICK t, s, r :
          /\ Sendable(t, s) /\ r \in Nat
          /\ Start("build", t, [head |-> s.head, recs |-> s.recs], << >>, r)
          /\ sent' = Nothing
    BY <1>1 DEF BuildAny
  <2>2. t \in DOMAIN Layout /\ IsStruct(t, s)
    BY <2>1 DEF Sendable
  <2>3. CodecTypeOK'
    BY <1>0, <2>1, <2>2 DEF Start, CodecTypeOK
  <2>4. BuildOK'
    BY <2>1, <2>2 DEF Start, BuildOK, IsStruct
  <2> QED BY <1>0, <2>1, <2>2, <2>3, <2>4 DEF Start, Inv, Nothing
<1>2. CASE StartParse
  <2>1. PICK n \in 1 .. Len(sent.octets) :
          /\ Start("parse", sent.tlv, [head |-> << >>, recs |-> << >>],
                   SubSeq(sent.octets, 1, n), n)
          /\ UNCHANGED sent
    BY <1>2 DEF StartParse
  <2>2. sent.octets \in Seq(Octet) /\ (sent.octets # << >> => sent.tlv \in DOMAIN Layout)
    BY DEF Inv
  <2>3. n \in Nat /\ n >= 1 /\ sent.tlv \in DOMAIN Layout
    BY <2>1, <2>2
  <2>4. \A i \in 1 .. n : sent.octets[i] \in Octet
    BY <2>1, <2>2, ElementOfSeq
  <2>5. SubSeq(sent.octets, 1, n) \in Seq(Octet) /\ Len(SubSeq(sent.octets, 1, n)) = n
    BY <2>3, <2>4, SubSeqProperties
  <2>6. CodecTypeOK'
    BY <2>1, <2>3, <2>5 DEF Start, CodecTypeOK
  <2> QED BY <2>1, <2>2, <2>3, <2>5, <2>6 DEF Start, Inv, BuildOK
<1>3. CASE Receive
  <2>1. PICK x \in Received :
          /\ Start("receive", x.tlv, [head |-> << >>, recs |-> << >>], x.octets,
                   Len(x.octets))
          /\ sent' = Nothing
    BY <1>3 DEF Receive
  <2>2. x.tlv \in DOMAIN Layout /\ x.octets \in Seq(Octet) /\ Len(x.octets) \in Nat
    <3>1. x.tlv \in DOMAIN Layout /\ x.octets \in Seq(Octet)
      BY ReceivedAssumption, Zenon
    <3> QED BY <3>1
  <2>3. CodecTypeOK'
    BY <2>1, <2>2 DEF Start, CodecTypeOK
  <2> QED BY <1>0, <2>1, <2>2, <2>3 DEF Start, Inv, BuildOK, Nothing
<1> QED BY <1>1, <1>2, <1>3

(* The strengthening holds in every state. *)
LEMMA InvHolds == UseSpec => []Inv
<1>1. CodecInit => Inv
  BY DEF CodecInit, Inv, CodecTypeOK, BuildOK, Nothing
<1>2. CodecInit' => Inv'
  BY DEF CodecInit, Inv, CodecTypeOK, BuildOK, Nothing
<1>3. Inv /\ [UseNext]_codecVars => Inv'
  <2>1. SUFFICES ASSUME Inv, [UseNext]_codecVars PROVE Inv'
    OBVIOUS
  <2>2. CASE UNCHANGED codecVars
    BY <2>1, <2>2 DEF codecVars, Inv, CodecTypeOK, BuildOK, NoFloat
  <2>3. CASE UseNext
    BY <1>2, <2>1, <2>3, StartInv, WritesInv, ReadsInv, ControlInv DEF UseNext, Afresh
  <2> QED BY <2>1, <2>2, <2>3
<1> QED BY <1>1, <1>3, PTL DEF UseSpec

-----------------------------------------------------------------------------
(* The state of the codec stays well formed: whatever texts and lists are written
   and whatever octets arrive, cursor and lengths are natural numbers and every
   octet written by proc() is one. *)
THEOREM CodecTypeCorrect == CodecSpec => []CodecTypeOK
<1>1. Inv => CodecTypeOK
  BY DEF Inv
<1> QED BY <1>1, CodecIsUse, InvHolds, PTL

(* With texts and octet strings that an uint16_t can count, build() copies as many
   octets as it has looked for. *)
LEMMA CopiesWhatFits ==
  ASSUME Inv, op = "build" /\ Short(tlv, d)
  PROVE  CopiesInside
<1>1. SUFFICES ASSUME pc = "run", pos <= Len(Fields), m_left >= Need PROVE Copied <= m_left
  BY DEF CopiesInside
<1>2. HasShape(Values, Fields) /\ pos \in 1 .. Len(Fields) /\ f0 = Fields[pos]
  BY <1>1, NextField, WrittenValues DEF f0
<1>3. ShortFields(Fields, Values)
  <2>1. rec \in Nat /\ rec <= Len(d.recs)
    BY <1>1 DEF Inv, BuildOK, CodecTypeOK
  <2>2. CASE rec = 0
    BY <2>2 DEF Short, Fields, Values
  <2>3. CASE rec # 0
    <3>1. Len(d.recs) \in Nat
      BY <1>1 DEF Inv, BuildOK, IsStruct
    <3>2. rec \in 1 .. Len(d.recs)
      BY <2>1, <2>3, <3>1
    <3> QED BY <2>3, <3>2 DEF Short, Fields, Values
  <2> QED BY <2>2, <2>3
<1>4. CASE f0.k = "body"
  <2>1. Values[pos] \in Seq(Octet)
    <3>1. Values \in Seq(Seq(Octet)) /\ pos \in 1 .. Len(Values)
      BY <1>2 DEF HasShape
    <3> QED BY <3>1, ElementOfSeq
  <2>2. Len(Values[pos]) \in Nat /\ Len(Values[pos]) < 65536
    BY <1>2, <1>3, <1>4, <2>1 DEF ShortFields
  <2>3. Need = Len(Values[pos])
    BY <1>4, <2>2, Cut16Type DEF Need, FieldLen
  <2>4. Copied = Need
    BY <1>4, <2>3 DEF Copied, Need
  <2>5. m_left \in Int
    BY DEF Inv, CodecTypeOK
  <2> QED BY <1>1, <2>2, <2>3, <2>4, <2>5
<1>5. CASE f0.k # "body"
  <2>1. Copied = Need
    BY <1>5 DEF Copied, Need
  <2>2. m_left \in Int /\ Need \in Int
    <3>1. f0.n \in Nat
      BY <1>1, NextField DEF FieldType
    <3> QED BY <1>5, <3>1 DEF Need, FieldLen, Inv, CodecTypeOK
  <2> QED BY <1>1, <2>1, <2>2
<1> QED BY <1>4, <1>5

(* What parseSig() takes for granted in its walk over the TLVs, and build() of its
   buffer. For every TLV function, any structure, any buffer and any received octets,
   proc() keeps the cursor inside the octets it was given, but for the eight octets that
   a Float64_t moves it too far; and the octets build() copies stay inside the buffer,
   unless an octet string has 65536 of them or more, of which the comparison with the
   octets left sees the length modulo 65536 (msg.cpp:1161, bin.h:121). *)
THEOREM CursorStaysInside == CodecSpec => []StaysInside
<1>1. Inv => StaysInside
  BY CopiesWhatFits DEF Inv, StaysInside
<1> QED BY <1>1, CodecIsUse, InvHolds, PTL

-----------------------------------------------------------------------------
(* Sequences and sums *)

(* s is a sequence. *)
IsSeq(s) == \E T : s \in Seq(T)

(* Two sequences are sequences of one set. *)
LEMMA SeqsOfOne ==
  ASSUME NEW s, NEW t, IsSeq(s), IsSeq(t)
  PROVE  \E T : s \in Seq(T) /\ t \in Seq(T)
<1>1. PICK T : s \in Seq(T)
  BY DEF IsSeq
<1>2. PICK U : t \in Seq(U)
  BY DEF IsSeq
<1>3. s \in Seq(T \cup U) /\ t \in Seq(T \cup U)
  BY <1>1, <1>2
<1> QED BY <1>3

(* A concatenation. *)
LEMMA SeqOfBoth ==
  ASSUME NEW s, NEW t, IsSeq(s), IsSeq(t)
  PROVE  /\ IsSeq(s \o t) /\ Len(s) \in Nat /\ Len(t) \in Nat
         /\ Len(s \o t) = Len(s) + Len(t)
         /\ \A i \in 1 .. Len(s) : (s \o t)[i] = s[i]
         /\ \A i \in 1 .. Len(t) : (s \o t)[Len(s) + i] = t[i]
<1>1. PICK T : s \in Seq(T) /\ t \in Seq(T)
  BY SeqsOfOne
<1>2. s \o t \in Seq(T)
  BY <1>1
<1> QED BY <1>1, <1>2 DEF IsSeq

(* A set of natural numbers has a least one. *)
LEMMA LeastOf ==
  ASSUME NEW T \in SUBSET Nat, T # {}
  PROVE  \E x \in T : \A y \in T : x <= y
<1> DEFINE R == OpToRel(<, Nat)
<1>1. IsWellFoundedOn(R, Nat)
  BY NatLessThanWellFounded
<1>2. \A x, y \in Nat : <<y, x>> \in R <=> y < x
  BY DEF OpToRel
<1> HIDE DEF R
<1>3. PICK x \in T : \A y \in T : ~(<<y, x>> \in R)
  BY <1>1, WFMin
<1>4. \A y \in T : ~(y < x)
  BY <1>2, <1>3
<1>5. x \in Nat /\ \A y \in T : y \in Nat
  BY <1>3
<1> QED BY <1>4, <1>5

(* Induction over the natural numbers, for a set instead of a formula. *)
LEMMA Inductive ==
  ASSUME NEW S \in SUBSET Nat, 0 \in S, \A n \in S : n + 1 \in S
  PROVE  \A n \in Nat : n \in S
<1>1. SUFFICES ASSUME Nat \ S # {} PROVE FALSE
  OBVIOUS
<1>2. PICK x \in Nat \ S : \A y \in Nat \ S : x <= y
  BY <1>1, LeastOf
<1>3. x # 0 /\ x \in Nat
  BY <1>2
<1>4. x - 1 \in Nat /\ x - 1 < x /\ (x - 1) + 1 = x
  BY <1>3
<1>5. x - 1 \in S
  BY <1>2, <1>4
<1> QED BY <1>2, <1>4, <1>5

(* What the equation of a recursive function says at each argument. *)
LEMMA Unfolded ==
  ASSUME NEW ns, NEW n \in Nat, NEW e,
         e = [i \in 0 .. n |-> IF i = 0 THEN 0 ELSE e[i - 1] + ns[i]]
  PROVE  e[0] = 0 /\ \A i \in 1 .. n : e[i] = e[i - 1] + ns[i]
<1> DEFINE g == [i \in 0 .. n |-> IF i = 0 THEN 0 ELSE e[i - 1] + ns[i]]
<1>1. g[0] = 0 /\ \A i \in 1 .. n : g[i] = e[i - 1] + ns[i]
  OBVIOUS
<1>2. e = g
  OBVIOUS
<1> HIDE DEF g
<1> QED BY <1>1, <1>2

(* The recursion of Ends has a solution, and one only. *)
LEMMA EndsRule ==
  ASSUME NEW ns \in Seq(Nat)
  PROVE  /\ Ends(ns) \in [0 .. Len(ns) -> Nat]
         /\ Ends(ns)[0] = 0
         /\ \A i \in 1 .. Len(ns) : Ends(ns)[i] = Ends(ns)[i - 1] + ns[i]
<1> DEFINE G(e, n) == e = [i \in 0 .. n |-> IF i = 0 THEN 0 ELSE e[i - 1] + ns[i]]
           S == {n \in Nat : n <= Len(ns) => \E e \in [0 .. n -> Nat] : G(e, n)}
<1>n. Len(ns) \in Nat /\ \A i \in 1 .. Len(ns) : ns[i] \in Nat
  OBVIOUS
<1>1. 0 \in S
  <2> DEFINE z == [i \in 0 .. 0 |-> 0]
  <2>1. z \in [0 .. 0 -> Nat] /\ G(z, 0)
    OBVIOUS
  <2> QED BY <2>1
<1>2. ASSUME NEW n \in S PROVE n + 1 \in S
  <2>1. SUFFICES ASSUME n + 1 <= Len(ns)
                 PROVE  \E e \in [0 .. (n + 1) -> Nat] : G(e, n + 1)
    <3>1. n + 1 \in Nat
      BY <1>2
    <3> HIDE DEF G
    <3> QED BY <3>1
  <2>2. n \in Nat /\ n <= Len(ns)
    BY <1>n, <1>2, <2>1
  <2>3. PICK e \in [0 .. n -> Nat] : G(e, n)
    BY <1>2, <2>2
  <2>e. /\ e[0] = 0
        /\ \A i \in 1 .. n : e[i] = e[i - 1] + ns[i]
    <3>1. e = [i \in 0 .. n |-> IF i = 0 THEN 0 ELSE e[i - 1] + ns[i]]
      BY <2>3
    <3>2. n \in Nat
      BY <2>2
    <3> HIDE DEF G, S
    <3> QED BY ONLY <3>1, <3>2, Unfolded
  <2> HIDE DEF G
  <2> DEFINE g == [i \in 0 .. (n + 1) |-> IF i = n + 1 THEN e[n] + ns[n + 1] ELSE e[i]]
  <2>4. g \in [0 .. (n + 1) -> Nat]
    BY <1>n, <2>1, <2>2, <2>3
  <2>5. \A i \in 0 .. (n + 1) : g[i] = IF i = 0 THEN 0 ELSE g[i - 1] + ns[i]
    BY <1>n, <2>1, <2>2, <2>3, <2>e
  <2>6. G(g, n + 1)
    <3> HIDE DEF g
    <3> QED BY <2>4, <2>5 DEF G
  <2> QED BY <2>4, <2>6
<1>3. PICK e \in [0 .. Len(ns) -> Nat] : G(e, Len(ns))
  <2> HIDE DEF G
  <2>1. \A n \in Nat : n \in S
    <3>1. S \in SUBSET Nat
      OBVIOUS
    <3> HIDE DEF S
    <3> QED BY <1>1, <1>2, <3>1, Inductive
  <2> QED BY <1>n, <2>1
<1>e. e[0] = 0 /\ \A i \in 1 .. Len(ns) : e[i] = e[i - 1] + ns[i]
  <2>1. e = [i \in 0 .. Len(ns) |-> IF i = 0 THEN 0 ELSE e[i - 1] + ns[i]]
    BY <1>3
  <2> HIDE DEF G, S
  <2> QED BY ONLY <1>n, <2>1, Unfolded
<1>4. ASSUME NEW f, G(f, Len(ns)) PROVE f = e
  <2> DEFINE U == {n \in Nat : n <= Len(ns) => f[n] = e[n]}
  <2>f. f[0] = 0 /\ \A i \in 1 .. Len(ns) : f[i] = f[i - 1] + ns[i]
    <3>1. f = [i \in 0 .. Len(ns) |-> IF i = 0 THEN 0 ELSE f[i - 1] + ns[i]]
      BY <1>4
    <3> HIDE DEF G, S
    <3> QED BY ONLY <1>n, <3>1, Unfolded
  <2>a. /\ e[0] = 0 /\ f[0] = 0
        /\ \A i \in 1 .. Len(ns) : e[i] = e[i - 1] + ns[i] /\ f[i] = f[i - 1] + ns[i]
    BY <1>e, <2>f
  <2>1. 0 \in U
    BY <2>a
  <2>2. ASSUME NEW n \in U PROVE n + 1 \in U
    <3>1. n \in Nat
      BY <2>2
    <3>2. SUFFICES ASSUME n + 1 <= Len(ns) PROVE f[n + 1] = e[n + 1]
      BY <3>1
    <3>3. n + 1 \in 1 .. Len(ns) /\ f[n] = e[n] /\ (n + 1) - 1 = n
      BY <1>n, <2>2, <3>1, <3>2
    <3> QED BY <2>a, <3>3
  <2>3. \A n \in Nat : n \in U
    <3>1. U \in SUBSET Nat
      OBVIOUS
    <3> HIDE DEF U
    <3> QED BY <2>1, <2>2, <3>1, Inductive
  <2>4. \A i \in 0 .. Len(ns) : f[i] = e[i]
    BY <1>n, <2>3
  <2>5. f = [i \in 0 .. Len(ns) |-> f[i]]
    BY <1>4
  <2> QED BY <1>3, <2>4, <2>5
<1>5. G(Ends(ns), Len(ns))
  BY <1>3 DEF Ends
<1>6. Ends(ns) = e
  BY <1>4, <1>5
<1> HIDE DEF G
<1> QED BY <1>3, <1>6, <1>e

(* No string of a row ends behind the last. *)
LEMMA EndsGrow ==
  ASSUME NEW ns \in Seq(Nat)
  PROVE  \A i \in 0 .. Len(ns) : Ends(ns)[i] <= Ends(ns)[Len(ns)]
<1> DEFINE e == Ends(ns)
           S == {k \in Nat : k <= Len(ns) => e[Len(ns) - k] <= e[Len(ns)]}
<1>1. /\ Len(ns) \in Nat /\ e \in [0 .. Len(ns) -> Nat]
      /\ \A i \in 1 .. Len(ns) : ns[i] \in Nat /\ e[i] = e[i - 1] + ns[i]
  BY EndsRule
<1>s. ASSUME NEW i \in 1 .. Len(ns)
      PROVE  e[i - 1] <= e[i] /\ e[i] \in Nat /\ e[i - 1] \in Nat
  <2> HIDE DEF e
  <2>1. i - 1 \in 0 .. Len(ns) /\ i \in 0 .. Len(ns)
    BY <1>1
  <2>2. e[i] \in Nat /\ e[i - 1] \in Nat /\ ns[i] \in Nat /\ e[i] = e[i - 1] + ns[i]
    BY <1>1, <2>1
  <2> QED BY <2>2
<1> HIDE DEF e
<1>2. 0 \in S
  BY <1>1
<1>3. ASSUME NEW k \in S PROVE k + 1 \in S
  <2>1. k \in Nat
    BY <1>3
  <2>2. SUFFICES ASSUME k + 1 <= Len(ns) PROVE e[Len(ns) - (k + 1)] <= e[Len(ns)]
    BY <2>1
  <2> DEFINE i == Len(ns) - k
  <2>3. i \in 1 .. Len(ns) /\ i - 1 \in 0 .. Len(ns) /\ i - 1 = Len(ns) - (k + 1)
    BY <1>1, <2>1, <2>2
  <2>4. e[i] <= e[Len(ns)]
    BY <1>1, <1>3, <2>1, <2>2
  <2>5. Len(ns) \in 0 .. Len(ns)
    BY <1>1
  <2>6. e[Len(ns)] \in Nat
    BY <1>1, <2>5
  <2>7. e[i - 1] <= e[i] /\ e[i] \in Nat /\ e[i - 1] \in Nat
    BY <1>s, <2>3
  <2>8. e[i - 1] <= e[Len(ns)]
    BY <2>4, <2>6, <2>7
  <2> QED BY <2>3, <2>8
<1>4. \A k \in Nat : k \in S
  <2>1. S \in SUBSET Nat
    OBVIOUS
  <2> HIDE DEF S
  <2> QED BY <1>2, <1>3, <2>1, Inductive
<1>5. ASSUME NEW i \in 0 .. Len(ns) PROVE e[i] <= e[Len(ns)]
  <2>1. Len(ns) - i \in Nat /\ Len(ns) - i <= Len(ns) /\ Len(ns) - (Len(ns) - i) = i
    BY <1>1
  <2> QED BY <1>4, <2>1
<1> QED BY <1>5 DEF e

(* The ends of the fields of a part of a structure. *)
LEMMA FieldEnds ==
  ASSUME NEW fs, IsLayout(fs), NEW vs,
         \A i \in 1 .. Len(fs) : fs[i].k = "body" => Len(vs[i]) \in Nat
  PROVE  LET e == Ends(Takes(fs, vs)) IN
         /\ Len(fs) \in Nat /\ e \in [0 .. Len(fs) -> Nat] /\ e[0] = 0
         /\ \A i \in 1 .. Len(fs) : /\ Takes(fs, vs)[i] \in Nat
                                   /\ e[i - 1] \in Nat /\ e[i] \in Nat
                                   /\ e[i] = e[i - 1] + Takes(fs, vs)[i]
                                   /\ e[i] <= End(fs, vs)
         /\ End(fs, vs) = e[Len(fs)] /\ End(fs, vs) \in Nat
<1> DEFINE ns == Takes(fs, vs)
           e == Ends(ns)
<1>1. Len(fs) \in Nat /\ \A i \in 1 .. Len(fs) : fs[i].n \in Nat
  <2>1. \A i \in 1 .. Len(fs) : fs[i] \in FieldType
    BY ElementOfSeq DEF IsLayout
  <2>2. fs \in Seq(FieldType)
    BY DEF IsLayout
  <2> QED BY <2>1, <2>2 DEF FieldType
<1>2. \A i \in 1 .. Len(fs) : ns[i] \in Nat
  BY <1>1, Cut16Type DEF Takes
<1>3. ns = [i \in 1 .. Len(fs) |-> ns[i]]
  BY DEF Takes
<1> HIDE DEF ns
<1>4. ns \in Seq(Nat) /\ Len(ns) = Len(fs)
  BY <1>1, <1>2, <1>3
<1>5. /\ e \in [0 .. Len(fs) -> Nat] /\ e[0] = 0
      /\ \A i \in 1 .. Len(fs) : e[i] = e[i - 1] + ns[i]
      /\ \A i \in 0 .. Len(fs) : e[i] <= e[Len(fs)]
  BY <1>4, EndsRule, EndsGrow
<1>6. \A i \in 1 .. Len(fs) : i \in 0 .. Len(fs) /\ i - 1 \in 0 .. Len(fs)
  BY <1>1
<1>7. Len(fs) \in 0 .. Len(fs)
  BY <1>1
<1>8. End(fs, vs) = e[Len(fs)]
  BY DEF End, ns
<1> HIDE DEF e
<1>9. /\ \A i \in 1 .. Len(fs) : e[i - 1] \in Nat /\ e[i] \in Nat
      /\ e[Len(fs)] \in Nat
  BY <1>5, <1>6, <1>7
<1>10. \A i \in 1 .. Len(fs) : e[i] <= End(fs, vs)
  BY <1>5, <1>6, <1>8
<1> QED BY <1>1, <1>2, <1>5, <1>8, <1>9, <1>10 DEF e, ns

-----------------------------------------------------------------------------
(* While a TLV is received whose sizes agree with its fields, the cursor stands at
   the end of the fields read so far, and a record of a list without count has all
   the octets left that its fields need. *)
AtEnds ==
  /\ TableSize(tlv) # -2 =>
       /\ rec = 0 /\ pos <= Len(Layout[tlv].head) + 1
       /\ m_cur = Ends(Takes(Layout[tlv].head, << >>))[pos - 1]
  /\ Layout[tlv].list = "open" /\ rec # 0 =>
       /\ pos <= Len(Layout[tlv].rec) + 1
       /\ m_left >= Layout[tlv].size - Ends(Takes(Layout[tlv].rec, << >>))[pos - 1]

ReceiveInv ==
  op = "receive" =>
    /\ tlv \in DOMAIN Layout
    /\ TablesAgree(tlv) /\ NoFloat(tlv) =>
         IF pc = "run" THEN AtEnds ELSE FixedSizeIsExact /\ RecordsFit

(* A field of fixed size needs and moves its octets. *)
LEMMA FixedField ==
  ASSUME Inv, pc = "run", pos <= Len(Fields), NoFloat(tlv), Kinds(Fields) \subseteq FixedKinds
  PROVE  LET e == Ends(Takes(Fields, << >>)) IN
         /\ pos \in 1 .. Len(Fields) /\ Len(Fields) \in Nat
         /\ Need = f0.n /\ Moved = f0.n /\ f0.n \in Nat /\ ~FaultMismatch
         /\ e[pos] = e[pos - 1] + f0.n /\ e[pos] <= End(Fields, << >>)
         /\ e[pos] \in Nat /\ e[pos - 1] \in Nat /\ End(Fields, << >>) \in Nat
<1>1. /\ IsLayout(Fields) /\ pos \in 1 .. Len(Fields) /\ f0 \in FieldType
      /\ f0.k # "float" /\ f0 = Fields[pos]
  BY NextField DEF f0
<1>2. \A i \in 1 .. Len(Fields) : Fields[i].k \in FixedKinds
  BY DEF Kinds
<1>3. f0.k \in FixedKinds \ {"float"}
  BY <1>1, <1>2
<1>4. Need = f0.n /\ Moved = f0.n /\ f0.n \in Nat /\ ~FaultMismatch
  BY <1>1, <1>3 DEF Need, Moved, FieldLen, FaultMismatch, FixedKinds, PlainKinds, FieldType
<1>5. \A i \in 1 .. Len(Fields) : Fields[i].k # "body"
  BY <1>2 DEF FixedKinds, PlainKinds
<1>6. Takes(Fields, << >>)[pos] = f0.n
  BY <1>1, <1>5 DEF Takes
<1> QED BY <1>1, <1>4, <1>5, <1>6, FieldEnds

(* Reading a field of a received TLV. *)
LEMMA ReceiveReads ==
  ASSUME Inv, Inv', ReceiveInv, op = "receive", ProcReads
  PROVE  ReceiveInv'
<1>1. /\ pc = "run" /\ pos <= Len(Fields) /\ tlv \in DOMAIN Layout
      /\ op' = op /\ tlv' = tlv /\ room' = room /\ rec' = rec
  BY DEF ProcReads, Fail, Inv
<1>2. SUFFICES ASSUME TablesAgree(tlv), NoFloat(tlv)
               PROVE  IF pc' = "run" THEN AtEnds' ELSE FixedSizeIsExact' /\ RecordsFit'
  BY <1>1 DEF ReceiveInv, TablesAgree, NoFloat
<1>3. AtEnds
  BY <1>1, <1>2 DEF ReceiveInv
<1>t. /\ m_cur \in Nat /\ m_left \in Int /\ room \in Nat /\ m_cur + m_left = room
      /\ rec \in Nat
  BY DEF Inv, CodecTypeOK
<1>h. ASSUME TableSize(tlv) # -2
      PROVE  LET e == Ends(Takes(Layout[tlv].head, << >>)) IN
             /\ rec = 0 /\ Fields = Layout[tlv].head /\ Kinds(Fields) \subseteq FixedKinds
             /\ m_cur = e[pos - 1] /\ TableSize(tlv) \in Nat
             /\ End(Fields, << >>) <= TableSize(tlv)
  <2>1. /\ rec = 0 /\ m_cur = Ends(Takes(Layout[tlv].head, << >>))[pos - 1]
        /\ Kinds(Layout[tlv].head) \subseteq FixedKinds
    BY <1>2, <1>3, <1>h DEF AtEnds, TablesAgree
  <2>2. Fields = Layout[tlv].head
    BY <2>1 DEF Fields
  <2>3. End(Fields, << >>) \in Nat
    BY <1>1, <1>2, <2>1, <2>2, FixedField
  <2>4. TableSize(tlv) \in {End(Fields, << >>), Even(End(Fields, << >>))}
    BY <1>2, <1>h, <2>2 DEF TablesAgree
  <2> QED BY <2>1, <2>2, <2>3, <2>4 DEF Even
<1>r. ASSUME Layout[tlv].list = "open", rec # 0
      PROVE  LET e == Ends(Takes(Layout[tlv].rec, << >>)) IN
             /\ Fields = Layout[tlv].rec /\ Kinds(Fields) \subseteq FixedKinds
             /\ m_left >= End(Fields, << >>) - e[pos - 1]
  BY <1>2, <1>3, <1>r DEF AtEnds, TablesAgree, Fields
<1>4. CASE FaultMismatch \/ m_left < Need
  <2>1. ret' # "OK" /\ pc' = "idle"
    BY <1>4 DEF ProcReads, Fail
  <2>2. FixedSizeIsExact'
    <3>1. SUFFICES ASSUME TableSize(tlv) # -2
                   PROVE  room < TableSize(tlv) /\ TableSize(tlv) \in Nat
      BY <1>1, <1>t, <2>1 DEF FixedSizeIsExact, TableSize
    <3>2. m_left < f0.n
      BY <1>1, <1>2, <1>4, <1>h, <3>1, FixedField
    <3> DEFINE e == Ends(Takes(Layout[tlv].head, << >>))
    <3>3. /\ f0.n \in Nat /\ e[pos] = e[pos - 1] + f0.n /\ e[pos] <= End(Fields, << >>)
          /\ e[pos] \in Nat /\ e[pos - 1] \in Nat /\ End(Fields, << >>) \in Nat
      BY <1>1, <1>2, <1>h, <3>1, FixedField
    <3>4. m_cur = e[pos - 1] /\ TableSize(tlv) \in Nat /\ End(Fields, << >>) <= TableSize(tlv)
      BY <1>h, <3>1
    <3> HIDE DEF e
    <3> QED BY <1>t, <3>2, <3>3, <3>4
  <2>3. RecordsFit'
    <3>1. SUFFICES ASSUME Layout[tlv].list = "open", rec # 0 PROVE FALSE
      BY <1>1 DEF RecordsFit
    <3>2. m_left < f0.n
      BY <1>1, <1>2, <1>4, <1>r, <3>1, FixedField
    <3> DEFINE e == Ends(Takes(Layout[tlv].rec, << >>))
    <3>3. /\ f0.n \in Nat /\ e[pos] = e[pos - 1] + f0.n /\ e[pos] <= End(Fields, << >>)
          /\ e[pos] \in Nat /\ e[pos - 1] \in Nat /\ End(Fields, << >>) \in Nat
      BY <1>1, <1>2, <1>r, <3>1, FixedField
    <3>4. m_left >= End(Fields, << >>) - e[pos - 1]
      BY <1>r, <3>1
    <3> HIDE DEF e
    <3> QED BY <1>t, <3>2, <3>3, <3>4
  <2> QED BY <2>1, <2>2, <2>3
<1>5. CASE ~FaultMismatch /\ ~(m_left < Need)
  <2>1. pc' = "run" /\ pos' = pos + 1 /\ Move(Moved)
    BY <1>1, <1>5 DEF ProcReads
  <2>2. ASSUME TableSize(tlv) # -2
        PROVE  /\ rec' = 0 /\ pos' <= Len(Layout[tlv].head) + 1
               /\ m_cur' = Ends(Takes(Layout[tlv].head, << >>))[pos' - 1]
    <3>1. Moved = f0.n /\ pos \in 1 .. Len(Fields) /\ Len(Fields) \in Nat
      BY <1>1, <1>2, <1>h, <2>2, FixedField
    <3>2. m_cur' = m_cur + f0.n /\ pos' - 1 = pos
      BY <2>1, <3>1 DEF Move
    <3> QED BY <1>1, <1>2, <1>h, <2>1, <2>2, <3>1, <3>2, FixedField
  <2>3. ASSUME Layout[tlv].list = "open", rec # 0
        PROVE  /\ pos' <= Len(Layout[tlv].rec) + 1
               /\ m_left' >= Layout[tlv].size - Ends(Takes(Layout[tlv].rec, << >>))[pos' - 1]
    <3>1. Moved = f0.n /\ pos \in 1 .. Len(Fields) /\ Len(Fields) \in Nat
      BY <1>1, <1>2, <1>r, <2>3, FixedField
    <3>2. m_left' = m_left - f0.n /\ pos' - 1 = pos
      BY <2>1, <3>1 DEF Move
    <3>3. Layout[tlv].size = End(Fields, << >>)
      BY <1>2, <1>r, <2>3 DEF TablesAgree
    <3> DEFINE e == Ends(Takes(Layout[tlv].rec, << >>))
    <3>4. /\ f0.n \in Nat /\ e[pos] = e[pos - 1] + f0.n /\ e[pos] <= End(Fields, << >>)
          /\ e[pos] \in Nat /\ e[pos - 1] \in Nat /\ End(Fields, << >>) \in Nat
      BY <1>1, <1>2, <1>r, <2>3, FixedField
    <3>5. m_left >= End(Fields, << >>) - e[pos - 1] /\ Fields = Layout[tlv].rec
      BY <1>r, <2>3
    <3> HIDE DEF e
    <3>6. pos' <= Len(Layout[tlv].rec) + 1
      BY <2>1, <3>1, <3>5
    <3>7. m_left' >= End(Fields, << >>) - e[pos]
      BY <1>t, <3>2, <3>4, <3>5
    <3>8. m_left' >= Layout[tlv].size - e[pos' - 1]
      BY <3>2, <3>3, <3>7
    <3> QED BY <3>6, <3>8 DEF e
  <2> QED BY <1>1, <2>1, <2>2, <2>3 DEF AtEnds, TableSize
<1> QED BY <1>4, <1>5

(* The steps between the records and at the end of a received TLV. *)
LEMMA ReceiveControl ==
  ASSUME Inv, Inv', ReceiveInv, op = "receive", NextRecord \/ EndParse
  PROVE  ReceiveInv'
<1>1. /\ pc = "run" /\ pos > Len(Fields) /\ tlv \in DOMAIN Layout
      /\ op' = op /\ tlv' = tlv /\ room' = room /\ m_cur' = m_cur /\ m_left' = m_left
  BY DEF NextRecord, EndParse, Finished, Inv
<1>2. SUFFICES ASSUME TablesAgree(tlv), NoFloat(tlv)
               PROVE  IF pc' = "run" THEN AtEnds' ELSE FixedSizeIsExact' /\ RecordsFit'
  BY <1>1 DEF ReceiveInv, TablesAgree, NoFloat
<1>3. AtEnds
  BY <1>1, <1>2 DEF ReceiveInv
<1>t. /\ m_cur \in Nat /\ m_left \in Int /\ room \in Nat /\ m_cur + m_left = room
      /\ m_left >= 0 /\ rec \in Nat /\ pos \in Nat
  BY <1>2 DEF Inv, CodecTypeOK
<1>4. CASE NextRecord
  <2>1. /\ Layout[tlv].list \in {"counted", "open"}
        /\ Layout[tlv].list = "open" => m_left >= Layout[tlv].size
        /\ pc' = "run" /\ rec' = rec + 1 /\ pos' = 1
    BY <1>1, <1>4 DEF NextRecord, AnotherRecord
  <2>2. TableSize(tlv) = -2
    BY <1>2, <2>1 DEF TablesAgree
  <2>3. ASSUME Layout[tlv].list = "open"
        PROVE  /\ pos' <= Len(Layout[tlv].rec) + 1
               /\ m_left' >= Layout[tlv].size - Ends(Takes(Layout[tlv].rec, << >>))[pos' - 1]
    <3> DEFINE e == Ends(Takes(Layout[tlv].rec, << >>))
    <3>1. IsLayout(Layout[tlv].rec)
      BY <1>1, LayoutAssumption
    <3>2. \A i \in 1 .. Len(Layout[tlv].rec) : Layout[tlv].rec[i].k # "body"
      BY <1>2, <2>3 DEF TablesAgree, Kinds, FixedKinds, PlainKinds
    <3>3. e[0] = 0 /\ Len(Layout[tlv].rec) \in Nat /\ End(Layout[tlv].rec, << >>) \in Nat
      BY <3>1, <3>2, FieldEnds
    <3>4. Layout[tlv].size = End(Layout[tlv].rec, << >>)
      BY <1>2, <2>3 DEF TablesAgree
    <3> HIDE DEF e
    <3>5. m_left' >= Layout[tlv].size - e[pos' - 1]
      BY <1>1, <1>t, <2>1, <2>3, <3>3, <3>4
    <3> QED BY <2>1, <3>3, <3>5 DEF e
  <2> QED BY <1>1, <2>1, <2>2, <2>3 DEF AtEnds, TableSize
<1>5. CASE EndParse
  <2>1. ret' = "OK" /\ pc' = "idle"
    BY <1>5 DEF EndParse
  <2>2. RecordsFit'
    BY <2>1 DEF RecordsFit
  <2>3. FixedSizeIsExact'
    <3>1. SUFFICES ASSUME TableSize(tlv) # -2, tlv \in DOMAIN SigLayouts \/ room % 2 = 0
                   PROVE  room >= TableSize(tlv)
      BY <1>1, <2>1 DEF FixedSizeIsExact, TableSize
    <3> DEFINE fs == Layout[tlv].head
               e == Ends(Takes(fs, << >>))
    <3>2. rec = 0 /\ pos <= Len(fs) + 1 /\ m_cur = e[pos - 1]
      BY <1>3, <3>1 DEF AtEnds
    <3>3. IsLayout(fs) /\ Fields = fs
      BY <1>1, <3>2, LayoutAssumption DEF Fields
    <3>4. \A i \in 1 .. Len(fs) : fs[i].k # "body"
      BY <1>2, <3>1 DEF TablesAgree, Kinds, FixedKinds, PlainKinds
    <3>5. End(fs, << >>) = e[Len(fs)] /\ Len(fs) \in Nat /\ End(fs, << >>) \in Nat
      BY <3>3, <3>4, FieldEnds
    <3>6. TableSize(tlv) = IF tlv \in DOMAIN SigLayouts THEN End(fs, << >>)
                           ELSE Even(End(fs, << >>))
      BY <1>2, <3>1 DEF TablesAgree
    <3>7. tlv \notin DOMAIN SigLayouts => room % 2 = 0
      BY <3>1
    <3> HIDE DEF e, fs
    <3>8. pos - 1 = Len(fs)
      BY <1>1, <1>t, <3>2, <3>3, <3>5
    <3>9. m_cur = End(fs, << >>) /\ m_cur <= room
      BY <1>t, <3>2, <3>5, <3>8
    <3>10. room % 2 = 0 => Even(m_cur) <= room
      <4>1. CASE m_cur % 2 = 0
        BY <1>t, <3>9, <4>1 DEF Even
      <4>2. CASE m_cur % 2 = 1
        <5>1. room % 2 = 0 => room # m_cur
          BY <4>2
        <5>2. Even(m_cur) = m_cur + 1
          BY <4>2 DEF Even
        <5> QED BY <1>t, <3>9, <5>1, <5>2
      <4> QED BY <1>t, <4>1, <4>2
    <3> QED BY <1>t, <3>6, <3>7, <3>9, <3>10
  <2> QED BY <2>1, <2>2, <2>3
<1> QED BY <1>4, <1>5

(* Calling parse() or parseSig(). *)
LEMMA ReceiveStart ==
  ASSUME Inv, Receive
  PROVE  ReceiveInv'
<1>1. PICK x \in Received :
        Start("receive", x.tlv, [head |-> << >>, recs |-> << >>], x.octets, Len(x.octets))
  BY DEF Receive
<1>2. x.tlv \in DOMAIN Layout
  BY ReceivedAssumption, Zenon
<1>3. /\ pc' = "run" /\ tlv' = x.tlv /\ rec' = 0 /\ pos' = 1 /\ m_cur' = 0
      /\ room' = Len(x.octets)
  BY <1>1 DEF Start
<1>4. ASSUME TablesAgree(x.tlv), TableSize(x.tlv) # -2
      PROVE  /\ 1 <= Len(Layout[x.tlv].head) + 1
             /\ 0 = Ends(Takes(Layout[x.tlv].head, << >>))[1 - 1]
  <2>1. IsLayout(Layout[x.tlv].head)
    BY <1>2, LayoutAssumption
  <2>2. \A i \in 1 .. Len(Layout[x.tlv].head) : Layout[x.tlv].head[i].k # "body"
    BY <1>4 DEF TablesAgree, Kinds, FixedKinds, PlainKinds
  <2> QED BY <2>1, <2>2, FieldEnds
<1>5. TablesAgree(x.tlv) => AtEnds'
  BY <1>3, <1>4 DEF AtEnds, TableSize
<1> QED BY <1>2, <1>3, <1>5 DEF ReceiveInv, TablesAgree, TableSize

(* The strengthening holds in every state. *)
LEMMA ReceiveHolds == UseSpec => []ReceiveInv
<1>1. CodecInit => ReceiveInv
  BY DEF CodecInit, ReceiveInv
<1>2. Inv /\ Inv' /\ ReceiveInv /\ [UseNext]_codecVars => ReceiveInv'
  <2>1. SUFFICES ASSUME Inv, Inv', ReceiveInv, [UseNext]_codecVars PROVE ReceiveInv'
    OBVIOUS
  <2>2. CASE UNCHANGED codecVars
    BY <2>1, <2>2 DEF codecVars, ReceiveInv, AtEnds, TablesAgree, TableSize, NoFloat,
       FixedSizeIsExact, RecordsFit, Returned
  <2>3. CASE BuildAny \/ Afresh \/ StartParse
    BY <2>3 DEF BuildAny, Afresh, CodecInit, StartParse, Start, ReceiveInv
  <2>4. CASE Receive
    BY <2>1, <2>4, ReceiveStart
  <2>5. CASE op # "receive" /\ (ProcWrites \/ ProcReads \/ NextRecord \/ EndBuild \/ EndParse)
    BY <2>5 DEF ProcWrites, ProcReads, NextRecord, EndBuild, EndParse, Fail, ReceiveInv
  <2>6. CASE op = "receive" /\ (ProcWrites \/ EndBuild)
    BY <2>6 DEF ProcWrites, EndBuild
  <2>7. CASE op = "receive" /\ (ProcReads \/ NextRecord \/ EndParse)
    BY <2>1, <2>7, ReceiveReads, ReceiveControl
  <2> QED BY <2>1, <2>2, <2>3, <2>4, <2>5, <2>6, <2>7 DEF UseNext
<1> QED BY <1>1, <1>2, InvHolds, PTL DEF UseSpec

(* A received TLV of fixed size is accepted exactly if it has the octets its table or
   its types say, for any octets: all it takes is that the table counts the fields
   right, and that no Float64_t is among them. *)
THEOREM FixedSizesExact == CodecSpec => [](SizesAgree /\ NoFloat(tlv) => FixedSizeIsExact)
<1>1. Inv /\ ReceiveInv => (SizesAgree /\ NoFloat(tlv) => FixedSizeIsExact)
  <2>1. SUFFICES ASSUME Inv, ReceiveInv, SizesAgree, NoFloat(tlv), Returned("receive")
                 PROVE  FixedSizeIsExact
    BY DEF FixedSizeIsExact
  <2> QED BY <2>1 DEF ReceiveInv, SizesAgree, Returned
<1> QED BY <1>1, CodecIsUse, InvHolds, ReceiveHolds, PTL

(* The loop over a list without count never begins a record it can not finish, however
   many octets the TLV has. *)
THEOREM OpenListsEndBetweenRecords ==
  CodecSpec => [](SizesAgree /\ NoFloat(tlv) => RecordsFit)
<1>1. Inv /\ ReceiveInv => (SizesAgree /\ NoFloat(tlv) => RecordsFit)
  <2>1. SUFFICES ASSUME Inv, ReceiveInv, SizesAgree, NoFloat(tlv), Returned("receive")
                 PROVE  RecordsFit
    BY DEF RecordsFit
  <2> QED BY <2>1 DEF ReceiveInv, SizesAgree, Returned
<1> QED BY <1>1, CodecIsUse, InvHolds, ReceiveHolds, PTL
=============================================================================
