--------------------------- MODULE MessageProofs ---------------------------
(***************************************************************************)
(* Proofs about the class Message, for any table of management ids, any    *)
(* structures to send, any messages received and any filter of TLVs.       *)
(*                                                                         *)
(* First parseSig(), the loop over the TLVs of a signaling message, on its *)
(* own, then all calls of the class together.                              *)
(***************************************************************************)
EXTENDS Message, SequenceTheorems, FiniteSetTheorems, TLAPS

-----------------------------------------------------------------------------
(***************************************************************************)
(* parseSig()                                                              *)
(*                                                                         *)
(* The other calls of Message set ret between two signaling messages.  The *)
(* steps are therefore proved for SigStep, which says nothing of ret, from *)
(* LoopTypeOK, the type invariant without it: both SigSpec and the         *)
(* specification of Message take such steps.                               *)
(***************************************************************************)
USE IdsAssumption, SigTlvsAssumption, SigSizesAssumption, PrmsAssumption
    DEF sigBaseSize, tlvSize

(* The values of the variables of the loop. *)
LoopTypeOK ==
  /\ pc \in {"idle", "sig"}
  /\ m_prms \in PrmsSet
  /\ m_cur \in Nat /\ leftAll \in Nat /\ capacity \in Nat
  /\ m_sigTlvs \in Seq(SigElem)
  /\ sigSize \in Nat /\ sigSize >= sigBaseSize
  /\ epoch \in {0, 1}

(* A step of parseSig() on a message of any size, or one of anything else. *)
SigStep ==
  \/ \E size \in Nat : size >= sigBaseSize /\ BeginSig(size)
  \/ SigTlv
  \/ EndSig
  \/ \E prms \in PrmsSet : SigUpdateParams(prms)
  \/ UNCHANGED <<pc, m_prms, m_cur, leftAll, m_sigTlvs, capacity, sigSize, epoch>>

(* parseSig() on its own takes such steps. *)
LEMMA SigNextIsSigStep == [SigNext]_sigVars => SigStep
  BY DEF SigNext, SigStep, sigVars

(* Growing the vector keeps its length and the types of its elements. *)
LEMMA RegrownType ==
  ASSUME NEW vec \in Seq(SigElem)
  PROVE  /\ Regrown(vec) \in Seq(SigElem)
         /\ Len(Regrown(vec)) = Len(vec)
         /\ \A i \in DOMAIN vec : /\ Regrown(vec)[i].type = vec[i].type
                                  /\ Regrown(vec)[i].id = vec[i].id
                                  /\ Regrown(vec)[i].epoch = vec[i].epoch
<1>1. \A i \in 1 .. Len(vec) : vec[i] \in SigElem
  OBVIOUS
<1>2. \A i \in 1 .. Len(vec) : [vec[i] EXCEPT !.data = "null"] \in SigElem
  BY <1>1 DEF SigElem
<1>3. \A i \in 1 .. Len(vec) : /\ [vec[i] EXCEPT !.data = "null"].type = vec[i].type
                               /\ [vec[i] EXCEPT !.data = "null"].id = vec[i].id
                               /\ [vec[i] EXCEPT !.data = "null"].epoch = vec[i].epoch
  BY <1>1 DEF SigElem
<1>4. Regrown(vec) = [i \in 1 .. Len(vec) |-> [vec[i] EXCEPT !.data = "null"]]
  BY DEF Regrown
<1>5. Len(vec) \in Nat
  OBVIOUS
<1> HIDE DEF Regrown
<1>6. Regrown(vec) \in Seq(SigElem) /\ Len(Regrown(vec)) = Len(vec)
  BY <1>2, <1>4, <1>5, IsASeq
<1> QED
  BY <1>3, <1>4, <1>6

(* vector::insert() keeps every element in its place and appends one. *)
LEMMA InsertType ==
  ASSUME NEW vec \in Seq(SigElem), NEW e \in SigElem
  PROVE  /\ Insert(vec, e) \in Seq(SigElem)
         /\ Len(Insert(vec, e)) = Len(vec) + 1
         /\ Insert(vec, e)[Len(vec) + 1] = e
         /\ \A i \in 1 .. Len(vec) : /\ Insert(vec, e)[i].type = vec[i].type
                                     /\ Insert(vec, e)[i].id = vec[i].id
                                     /\ Insert(vec, e)[i].epoch = vec[i].epoch
<1> DEFINE base == IF Len(vec) = capacity THEN Regrown(vec) ELSE vec
<1>1. /\ base \in Seq(SigElem) /\ Len(base) = Len(vec)
      /\ \A i \in 1 .. Len(vec) : /\ base[i].type = vec[i].type
                                  /\ base[i].id = vec[i].id
                                  /\ base[i].epoch = vec[i].epoch
  BY RegrownType
<1>2. Insert(vec, e) = Append(base, e)
  BY DEF Insert
<1> HIDE DEF base
<1>3. /\ Append(base, e) \in Seq(SigElem)
      /\ Len(Append(base, e)) = Len(vec) + 1
      /\ Append(base, e)[Len(vec) + 1] = e
      /\ \A i \in 1 .. Len(vec) : Append(base, e)[i] = base[i]
  BY <1>1
<1> QED
  BY <1>1, <1>2, <1>3

(* A new element has the type of its TLV and belongs to this message. *)
LEMMA NewElemType ==
  ASSUME NEW t \in SigTlvs, epoch \in {0, 1}
  PROVE  /\ NewElem(t) \in SigElem
         /\ NewElem(t).type = t.type /\ NewElem(t).id = t.id
         /\ NewElem(t).epoch = epoch /\ NewElem(t).data # "null"
  BY DEF NewElem, SigElem

(***************************************************************************)
(* A step of the loop that keeps a TLV, and one that does not.             *)
(***************************************************************************)
LEMMA PassesStep ==
  ASSUME NEW t \in SigTlvs, LoopTypeOK, SigTlvPasses(t)
  PROVE  /\ pc' = "sig" /\ pc = "sig" /\ t.len \in Nat
         /\ t.len <= leftAll - tlvSize
         /\ leftAll' = leftAll - tlvSize - t.len
         /\ leftAll \in Nat /\ leftAll' \in Nat
         /\ m_sigTlvs' \in Seq(SigElem) /\ capacity' \in Nat
         /\ UNCHANGED <<m_prms, ret, sigSize, epoch>>
         /\ \/ UNCHANGED <<m_sigTlvs, capacity>>
            \/ /\ PassesFilter(t) /\ Yields(t)
               /\ m_sigTlvs' = Insert(m_sigTlvs, NewElem(t))
               /\ capacity' = GrownCapacity(m_sigTlvs)
<1>1. t.len \in Nat /\ leftAll \in Nat
  BY DEF LoopTypeOK
<1>2. t.len <= leftAll - tlvSize
  BY <1>1 DEF SigTlvPasses, TlvError
<1>3. leftAll' = leftAll - tlvSize - t.len /\ pc' = "sig" /\ pc = "sig"
      /\ UNCHANGED <<m_prms, ret, sigSize, epoch>>
  BY DEF SigTlvPasses
<1>4. CASE PassesFilter(t) /\ Yields(t)
  <2>1. m_sigTlvs' = Insert(m_sigTlvs, NewElem(t)) /\ capacity' = GrownCapacity(m_sigTlvs)
    BY <1>4 DEF SigTlvPasses
  <2>2. m_sigTlvs' \in Seq(SigElem)
    BY <2>1, InsertType, NewElemType DEF LoopTypeOK
  <2>3. capacity' \in Nat
    BY <2>1 DEF LoopTypeOK, GrownCapacity
  <2> QED
    BY <1>1, <1>2, <1>3, <1>4, <2>1, <2>2, <2>3
<1>5. CASE ~(PassesFilter(t) /\ Yields(t))
  BY <1>1, <1>2, <1>3, <1>5 DEF SigTlvPasses, LoopTypeOK
<1> QED
  BY <1>4, <1>5

(* What the vector looks like once a TLV was put in. *)
LEMMA KeptElements ==
  ASSUME NEW t \in SigTlvs, LoopTypeOK, m_sigTlvs' = Insert(m_sigTlvs, NewElem(t))
  PROVE  /\ Len(m_sigTlvs) \in Nat /\ Len(m_sigTlvs') = Len(m_sigTlvs) + 1
         /\ DOMAIN m_sigTlvs = 1 .. Len(m_sigTlvs)
         /\ DOMAIN m_sigTlvs' = 1 .. Len(m_sigTlvs) + 1
         /\ m_sigTlvs'[Len(m_sigTlvs) + 1] = NewElem(t)
         /\ \A i \in 1 .. Len(m_sigTlvs) : /\ m_sigTlvs'[i].type = m_sigTlvs[i].type
                                          /\ m_sigTlvs'[i].id = m_sigTlvs[i].id
                                          /\ m_sigTlvs'[i].epoch = m_sigTlvs[i].epoch
<1>1. m_sigTlvs \in Seq(SigElem) /\ NewElem(t) \in SigElem
  BY NewElemType DEF LoopTypeOK
<1>2. /\ Insert(m_sigTlvs, NewElem(t)) \in Seq(SigElem)
      /\ Len(Insert(m_sigTlvs, NewElem(t))) = Len(m_sigTlvs) + 1
      /\ Insert(m_sigTlvs, NewElem(t))[Len(m_sigTlvs) + 1] = NewElem(t)
      /\ \A i \in 1 .. Len(m_sigTlvs) :
           /\ Insert(m_sigTlvs, NewElem(t))[i].type = m_sigTlvs[i].type
           /\ Insert(m_sigTlvs, NewElem(t))[i].id = m_sigTlvs[i].id
           /\ Insert(m_sigTlvs, NewElem(t))[i].epoch = m_sigTlvs[i].epoch
  BY <1>1, InsertType
<1>3. Len(m_sigTlvs) \in Nat /\ DOMAIN m_sigTlvs = 1 .. Len(m_sigTlvs)
  BY <1>1
<1>4. m_sigTlvs' \in Seq(SigElem) /\ Len(m_sigTlvs') = Len(m_sigTlvs) + 1
  BY <1>2
<1>5. DOMAIN m_sigTlvs' = 1 .. Len(m_sigTlvs) + 1
  BY <1>3, <1>4
<1> QED
  BY <1>2, <1>3, <1>4, <1>5

(* The values of the variables of the loop after every step. *)
LEMMA LoopTypeStep == LoopTypeOK /\ SigStep => LoopTypeOK'
<1> SUFFICES ASSUME LoopTypeOK, SigStep PROVE LoopTypeOK'
  OBVIOUS
<1>1. ASSUME NEW size \in Nat, size >= sigBaseSize, BeginSig(size) PROVE LoopTypeOK'
  BY <1>1 DEF LoopTypeOK, BeginSig
<1>2. ASSUME NEW t \in SigTlvs, SigTlvFails(t) PROVE LoopTypeOK'
  BY <1>2 DEF LoopTypeOK, SigTlvFails
<1>3. ASSUME NEW t \in SigTlvs, SigTlvPasses(t) PROVE LoopTypeOK'
  <2>1. Advance(t) \in Nat
    BY DEF Advance
  <2>2. m_cur' \in Nat
    BY <1>3, <2>1 DEF SigTlvPasses, LoopTypeOK
  <2> QED
    BY <1>3, <2>2, PassesStep DEF LoopTypeOK
<1>4. CASE EndSig
  BY <1>4 DEF LoopTypeOK, EndSig
<1>5. ASSUME NEW prms \in PrmsSet, SigUpdateParams(prms) PROVE LoopTypeOK'
  BY <1>5 DEF LoopTypeOK, SigUpdateParams
<1>6. CASE UNCHANGED <<pc, m_prms, m_cur, leftAll, m_sigTlvs, capacity, sigSize, epoch>>
  BY <1>6 DEF LoopTypeOK
<1> QED
  BY <1>1, <1>2, <1>3, <1>4, <1>5, <1>6 DEF SigStep, SigTlv

(* The loop starts with its variables in their types, and keeps them there. *)
LEMMA LoopTypeCorrect == SigSpec => []LoopTypeOK
<1>1. SigInit => LoopTypeOK
  BY DEF SigInit, LoopTypeOK
<1> QED
  BY <1>1, LoopTypeStep, SigNextIsSigStep, PTL DEF SigSpec

(***************************************************************************)
(* parseSig() keeps its variables in their types: in particular, what is   *)
(* left of the message never becomes negative, whatever lengthFields the   *)
(* TLVs have.                                                              *)
(***************************************************************************)
THEOREM SigTypeCorrect == SigSpec => []SigTypeOK
<1> DEFINE RetOK == ret \in {"none", "true", "false", "SIG"} \cup DecodeErrs
<1>1. SigInit => RetOK
  BY DEF SigInit
<1>2. RetOK /\ [SigNext]_sigVars => RetOK'
  <2> SUFFICES ASSUME RetOK, [SigNext]_sigVars PROVE RetOK'
    OBVIOUS
  <2>1. ASSUME NEW t \in SigTlvs, SigTlvFails(t) PROVE RetOK'
    <3>1. TlvError(t) \in DecodeErrs
      BY DEF TlvError, DecodeErrs
    <3> QED
      BY <2>1, <3>1 DEF SigTlvFails
  <2>2. ASSUME NEW t \in SigTlvs, SigTlvPasses(t) PROVE RetOK'
    BY <2>2 DEF SigTlvPasses
  <2> QED
    BY <2>1, <2>2 DEF SigNext, SigTlv, BeginSig, EndSig, SigUpdateParams, sigVars
<1>3. LoopTypeOK /\ RetOK => SigTypeOK
  BY DEF LoopTypeOK, SigTypeOK
<1> QED
  BY <1>1, <1>2, <1>3, LoopTypeCorrect, PTL DEF SigSpec
-----------------------------------------------------------------------------
(***************************************************************************)
(* A TLV moves the cursor over its lengthField; only metrics that were     *)
(* accepted move it further, by FloatExcess octets at most.                *)
(***************************************************************************)
LEMMA AdvanceIsLength ==
  ASSUME MovesAsFar, NEW t \in SigTlvs, TlvError(t) = "OK"
  PROVE  /\ Advance(t) \in Nat /\ t.len \in Nat
         /\ t.len <= Advance(t)
         /\ Advance(t) <= t.len + FloatExcess
         /\ \/ Advance(t) = t.len
            \/ PassesFilter(t) /\ Yields(t) /\ t.type = "ENHANCED_ACCURACY_METRICS"
<1>1. t.len \in Nat /\ t.moved \in Nat
  OBVIOUS
<1>2. CASE PassesFilter(t) /\ Decodes(t)
  <2>1. t.err = "OK" /\ Yields(t)
    BY <1>2 DEF TlvError, Yields
  <2>2. CASE t.type = "MANAGEMENT"
    <3>1. t.moved <= t.len - 2
      BY <2>1, <2>2 DEF MovesAsFar
    <3> QED
      BY <1>1, <2>2, <3>1 DEF Advance, FloatExcess
  <2>3. CASE t.type = "ENHANCED_ACCURACY_METRICS"
    <3>1. t.moved <= t.len + FloatExcess
      BY <2>1, <2>3 DEF MovesAsFar
    <3> QED
      BY <1>1, <1>2, <2>1, <2>3, <3>1 DEF Advance, FloatExcess
  <2>4. CASE t.type # "MANAGEMENT" /\ t.type # "ENHANCED_ACCURACY_METRICS"
    <3>1. t.moved <= t.len
      BY <2>1, <2>4 DEF MovesAsFar
    <3> QED
      BY <1>1, <2>4, <3>1 DEF Advance, FloatExcess
  <2> QED
    BY <2>2, <2>3, <2>4
<1>3. CASE ~(PassesFilter(t) /\ Decodes(t))
  BY <1>1, <1>3 DEF Advance, FloatExcess
<1> QED
  BY <1>2, <1>3

(* How many metrics the vector holds, before and after a TLV is put in. *)
LEMMA MetricsCount ==
  ASSUME NEW vec \in Seq(SigElem)
  PROVE  /\ IsFiniteSet(MetricsOf(vec)) /\ Cardinality(MetricsOf(vec)) \in Nat
<1>1. MetricsOf(vec) \subseteq 1 .. Len(vec) /\ Len(vec) \in Nat
  BY DEF MetricsOf
<1>2. IsFiniteSet(1 .. Len(vec))
  BY <1>1, FS_Interval
<1>3. IsFiniteSet(MetricsOf(vec))
  BY <1>1, <1>2, FS_Subset
<1> QED
  BY <1>3, FS_CardinalityType

LEMMA MetricsGrow ==
  ASSUME NEW t \in SigTlvs, LoopTypeOK, m_sigTlvs' = Insert(m_sigTlvs, NewElem(t))
  PROVE  Cardinality(MetricsOf(m_sigTlvs')) =
           IF t.type = "ENHANCED_ACCURACY_METRICS"
           THEN Cardinality(MetricsOf(m_sigTlvs)) + 1
           ELSE Cardinality(MetricsOf(m_sigTlvs))
<1> DEFINE last == Len(m_sigTlvs) + 1
<1>1. NewElem(t).type = t.type
  BY NewElemType DEF LoopTypeOK
<1>2. /\ Len(m_sigTlvs) \in Nat /\ DOMAIN m_sigTlvs = 1 .. Len(m_sigTlvs)
      /\ DOMAIN m_sigTlvs' = 1 .. Len(m_sigTlvs) + 1
      /\ m_sigTlvs'[last] = NewElem(t)
      /\ \A i \in 1 .. Len(m_sigTlvs) : m_sigTlvs'[i].type = m_sigTlvs[i].type
  BY KeptElements
<1>3. IsFiniteSet(MetricsOf(m_sigTlvs))
  BY MetricsCount DEF LoopTypeOK
<1>6. last \notin MetricsOf(m_sigTlvs)
  BY <1>2 DEF MetricsOf
<1>4. CASE t.type = "ENHANCED_ACCURACY_METRICS"
  <2>1. MetricsOf(m_sigTlvs') = MetricsOf(m_sigTlvs) \cup {last}
    BY <1>1, <1>2, <1>4 DEF MetricsOf
  <2> QED
    BY <1>3, <1>4, <1>6, <2>1, FS_AddElement
<1>5. CASE t.type # "ENHANCED_ACCURACY_METRICS"
  <2>1. MetricsOf(m_sigTlvs') = MetricsOf(m_sigTlvs)
    BY <1>1, <1>2, <1>5 DEF MetricsOf
  <2> QED
    BY <1>5, <2>1
<1> QED
  BY <1>4, <1>5

(* A step keeps the cursor and the count of octets together. *)
LEMMA CursorStep ==
  ASSUME MovesAsFar
  PROVE  LoopTypeOK /\ CursorInStep /\ SigStep => CursorInStep'
<1> SUFFICES ASSUME LoopTypeOK, CursorInStep, SigStep PROVE CursorInStep'
  OBVIOUS
<1>1. ASSUME NEW size \in Nat, size >= sigBaseSize, BeginSig(size) PROVE CursorInStep'
  <2>1. m_sigTlvs' = << >> /\ m_cur' + leftAll' = size /\ sigSize' = size
    BY <1>1 DEF BeginSig
  <2>2. MetricsOf(m_sigTlvs') = {}
    BY <2>1 DEF MetricsOf
  <2> QED
    <3>1. Cardinality(MetricsOf(m_sigTlvs')) = 0
      BY <2>2, FS_EmptySet
    <3>2. m_cur' + leftAll' \in sigSize' .. sigSize' + FloatExcess * 0
      BY <2>1 DEF FloatExcess
    <3> QED
      BY <3>1, <3>2 DEF CursorInStep
<1>2. ASSUME NEW t \in SigTlvs, SigTlvFails(t) PROVE CursorInStep'
  BY <1>2 DEF SigTlvFails, CursorInStep
<1>3. ASSUME NEW t \in SigTlvs, SigTlvPasses(t) PROVE CursorInStep'
  <2> DEFINE count == Cardinality(MetricsOf(m_sigTlvs))
             sum == m_cur + leftAll
  <2>1. /\ Advance(t) \in Nat /\ t.len \in Nat
        /\ t.len <= Advance(t)
        /\ Advance(t) <= t.len + FloatExcess
        /\ \/ Advance(t) = t.len
           \/ PassesFilter(t) /\ Yields(t) /\ t.type = "ENHANCED_ACCURACY_METRICS"
    BY <1>3, AdvanceIsLength DEF SigTlvPasses
  <2>2. count \in Nat
    BY MetricsCount DEF LoopTypeOK
  <2>3. m_cur' = m_cur + tlvSize + Advance(t)
    BY <1>3 DEF SigTlvPasses
  <2>4. /\ pc = "sig" /\ pc' = "sig" /\ sigSize' = sigSize /\ sigSize \in Nat
        /\ leftAll' = leftAll - tlvSize - t.len /\ m_cur \in Nat /\ leftAll \in Nat
    BY <1>3, PassesStep DEF LoopTypeOK
  <2>5. sum \in Nat /\ sum >= sigSize /\ sum <= sigSize + FloatExcess * count
    BY <2>2, <2>4 DEF CursorInStep, FloatExcess
  <2>6. m_cur' + leftAll' = sum + (Advance(t) - t.len)
    BY <2>1, <2>3, <2>4
  <2>7. CASE Advance(t) = t.len
    <3>1. Cardinality(MetricsOf(m_sigTlvs')) \in Nat
          /\ Cardinality(MetricsOf(m_sigTlvs')) >= count
      BY <1>3, <2>2, PassesStep, MetricsGrow
    <3>2. m_cur' + leftAll' = sum
      BY <2>1, <2>5, <2>6, <2>7
    <3> QED
      BY <2>2, <2>4, <2>5, <3>1, <3>2 DEF CursorInStep, FloatExcess
  <2>8. CASE PassesFilter(t) /\ Yields(t) /\ t.type = "ENHANCED_ACCURACY_METRICS"
    <3>1. m_sigTlvs' = Insert(m_sigTlvs, NewElem(t))
      BY <1>3, <2>8 DEF SigTlvPasses
    <3>2. Cardinality(MetricsOf(m_sigTlvs')) = count + 1
      BY <2>8, <3>1, MetricsGrow
    <3> HIDE DEF count, sum
    <3>3. m_cur' + leftAll' \in sigSize .. sigSize + FloatExcess * (count + 1)
      BY <2>1, <2>2, <2>4, <2>5, <2>6 DEF FloatExcess
    <3> QED
      BY <2>4, <3>2, <3>3 DEF CursorInStep
  <2> QED
    BY <2>1, <2>7, <2>8
<1>4. CASE EndSig
  BY <1>4 DEF EndSig, CursorInStep
<1>5. ASSUME NEW prms \in PrmsSet, SigUpdateParams(prms) PROVE CursorInStep'
  BY <1>5 DEF SigUpdateParams, CursorInStep
<1>6. CASE UNCHANGED <<pc, m_prms, m_cur, leftAll, m_sigTlvs, capacity, sigSize, epoch>>
  BY <1>6 DEF CursorInStep
<1> QED
  BY <1>1, <1>2, <1>3, <1>4, <1>5, <1>6 DEF SigStep, SigTlv

(***************************************************************************)
(* The cursor of parseSig() and its count of octets stay in step over any  *)
(* number of TLVs, skipped, ignored and decoded ones: what is between them *)
(* is at most eight octets for each of the metrics the message brought.    *)
(* The hypothesis says of the decoding functions what CursorStaysInside of *)
(* CodecProofs shows of them.                                              *)
(***************************************************************************)
THEOREM CursorStaysInStep ==
  ASSUME MovesAsFar
  PROVE  SigSpec => []CursorInStep
<1>1. SigInit => CursorInStep
  BY DEF SigInit, CursorInStep
<1> QED
  BY <1>1, CursorStep, LoopTypeCorrect, SigNextIsSigStep, PTL DEF SigSpec

(* A step leaves only TLVs of this message in the vector. *)
LEMMA VectorStep == LoopTypeOK /\ OnlyThisMessage /\ SigStep => OnlyThisMessage'
<1> SUFFICES ASSUME LoopTypeOK, OnlyThisMessage, SigStep PROVE OnlyThisMessage'
  OBVIOUS
<1>1. ASSUME NEW size \in Nat, size >= sigBaseSize, BeginSig(size) PROVE OnlyThisMessage'
  BY <1>1 DEF BeginSig, OnlyThisMessage
<1>2. ASSUME NEW t \in SigTlvs, SigTlvFails(t) PROVE OnlyThisMessage'
  <2>1. t.len \in Nat /\ leftAll' <= leftAll /\ leftAll' \in Nat
    BY <1>2 DEF SigTlvFails, LoopTypeOK
  <2> QED
    BY <1>2, <2>1 DEF SigTlvFails, OnlyThisMessage, LoopTypeOK
<1>3. ASSUME NEW t \in SigTlvs, SigTlvPasses(t) PROVE OnlyThisMessage'
  <2>1. CASE UNCHANGED <<m_sigTlvs, capacity>>
    <3>1. /\ Len(m_sigTlvs) \in Nat /\ leftAll \in Nat /\ leftAll' \in Nat /\ sigSize \in Nat
          /\ leftAll' <= leftAll /\ UNCHANGED <<sigSize, epoch>>
      BY <1>3, PassesStep DEF LoopTypeOK
    <3> QED
      BY <2>1, <3>1 DEF OnlyThisMessage
  <2>2. CASE m_sigTlvs' = Insert(m_sigTlvs, NewElem(t))
    <3>1. NewElem(t).epoch = epoch /\ epoch' = epoch
      BY <1>3, NewElemType, PassesStep DEF LoopTypeOK
    <3>2. \A i \in DOMAIN m_sigTlvs' : m_sigTlvs'[i].epoch = epoch
      BY <2>2, <3>1, KeptElements DEF OnlyThisMessage
    <3>3. tlvSize * Len(m_sigTlvs') + leftAll' <= sigSize' - sigBaseSize
      <4>1. /\ Len(m_sigTlvs) \in Nat /\ Len(m_sigTlvs') = Len(m_sigTlvs) + 1
        BY <2>2, KeptElements
      <4>2. /\ leftAll' = leftAll - tlvSize - t.len /\ t.len \in Nat /\ leftAll \in Nat
            /\ sigSize' = sigSize /\ sigSize \in Nat
        BY <1>3, PassesStep DEF LoopTypeOK
      <4> QED
        BY <4>1, <4>2 DEF OnlyThisMessage
    <3> QED
      BY <3>1, <3>2, <3>3 DEF OnlyThisMessage
  <2> QED
    BY <1>3, <2>1, <2>2, PassesStep
<1>4. CASE EndSig
  BY <1>4 DEF EndSig, OnlyThisMessage
<1>5. ASSUME NEW prms \in PrmsSet, SigUpdateParams(prms) PROVE OnlyThisMessage'
  BY <1>5 DEF SigUpdateParams, OnlyThisMessage
<1>6. CASE UNCHANGED <<pc, m_prms, m_cur, leftAll, m_sigTlvs, capacity, sigSize, epoch>>
  BY <1>6 DEF OnlyThisMessage
<1> QED
  BY <1>1, <1>2, <1>3, <1>4, <1>5, <1>6 DEF SigStep, SigTlv

(***************************************************************************)
(* The vector only ever holds TLVs of the last signaling message, and no   *)
(* more of them than the octets consumed have room for.                    *)
(***************************************************************************)
THEOREM VectorIsOfLastMessage == SigSpec => []OnlyThisMessage
<1>1. SigInit => OnlyThisMessage
  BY DEF SigInit, OnlyThisMessage
<1> QED
  BY <1>1, VectorStep, LoopTypeCorrect, SigNextIsSigStep, PTL DEF SigSpec

(* A step puts no TLV in the vector that the application does not want. *)
LEMMA FilterStep == LoopTypeOK /\ FilterRespected /\ SigStep => FilterRespected'
<1> SUFFICES ASSUME LoopTypeOK, FilterRespected, SigStep PROVE FilterRespected'
  OBVIOUS
<1>1. ASSUME NEW size \in Nat, size >= sigBaseSize, BeginSig(size) PROVE FilterRespected'
  BY <1>1 DEF BeginSig, FilterRespected
<1>2. ASSUME NEW t \in SigTlvs, SigTlvFails(t) PROVE FilterRespected'
  BY <1>2 DEF SigTlvFails, FilterRespected
<1>3. ASSUME NEW t \in SigTlvs, SigTlvPasses(t) PROVE FilterRespected'
  <2>1. CASE UNCHANGED <<m_sigTlvs, capacity>>
    BY <1>3, <2>1, PassesStep DEF FilterRespected
  <2>2. CASE PassesFilter(t) /\ Yields(t) /\ m_sigTlvs' = Insert(m_sigTlvs, NewElem(t))
    <3>1. NewElem(t).type = t.type /\ NewElem(t).id = t.id
      BY NewElemType DEF LoopTypeOK
    <3>2. /\ m_prms.filterSignaling => t.type \in m_prms.allowSigTlvs
          /\ m_prms.implementSpecific # "linuxptp" =>
               /\ t.type # "SLAVE_DELAY_TIMING_DATA_NP"
               /\ t.type = "MANAGEMENT" => t.id \notin LinuxptpIds
      BY <2>2 DEF PassesFilter, Yields, Decodes, HasMngData, FindTlvId, SigDecoded
    <3>3. pc = "sig" /\ m_prms' = m_prms
      BY <1>3, PassesStep
    <3> QED
      BY <2>2, <3>1, <3>2, <3>3, KeptElements DEF FilterRespected
  <2> QED
    BY <1>3, <2>1, <2>2, PassesStep
<1>4. CASE EndSig
  BY <1>4 DEF EndSig, FilterRespected
<1>5. ASSUME NEW prms \in PrmsSet, SigUpdateParams(prms) PROVE FilterRespected'
  BY <1>5 DEF SigUpdateParams, FilterRespected
<1>6. CASE UNCHANGED <<pc, m_prms, m_cur, leftAll, m_sigTlvs, capacity, sigSize, epoch>>
  BY <1>6 DEF FilterRespected
<1> QED
  BY <1>1, <1>2, <1>3, <1>4, <1>5, <1>6 DEF SigStep, SigTlv

(***************************************************************************)
(* The filter of the application and the implementation it names hold for  *)
(* every TLV in the vector while parseSig() runs.                          *)
(***************************************************************************)
THEOREM FilterHolds == SigSpec => []FilterRespected
<1>1. SigInit => FilterRespected
  BY DEF SigInit, FilterRespected
<1> QED
  BY <1>1, FilterStep, LoopTypeCorrect, SigNextIsSigStep, PTL DEF SigSpec

(* An element that is not built anew keeps its structure. *)
LEMMA KeptData ==
  ASSUME NEW t \in SigTlvs, LoopTypeOK, m_sigTlvs' = Insert(m_sigTlvs, NewElem(t)),
         Len(m_sigTlvs) # capacity
  PROVE  \A i \in 1 .. Len(m_sigTlvs) : m_sigTlvs'[i].data = m_sigTlvs[i].data
<1>1. m_sigTlvs \in Seq(SigElem) /\ NewElem(t) \in SigElem
  BY NewElemType DEF LoopTypeOK
<1>2. m_sigTlvs' = Append(m_sigTlvs, NewElem(t))
  BY DEF Insert
<1>3. \A i \in 1 .. Len(m_sigTlvs) : Append(m_sigTlvs, NewElem(t))[i] = m_sigTlvs[i]
  BY <1>1
<1> QED
  BY <1>2, <1>3

(* A step loses structures in the older half of the block only. *)
LEMMA LossStep == LoopTypeOK /\ LossInOlderHalf /\ SigStep => LossInOlderHalf'
<1> SUFFICES ASSUME LoopTypeOK, LossInOlderHalf, SigStep PROVE LossInOlderHalf'
  OBVIOUS
<1>1. ASSUME NEW size \in Nat, size >= sigBaseSize, BeginSig(size) PROVE LossInOlderHalf'
  <2>1. m_sigTlvs' = << >> /\ capacity' = capacity /\ capacity \in Nat
    BY <1>1 DEF BeginSig, LoopTypeOK
  <2>2. Len(m_sigTlvs') = 0 /\ DOMAIN m_sigTlvs' = {}
    BY <2>1
  <2> QED
    BY <2>1, <2>2 DEF LossInOlderHalf
<1>2. ASSUME NEW t \in SigTlvs, SigTlvFails(t) PROVE LossInOlderHalf'
  BY <1>2 DEF SigTlvFails, LossInOlderHalf
<1>3. ASSUME NEW t \in SigTlvs, SigTlvPasses(t) PROVE LossInOlderHalf'
  <2>1. CASE UNCHANGED <<m_sigTlvs, capacity>>
    BY <2>1 DEF LossInOlderHalf
  <2>2. CASE /\ m_sigTlvs' = Insert(m_sigTlvs, NewElem(t))
             /\ capacity' = GrownCapacity(m_sigTlvs)
    <3>1. NewElem(t).data # "null"
      BY NewElemType DEF LoopTypeOK
    <3>2. /\ Len(m_sigTlvs) \in Nat /\ Len(m_sigTlvs') = Len(m_sigTlvs) + 1
          /\ DOMAIN m_sigTlvs = 1 .. Len(m_sigTlvs)
          /\ DOMAIN m_sigTlvs' = 1 .. Len(m_sigTlvs) + 1
          /\ m_sigTlvs'[Len(m_sigTlvs) + 1] = NewElem(t)
      BY <2>2, KeptElements
    <3>3. Len(m_sigTlvs) \in Nat /\ capacity \in Nat /\ Len(m_sigTlvs) <= capacity
      BY <3>2 DEF LoopTypeOK, LossInOlderHalf
    <3>6. /\ Len(m_sigTlvs) < capacity \/ Len(m_sigTlvs) = capacity
          /\ Len(m_sigTlvs) < capacity => Len(m_sigTlvs) # capacity
      BY ONLY <3>3
    <3>4. CASE Len(m_sigTlvs) < capacity
      <4>1. capacity' = capacity
        BY <2>2, <3>4 DEF GrownCapacity
      <4>2. Len(m_sigTlvs) # capacity
        BY <3>4, <3>6
      <4>3. m_sigTlvs' = Insert(m_sigTlvs, NewElem(t))
        BY <2>2
      <4>4. \A i \in 1 .. Len(m_sigTlvs) : m_sigTlvs'[i].data = m_sigTlvs[i].data
        BY <4>2, <4>3, KeptData, Zenon
      <4>5. ASSUME NEW i \in 1 .. Len(m_sigTlvs) + 1, 2 * i > capacity
            PROVE  m_sigTlvs'[i].data # "null"
        <5>1. CASE i = Len(m_sigTlvs) + 1
          BY <3>1, <3>2, <5>1
        <5>2. CASE i # Len(m_sigTlvs) + 1
          <6>1. i \in 1 .. Len(m_sigTlvs)
            BY <3>2, <5>2
          <6>2. m_sigTlvs[i].data # "null"
            BY <3>2, <4>5, <6>1 DEF LossInOlderHalf
          <6> QED
            BY <4>4, <6>1, <6>2
        <5> QED
          BY <5>1, <5>2
      <4>6. Len(m_sigTlvs') <= capacity'
        BY <3>2, <3>3, <3>4, <4>1
      <4> QED
        BY <3>2, <4>1, <4>5, <4>6 DEF LossInOlderHalf
    <3>5. CASE Len(m_sigTlvs) = capacity
      <4>1. capacity' \in Nat /\ capacity' >= 2 * capacity /\ capacity' >= capacity + 1
        BY <2>2, <3>3, <3>5 DEF GrownCapacity
      <4>2. \A i \in 1 .. Len(m_sigTlvs) : ~(2 * i > capacity')
        BY <3>3, <3>5, <4>1
      <4>3. \A i \in 1 .. Len(m_sigTlvs) + 1 :
              2 * i > capacity' => m_sigTlvs'[i].data # "null"
        <5>1. \A i \in 1 .. Len(m_sigTlvs) + 1 :
                i \in 1 .. Len(m_sigTlvs) \/ i = Len(m_sigTlvs) + 1
          BY <3>2
        <5> QED
          BY <3>1, <3>2, <4>2, <5>1
      <4>4. Len(m_sigTlvs') <= capacity'
        BY <3>2, <3>3, <3>5, <4>1
      <4> QED
        BY <3>2, <4>3, <4>4 DEF LossInOlderHalf
    <3> QED
      BY <3>4, <3>5, <3>6
  <2> QED
    BY <1>3, <2>1, <2>2, PassesStep
<1>4. CASE EndSig
  BY <1>4 DEF EndSig, LossInOlderHalf
<1>5. ASSUME NEW prms \in PrmsSet, SigUpdateParams(prms) PROVE LossInOlderHalf'
  BY <1>5 DEF SigUpdateParams, LossInOlderHalf
<1>6. CASE UNCHANGED <<pc, m_prms, m_cur, leftAll, m_sigTlvs, capacity, sigSize, epoch>>
  BY <1>6 DEF LossInOlderHalf
<1> QED
  BY <1>1, <1>2, <1>3, <1>4, <1>5, <1>6 DEF SigStep, SigTlv

(***************************************************************************)
(* However many signaling messages were parsed and however the memory      *)
(* block grew over them, the structures lost are those of its older half.  *)
(***************************************************************************)
THEOREM LossStaysInOlderHalf == SigSpec => []LossInOlderHalf
<1>1. SigInit => LossInOlderHalf
  BY DEF SigInit, LossInOlderHalf
<1> QED
  BY <1>1, LossStep, LoopTypeCorrect, SigNextIsSigStep, PTL DEF SigSpec

(***************************************************************************)
(* Every round of the loop shortens what is left by at least the header of *)
(* a TLV, so parseSig() ends on every message.                             *)
(***************************************************************************)
THEOREM LoopMakesProgress == SigSpec => LoopConsumes
<1>1. LoopTypeOK /\ [SigNext]_sigVars =>
        [pc = "sig" /\ pc' = "sig" => leftAll' < leftAll]_sigVars
  <2> SUFFICES ASSUME LoopTypeOK, SigNext, pc = "sig", pc' = "sig"
               PROVE  leftAll' < leftAll
    OBVIOUS
  <2>1. PICK t \in SigTlvs : SigTlvPasses(t)
    BY DEF SigNext, SigTlv, BeginSig, SigTlvFails, EndSig, SigUpdateParams
  <2> QED
    BY <2>1, PassesStep
<1> QED
  BY <1>1, LoopTypeCorrect, PTL DEF SigSpec, LoopConsumes

-----------------------------------------------------------------------------
(***************************************************************************)
(* Requests and replies                                                    *)
(***************************************************************************)
(* A structure of the application is never taken for none. *)
LEMMA StructIsSome == \A d \in Structs : d # NoStruct /\ d.id \in Ids
  BY StructsAssumption, IdsAssumption DEF StructType, NoStruct

(* parse(), updateParams() and build() leave the pending request alone. *)
LEMMA RequestUntouched ==
  ASSUME \/ \E bufSize \in BufSizes : Build(bufSize)
         \/ \E w \in Wire : Parse(w)
         \/ ParseSigStep
         \/ \E prms \in PrmsSet : UpdateParams(prms)
         \/ UNCHANGED vars
  PROVE  UNCHANGED <<m_sendAction, m_dataSend, pend>>
  BY DEF Build, Parse, ParseTooSmall, ParseBadHeader, ParseSignaling, ParseNotReply,
         ParseBadId, ParseErrorStatus, ParseManagement, Parsed, ParseSigStep, UpdateParams,
         sendVars, msgVars, vars

-----------------------------------------------------------------------------
(***************************************************************************)
(* StructMatchesId is not inductive: a reply may replace m_tlv_id and a    *)
(* later one restore it.  What never changes is that the structure fits    *)
(* the request that setAction() accepted.                                  *)
(***************************************************************************)
RequestInv ==
  /\ m_sendAction = pend.action
  /\ m_dataSend # NoStruct =>
       m_sendAction # "GET" /\ m_dataSend.id = pend.id /\ pend.id \notin EmptyIds
  /\ m_sendAction # "GET" /\ pend.id \notin EmptyIds => m_dataSend # NoStruct

(* What setAction() left is kept as it is until the next setAction(). *)
LEMMA RequestFits == Spec => []RequestInv
<1>1. Init => RequestInv
  BY DEF Init, RequestInv
<1>2. RequestInv /\ [Next]_vars => RequestInv'
  <2> SUFFICES ASSUME RequestInv, [Next]_vars PROVE RequestInv'
    OBVIOUS
  <2>1. CASE Refuse
    BY <2>1 DEF Refuse, RequestInv
  <2>2. ASSUME NEW action \in SendActions, NEW id \in Ids, SetAction(action, id)
        PROVE  RequestInv'
    BY <2>1, <2>2 DEF SetAction, Accept, RequestInv
  <2>3. ASSUME NEW action \in SendActions, NEW d \in Structs, SetActionData(action, d)
        PROVE  RequestInv'
    <3>1. d.id \in Ids /\ (Size[d.id] # 0 <=> d.id \notin EmptyIds) /\ NullId \in EmptyIds
      BY StructsAssumption, TableAssumption DEF StructType
    <3> DEFINE data == IF d.id # NullId /\ action # "GET" /\ Size[d.id] # 0 THEN d ELSE NoStruct
    <3>2. /\ data # NoStruct => action # "GET" /\ data.id = d.id /\ d.id \notin EmptyIds
          /\ action # "GET" /\ d.id \notin EmptyIds => data # NoStruct
      BY <3>1, StructIsSome
    <3>3. Accept(action, d.id, data) \/ Refuse
      BY <2>3 DEF SetActionData
    <3> HIDE DEF data
    <3>4. CASE Accept(action, d.id, data)
      BY <3>2, <3>4 DEF Accept, RequestInv
    <3> QED
      BY <2>1, <3>3, <3>4
  <2>4. CASE UNCHANGED <<m_sendAction, m_dataSend, pend>>
    BY <2>4 DEF RequestInv
  <2> QED
    BY <2>2, <2>3, <2>4, RequestUntouched DEF Next
<1> QED
  BY <1>1, <1>2, PTL DEF Spec

(***************************************************************************)
(* build() never casts a structure to the type of another id, as long as   *)
(* the id is that of the request, and always has one where it needs one.   *)
(***************************************************************************)
THEOREM NoForeignStruct == Spec => []StructMatchesId
<1>1. RequestInv => StructMatchesId
  BY DEF RequestInv, StructMatchesId
<1> QED
  BY <1>1, RequestFits, PTL

-----------------------------------------------------------------------------
(* What the checks on the header leave of a management message. *)
LEMMA ManagementSize ==
  ASSUME NEW w \in Wire, IsManagement(w)
  PROVE  w.size \in Nat /\ w.size >= mngMsgSize + tlvSize
  BY WireAssumption DEF IsManagement, HeaderError, WireType, mngMsgSize, tlvSize

(* The octets a management reply is looked at are octets it has. *)
LEMMA FieldInside ==
  ASSUME NEW w \in Wire, w.size >= FieldAt(w),
         NEW read \in BOOLEAN, read => w.size - FieldAt(w) >= Left(w)
  PROVE  (IF read THEN FieldAt(w) + Least(w.need, Left(w)) ELSE FieldAt(w)) <= w.size
  BY WireAssumption DEF FieldAt, Left, FixedPart, Least, WireType, mngMsgSize, tlvSize,
     lengthFieldMngBase, errTlvSize

(***************************************************************************)
(* On every exit of parse(), the octets it looked at were received, for    *)
(* every message and every lengthField.                                    *)
(***************************************************************************)
THEOREM NeverReadsBehind == Spec => []ReadsInsideMessage
<1>1. Init => ReadsInsideMessage
  BY DEF Init, ReadsInsideMessage
<1>2. ReadsInsideMessage /\ [Next]_vars => ReadsInsideMessage'
  <2> SUFFICES ASSUME ReadsInsideMessage, [Next]_vars PROVE ReadsInsideMessage'
    OBVIOUS
  <2>1. ASSUME call'.op # "parse" PROVE ReadsInsideMessage'
    BY <2>1 DEF ReadsInsideMessage
  <2>2. ASSUME NEW w \in Wire, Parse(w) PROVE ReadsInsideMessage'
    <3>1. call' = [op |-> "parse", n |-> 0, w |-> w] /\ w.size \in Nat
      BY <2>2, WireAssumption DEF Parse, ParseTooSmall, ParseBadHeader, ParseSignaling,
         ParseNotReply, ParseBadId, ParseErrorStatus, ParseManagement, Parsed, Called,
         WireType
    <3> SUFFICES touched' <= w.size
      BY <3>1 DEF ReadsInsideMessage
    <3>2. CASE ParseTooSmall(w) \/ ParseBadHeader(w) \/ ParseSignaling(w)
      BY <3>1, <3>2 DEF ParseTooSmall, ParseBadHeader, ParseSignaling, Parsed, sigBaseSize
    <3>3. CASE ParseNotReply(w)
      BY <3>3, ManagementSize DEF ParseNotReply, Parsed, mngMsgSize, tlvSize
    <3>4. CASE ParseBadId(w)
      <4>1. w.size >= mngMsgSize + tlvSize
        BY <3>4, ManagementSize DEF ParseBadId, IsReply
      <4>2. FieldAt(w) \in Nat
        BY DEF FieldAt, FixedPart, mngMsgSize, tlvSize, lengthFieldMngBase, errTlvSize
      <4> QED
        BY <3>1, <3>4, <4>1, <4>2 DEF ParseBadId, Parsed
    <3>5. ASSUME IdError(w) = "OK" PROVE w.size >= FieldAt(w)
      BY <3>1, <3>5 DEF IdError, FieldAt, FixedPart, mngMsgSize, tlvSize,
         lengthFieldMngBase, errTlvSize
    <3>6. CASE ParseErrorStatus(w)
      <4>1. DisplayRead(w) \in BOOLEAN /\ (DisplayRead(w) => w.size - FieldAt(w) >= Left(w))
        BY DEF DisplayRead
      <4> QED
        BY <3>5, <3>6, <4>1, FieldInside DEF ParseErrorStatus, Parsed
    <3>7. CASE ParseManagement(w)
      <4>1. DataFieldRead(w) \in BOOLEAN /\ (DataFieldRead(w) => w.size - FieldAt(w) >= Left(w))
        BY DEF DataFieldRead
      <4> QED
        BY <3>5, <3>7, <4>1, FieldInside DEF ParseManagement, Parsed
    <3> QED
      BY <2>2, <3>2, <3>3, <3>4, <3>6, <3>7 DEF Parse
  <2>3. CASE ParseSigStep \/ UNCHANGED vars
    BY <2>3 DEF ParseSigStep, vars, ReadsInsideMessage
  <2>4. ASSUME NEW action \in SendActions, NEW id \in Ids, SetAction(action, id)
        PROVE  call'.op # "parse"
    BY <2>4 DEF SetAction, Called
  <2>5. ASSUME NEW action \in SendActions, NEW d \in Structs, SetActionData(action, d)
        PROVE  call'.op # "parse"
    BY <2>5 DEF SetActionData, Called
  <2>6. ASSUME NEW bufSize \in BufSizes, Build(bufSize) PROVE call'.op # "parse"
    BY <2>6 DEF Build, Called
  <2>7. ASSUME NEW prms \in PrmsSet, UpdateParams(prms) PROVE call'.op # "parse"
    BY <2>7 DEF UpdateParams, Called
  <2> QED
    BY <2>1, <2>2, <2>3, <2>4, <2>5, <2>6, <2>7 DEF Next
<1> QED
  BY <1>1, <1>2, PTL DEF Spec
-----------------------------------------------------------------------------
(* build() never makes a dataField of negative size. *)
LEMMA BuildResultSize ==
  ASSUME TypeOK, NEW left \in Int, NEW r \in BuildResults(left)
  PROVE  r.n \in Nat
<1>1. \A d \in Structs : Encoded(d, left).n \in Nat
  BY StructsAssumption DEF Encoded, StructType, Even
<1>2. m_tlv_id \notin EmptyIds => GetPad \in Nat
  BY TableAssumption DEF TypeOK, GetPad, DataFieldSize, Even
<1>3. m_dataSend # NoStruct => m_dataSend \in Structs
  BY DEF TypeOK
<1> QED
  BY <1>1, <1>2, <1>3 DEF BuildResults

(* The values of the variables after each call. *)
LEMMA TypeStep == TypeOK /\ [Next]_vars => TypeOK'
<1> SUFFICES ASSUME TypeOK, [Next]_vars PROVE TypeOK'
  OBVIOUS
<1> USE DEF NoWire, Called
<1>1. ASSUME NEW action \in SendActions, NEW id \in Ids, SetAction(action, id) PROVE TypeOK'
  BY <1>1 DEF TypeOK, SetAction, Accept, Refuse
<1>2. ASSUME NEW action \in SendActions, NEW d \in Structs, SetActionData(action, d)
      PROVE  TypeOK'
  BY <1>2, StructIsSome DEF TypeOK, SetActionData, Accept, Refuse
<1>3. ASSUME NEW bufSize \in BufSizes, Build(bufSize) PROVE TypeOK'
  <2>1. m_msgLen' \in Nat
    <3>1. CASE bufSize < mngMsgBaseSize
      BY <1>3, <3>1 DEF TypeOK, Build
    <3>2. CASE ~(bufSize < mngMsgBaseSize)
      <4>1. PICK r \in BuildResults(bufSize - mngMsgBaseSize) :
              m_msgLen' = IF r.err = "OK" THEN mngMsgBaseSize + r.n ELSE m_msgLen
        BY <1>3, <3>2 DEF Build
      <4>2. bufSize - mngMsgBaseSize \in Int
        BY BufSizesAssumption DEF mngMsgBaseSize
      <4>3. r.n \in Nat
        BY <4>2, BuildResultSize
      <4> QED
        BY <4>1, <4>3 DEF TypeOK, mngMsgBaseSize
    <3> QED
      BY <3>1, <3>2
  <2> QED
    BY <1>3, <2>1 DEF TypeOK, Build, replyVars
<1>4. ASSUME NEW w \in Wire, Parse(w) PROVE TypeOK'
  <2>1. CASE ParseTooSmall(w) \/ ParseBadHeader(w)
    BY <1>4, <2>1 DEF TypeOK, ParseTooSmall, ParseBadHeader, Parsed, sendVars, replyVars
  <2>2. CASE ParseSignaling(w)
    BY <2>2 DEF TypeOK, ParseSignaling, BeginSig, sendVars, replyVars
  <2>3. CASE ParseNotReply(w)
    BY <2>3 DEF TypeOK, ParseNotReply, Parsed, sendVars
  <2>4. CASE ParseBadId(w)
    BY <2>4 DEF TypeOK, ParseBadId, IsReply, Parsed, sendVars
  <2>5. ASSUME IdError(w) = "OK" PROVE w.id \in Ids
    BY <2>5 DEF IdError, FindTlvId
  <2>6. CASE ParseErrorStatus(w)
    BY <2>5, <2>6 DEF TypeOK, ParseErrorStatus, IsReply, Parsed, sendVars
  <2>7. CASE ParseManagement(w)
    <3>1. m_dataGet' \in {NoData, WildData} \cup {Decoded(v) : v \in Wire}
      BY <2>7 DEF ParseManagement, DataGot, TypeOK
    <3> QED
      BY <2>5, <2>7, <3>1 DEF TypeOK, ParseManagement, IsReply, Parsed, sendVars
  <2> QED
    BY <1>4, <2>1, <2>2, <2>3, <2>4, <2>6, <2>7 DEF Parse
<1>5. CASE ParseSigStep
  BY <1>5 DEF TypeOK, ParseSigStep, SigTlv, SigTlvFails, SigTlvPasses, EndSig, msgVars
<1>6. ASSUME NEW prms \in PrmsSet, UpdateParams(prms) PROVE TypeOK'
  BY <1>6 DEF TypeOK, UpdateParams, SigUpdateParams, msgVars
<1>7. CASE UNCHANGED vars
  BY <1>7 DEF TypeOK, vars, sigVars, msgVars
<1> QED
  BY <1>1, <1>2, <1>3, <1>4, <1>5, <1>6, <1>7 DEF Next

(* The values of the variables of a Message, whatever is called and received. *)
THEOREM MessageTypeCorrect == Spec => []TypeOK
<1>1. Init => TypeOK
  BY TableAssumption DEF Init, SigInit, TypeOK, SendActions, ReplyActions
<1> QED
  BY <1>1, TypeStep, PTL DEF Spec
-----------------------------------------------------------------------------
(* What an accepted reply has gone through. *)
LEMMA AcceptedWasChecked ==
  ASSUME NEW w \in Wire, Parse(w), pc' = "idle", ret' \in {"OK", "MSG"}
  PROVE  /\ CheckReplyAction(w.id, w.action) /\ FindTlvId(w.id)
         /\ w.action \in ReplyActions
         /\ m_type' = "Management" /\ m_tlv_id' = w.id /\ m_replyAction' = w.action
         /\ UNCHANGED m_prms
         /\ ret' = "MSG" => m_mngType' = "MANAGEMENT_ERROR_STATUS" /\ m_errorId' = w.errId
<1>1. ~ParseTooSmall(w) /\ ~ParseSignaling(w) /\ ~ParseNotReply(w)
  BY DEF ParseTooSmall, ParseSignaling, ParseNotReply, BeginSig, Parsed
<1>2. ~ParseBadHeader(w)
  <2>1. HeaderError(w) \in {"OK", "HEADER", "TOO_SMALL"}
    BY DEF HeaderError
  <2> QED
    BY <2>1 DEF ParseBadHeader, Parsed
<1>3. ~ParseBadId(w)
  <2>1. IdError(w) \in {"OK", "INVALID_ID", "TOO_SMALL"}
    BY DEF IdError
  <2> QED
    BY <2>1 DEF ParseBadId, Parsed
<1>4. CASE ParseErrorStatus(w)
  <2>1. ErrorStatusError(w) = "MSG" /\ ret' = "MSG"
    BY <1>4 DEF ParseErrorStatus, Parsed, ErrorStatusError
  <2>2. CheckReplyAction(w.id, w.action)
    BY <2>1 DEF ErrorStatusError
  <2> QED
    BY <1>4, <2>1, <2>2 DEF ParseErrorStatus, IsReply, IsManagement, IdError, Parsed
<1>5. CASE ParseManagement(w)
  <2>1. ManagementError(w) \in DecodeErrs \cup {"ACTION"}
    BY WireAssumption DEF ManagementError, WireType, DecodeErrs
  <2>2. ManagementError(w) = "OK" /\ ret' = "OK"
    BY <1>5, <2>1 DEF ParseManagement, Parsed, DecodeErrs
  <2>3. CheckReplyAction(w.id, w.action)
    BY <2>2 DEF ManagementError
  <2> QED
    BY <1>5, <2>2, <2>3 DEF ParseManagement, IsReply, IsManagement, IdError, Parsed
<1> QED
  BY <1>1, <1>2, <1>3, <1>4, <1>5 DEF Parse

(***************************************************************************)
(* parse() accepts no reply whose id is unknown under the implementation   *)
(* in use or whose action answers none that the id allows.                 *)
(***************************************************************************)
THEOREM OnlyLegalReplies == Spec => []AcceptedReplyIsLegal
<1> USE DEF ParseGave
<1>1. Init => AcceptedReplyIsLegal
  BY DEF Init, AcceptedReplyIsLegal
<1>2. AcceptedReplyIsLegal /\ [Next]_vars => AcceptedReplyIsLegal'
  <2> SUFFICES ASSUME AcceptedReplyIsLegal, [Next]_vars PROVE AcceptedReplyIsLegal'
    OBVIOUS
  <2>1. ASSUME call'.op # "parse" PROVE AcceptedReplyIsLegal'
    BY <2>1 DEF AcceptedReplyIsLegal
  <2>2. ASSUME NEW w \in Wire, Parse(w) PROVE AcceptedReplyIsLegal'
    <3> SUFFICES ASSUME pc' = "idle", ret' \in {"OK", "MSG"} PROVE AcceptedReplyIsLegal'
      BY DEF AcceptedReplyIsLegal
    <3>1. call'.w = w
      BY <2>2 DEF Parse, ParseTooSmall, ParseBadHeader, ParseSignaling, ParseNotReply,
         ParseBadId, ParseErrorStatus, ParseManagement, Parsed, Called
    <3> QED
      BY <2>2, <3>1, AcceptedWasChecked
         DEF AcceptedReplyIsLegal, CheckReplyAction, FindTlvId, ReplyActions
  <2>3. CASE ParseSigStep
    <3>1. \A t \in SigTlvs : TlvError(t) \in DecodeErrs
      BY SigTlvsAssumption DEF TlvError, DecodeErrs
    <3>2. pc' = "sig" \/ ret' \notin {"OK", "MSG"}
      BY <2>3, <3>1 DEF ParseSigStep, SigTlv, SigTlvFails, SigTlvPasses, EndSig, DecodeErrs
    <3> QED
      BY <3>2 DEF AcceptedReplyIsLegal
  <2>4. ASSUME NEW action \in SendActions, NEW id \in Ids, SetAction(action, id)
        PROVE  call'.op # "parse"
    BY <2>4 DEF SetAction, Called
  <2>5. ASSUME NEW action \in SendActions, NEW d \in Structs, SetActionData(action, d)
        PROVE  call'.op # "parse"
    BY <2>5 DEF SetActionData, Called
  <2>6. ASSUME NEW bufSize \in BufSizes, Build(bufSize) PROVE call'.op # "parse"
    BY <2>6 DEF Build, Called
  <2>7. ASSUME NEW prms \in PrmsSet, UpdateParams(prms) PROVE call'.op # "parse"
    BY <2>7 DEF UpdateParams, Called
  <2>8. CASE UNCHANGED vars
    BY <2>8 DEF vars, sigVars, msgVars, AcceptedReplyIsLegal
  <2> QED
    BY <2>1, <2>2, <2>3, <2>4, <2>5, <2>6, <2>7, <2>8 DEF Next
<1> QED
  BY <1>1, <1>2, PTL DEF Spec

(***************************************************************************)
(* No call but a parse() that accepts a reply with a dataField gives up    *)
(* the dataField of an earlier reply.                                      *)
(***************************************************************************)
THEOREM DataKeptOnError == Spec => RejectedKeepsData
<1>1. ASSUME [Next]_vars
      PROVE  [m_dataGet' # m_dataGet =>
                ret' = "OK" /\ call'.op = "parse" /\ call'.w.length > lengthFieldMngBase]_vars
  <2> SUFFICES ASSUME Next, m_dataGet' # m_dataGet
               PROVE  ret' = "OK" /\ call'.op = "parse" /\ call'.w.length > lengthFieldMngBase
    BY <1>1
  <2>1. PICK w \in Wire : ParseManagement(w)
    BY DEF Next, SetAction, SetActionData, Build, UpdateParams, ParseSigStep, Parse,
       ParseTooSmall, ParseBadHeader, ParseSignaling, ParseNotReply, ParseBadId,
       ParseErrorStatus, replyVars, msgVars
  <2>2. ManagementError(w) = "OK" /\ Left(w) # 0
    BY <2>1 DEF ParseManagement, DataGot
  <2>3. ~LengthError(w)
    BY <2>2 DEF ManagementError
  <2>4. w.length > lengthFieldMngBase
    BY <2>1, <2>2, <2>3, WireAssumption
       DEF ParseManagement, IsReply, LengthError, Left, FixedPart, WireType, lengthFieldMngBase
  <2> QED
    BY <2>1, <2>2, <2>4 DEF ParseManagement, Parsed, Called
<1> QED
  BY <1>1, PTL DEF Spec, RejectedKeepsData
-----------------------------------------------------------------------------
(***************************************************************************)
(* Only parse() leaves the object inside the loop of parseSig(), so that   *)
(* the result of a build() is still there when the next call is made.      *)
(***************************************************************************)
PlanInv == PlannedLenIsExact /\ (pc = "sig" => call.op = "parse")

(* The length of a request is even and not shorter than its fixed part. *)
LEMMA EvenIsEven ==
  ASSUME NEW n \in Nat
  PROVE  Even(n) \in Nat /\ (mngMsgBaseSize + Even(n)) % 2 = 0
  BY DEF Even, mngMsgBaseSize

(* The planned length of a pending request, split into its two parts. *)
LEMMA PlanHasBase ==
  ASSUME TypeOK, RequestInv, m_tlv_id = pend.id
  PROVE  PlanedLen \in Nat /\ PlanedLen >= mngMsgBaseSize
<1>1. CASE m_sendAction = "GET" \/ m_dataSend = NoStruct
  <2>1. Size[m_tlv_id] \in Nat \cup {-2} /\ EmptySize[m_tlv_id] \in Nat
    BY TableAssumption DEF TypeOK
  <2>2. m_sendAction # "GET" => Size[m_tlv_id] = 0
    BY <1>1, TableAssumption DEF TypeOK, RequestInv
  <2> QED
    BY <1>1, <2>1, <2>2 DEF PlanedLen, DataFieldSize, Even, mngMsgBaseSize
<1>2. CASE m_sendAction # "GET" /\ m_dataSend # NoStruct
  <2>1. m_dataSend.len \in Nat /\ Size[m_tlv_id] \in {-2, m_dataSend.len}
    BY <1>2, StructsAssumption, TableAssumption DEF TypeOK, RequestInv, StructType
  <2> QED
    BY <1>2, <2>1 DEF PlanedLen, DataFieldSize, Even, mngMsgBaseSize
<1> QED
  BY <1>1, <1>2

(* A request that build() accepts has the planned length. *)
LEMMA ResultAsPlanned ==
  ASSUME TypeOK, RequestInv, m_tlv_id = pend.id,
         NEW left \in Nat, NEW r \in BuildResults(left)
  PROVE  /\ r.err = "OK" => /\ mngMsgBaseSize + r.n = PlanedLen /\ r.n <= left
                            /\ (mngMsgBaseSize + r.n) % 2 = 0 /\ r.n \in Nat
         /\ PlanedLen <= mngMsgBaseSize + left /\ m_dataSend.badAt = NoBad => r.err = "OK"
<1> USE DEF mngMsgBaseSize
<1>1. CASE m_sendAction # "GET" /\ m_dataSend # NoStruct
  <2>1. /\ m_dataSend \in Structs /\ m_dataSend.id = m_tlv_id /\ m_tlv_id \notin EmptyIds
        /\ m_dataSend.len \in Nat /\ Size[m_tlv_id] \in {-2, m_dataSend.len}
    BY <1>1, StructsAssumption, TableAssumption DEF TypeOK, RequestInv, StructType
  <2>2. r = Encoded(m_dataSend, left)
    BY <1>1, <2>1 DEF BuildResults
  <2>3. PlanedLen = mngMsgBaseSize + Even(m_dataSend.len)
    BY <1>1, <2>1 DEF PlanedLen, DataFieldSize
  <2>4. Even(m_dataSend.len) \in Nat /\ (mngMsgBaseSize + Even(m_dataSend.len)) % 2 = 0
    BY <2>1, EvenIsEven
  <2> QED
    BY <2>2, <2>3, <2>4 DEF Encoded
<1>2. CASE m_sendAction = "GET" /\ ~m_prms.useZeroGet /\ m_tlv_id \notin EmptyIds
  <2> DEFINE field == IF Size[m_tlv_id] = -2 THEN EmptySize[m_tlv_id] ELSE Size[m_tlv_id]
  <2>1. field \in Nat
    BY TableAssumption DEF TypeOK
  <2>2. GetPad = Even(field)
    BY DEF GetPad, DataFieldSize
  <2>3. PlanedLen = mngMsgBaseSize + Even(field)
    BY <1>2, <2>1, TableAssumption DEF PlanedLen, DataFieldSize, TypeOK
  <2>4. r = IF GetPad > left THEN [err |-> "TOO_SMALL", n |-> 0]
            ELSE [err |-> "OK", n |-> GetPad]
    BY <1>2 DEF BuildResults
  <2>5. Even(field) \in Nat /\ (mngMsgBaseSize + Even(field)) % 2 = 0
    BY <2>1, EvenIsEven
  <2> HIDE DEF field
  <2> QED
    BY <2>2, <2>3, <2>4, <2>5
<1>3. CASE /\ ~(m_sendAction # "GET" /\ m_dataSend # NoStruct)
           /\ ~(m_sendAction = "GET" /\ ~m_prms.useZeroGet /\ m_tlv_id \notin EmptyIds)
  <2>1. r = [err |-> "OK", n |-> 0]
    BY <1>3 DEF BuildResults
  <2>2. ~(m_sendAction = "GET" /\ m_prms.useZeroGet) => Size[m_tlv_id] = 0
    BY <1>3, TableAssumption DEF TypeOK, RequestInv
  <2>3. PlanedLen = mngMsgBaseSize
    BY <2>2 DEF PlanedLen, Even
  <2> QED
    BY <2>1, <2>3
<1> QED
  BY <1>1, <1>2, <1>3

(* build() on its own, in a buffer of any size. *)
LEMMA BuildAsPlanned ==
  ASSUME TypeOK, RequestInv, NEW bufSize \in BufSizes, Build(bufSize)
  PROVE  PlannedLenIsExact'
<1> SUFFICES ASSUME m_tlv_id = pend.id PROVE PlannedLenIsExact'
  BY DEF PlannedLenIsExact, Build, replyVars
<1>1. /\ UNCHANGED <<m_sendAction, m_dataSend, m_tlv_id, m_prms, pend>>
      /\ call' = [op |-> "build", n |-> bufSize, w |-> NoWire]
  BY DEF Build, replyVars, Called
<1>2. PlanedLen' = PlanedLen
  BY <1>1 DEF PlanedLen, DataFieldSize
<1>3. bufSize \in Nat
  BY BufSizesAssumption
<1>4. CASE bufSize < mngMsgBaseSize
  <2>1. ret' = "TOO_SMALL"
    BY <1>4 DEF Build
  <2>2. ~(PlanedLen <= bufSize /\ m_dataSend.badAt = NoBad)
    BY <1>3, <1>4, PlanHasBase DEF mngMsgBaseSize
  <2> QED
    BY <1>1, <1>2, <2>1, <2>2 DEF PlannedLenIsExact
<1>5. CASE ~(bufSize < mngMsgBaseSize)
  <2>1. PICK r \in BuildResults(bufSize - mngMsgBaseSize) :
          /\ ret' = r.err
          /\ m_msgLen' = IF r.err = "OK" THEN mngMsgBaseSize + r.n ELSE m_msgLen
    BY <1>5 DEF Build
  <2>2. bufSize - mngMsgBaseSize \in Nat
    BY <1>3, <1>5 DEF mngMsgBaseSize
  <2>3. /\ r.err = "OK" => /\ mngMsgBaseSize + r.n = PlanedLen
                           /\ r.n <= bufSize - mngMsgBaseSize
                           /\ (mngMsgBaseSize + r.n) % 2 = 0 /\ r.n \in Nat
        /\ PlanedLen <= mngMsgBaseSize + (bufSize - mngMsgBaseSize)
              /\ m_dataSend.badAt = NoBad => r.err = "OK"
    BY <2>2, ResultAsPlanned
  <2> QED
    BY <1>1, <1>2, <1>3, <2>1, <2>3 DEF PlannedLenIsExact, mngMsgBaseSize
<1> QED
  BY <1>4, <1>5
(***************************************************************************)
(* An application that allocates getMsgPlanedLen() octets for a request    *)
(* gets a message of just that length, for every row of the table of ids   *)
(* and every structure.                                                    *)
(***************************************************************************)
THEOREM PlanIsExact == Spec => []PlannedLenIsExact
<1>1. Init => PlanInv
  BY DEF Init, SigInit, PlanInv, PlannedLenIsExact
<1>2. TypeOK /\ RequestInv /\ PlanInv /\ [Next]_vars => PlanInv'
  <2> SUFFICES ASSUME TypeOK, RequestInv, PlanInv, [Next]_vars PROVE PlanInv'
    OBVIOUS
  <2>1. ASSUME NEW bufSize \in BufSizes, Build(bufSize) PROVE PlanInv'
    BY <2>1, BuildAsPlanned DEF PlanInv, Build
  <2>2. ASSUME call'.op # "build", pc' = "sig" => call'.op = "parse" PROVE PlanInv'
    BY <2>2 DEF PlanInv, PlannedLenIsExact
  <2>3. ASSUME NEW action \in SendActions, NEW id \in Ids, SetAction(action, id)
        PROVE  PlanInv'
    BY <2>2, <2>3 DEF SetAction, Called
  <2>4. ASSUME NEW action \in SendActions, NEW d \in Structs, SetActionData(action, d)
        PROVE  PlanInv'
    BY <2>2, <2>4 DEF SetActionData, Called
  <2>5. ASSUME NEW w \in Wire, Parse(w) PROVE PlanInv'
    <3>1. call'.op = "parse"
      BY <2>5 DEF Parse, ParseTooSmall, ParseBadHeader, ParseSignaling, ParseNotReply,
         ParseBadId, ParseErrorStatus, ParseManagement, Parsed, Called
    <3> QED
      BY <2>2, <3>1
  <2>6. CASE ParseSigStep
    <3>1. pc = "sig" /\ call' = call
      BY <2>6 DEF ParseSigStep, SigTlv, SigTlvFails, SigTlvPasses, EndSig
    <3> QED
      BY <2>2, <3>1 DEF PlanInv
  <2>7. ASSUME NEW prms \in PrmsSet, UpdateParams(prms) PROVE PlanInv'
    BY <2>2, <2>7 DEF UpdateParams, SigUpdateParams, Called
  <2>8. CASE UNCHANGED vars
    BY <2>8 DEF vars, sigVars, msgVars, PlanInv, PlannedLenIsExact, PlanedLen, DataFieldSize
  <2> QED
    BY <2>1, <2>3, <2>4, <2>5, <2>6, <2>7, <2>8 DEF Next
<1>3. PlanInv => PlannedLenIsExact
  BY DEF PlanInv
<1> QED
  BY <1>1, <1>2, <1>3, MessageTypeCorrect, RequestFits, PTL DEF Spec
-----------------------------------------------------------------------------
(* What parse() does to the state of the loop, on each of its exits. *)
LEMMA ParseIsSigStep ==
  ASSUME NEW w \in Wire, Parse(w) PROVE SigStep
<1>1. w.size \in Nat
  BY WireAssumption DEF WireType
<1>2. CASE ParseSignaling(w)
  BY <1>1, <1>2 DEF ParseSignaling, SigStep
<1>3. ASSUME NEW err, NEW octets, Parsed(w, err, octets) PROVE SigStep
  BY <1>3 DEF Parsed, loopVars, SigStep
<1> QED
  BY <1>2, <1>3 DEF Parse, ParseTooSmall, ParseBadHeader, ParseNotReply, ParseBadId,
     ParseErrorStatus, ParseManagement

(* Every call of the class does to the loop what parseSig() may do, or nothing. *)
LEMMA NextIsSigStep == [Next]_vars => SigStep
<1> SUFFICES ASSUME [Next]_vars PROVE SigStep
  OBVIOUS
<1>1. ASSUME NEW action \in SendActions, NEW id \in Ids, SetAction(action, id) PROVE SigStep
  BY <1>1 DEF SetAction, loopVars, SigStep
<1>2. ASSUME NEW action \in SendActions, NEW d \in Structs, SetActionData(action, d)
      PROVE  SigStep
  BY <1>2 DEF SetActionData, loopVars, SigStep
<1>3. ASSUME NEW bufSize \in BufSizes, Build(bufSize) PROVE SigStep
  BY <1>3 DEF Build, loopVars, SigStep
<1>4. CASE ParseSigStep
  BY <1>4 DEF ParseSigStep, SigStep
<1>5. ASSUME NEW prms \in PrmsSet, UpdateParams(prms) PROVE SigStep
  BY <1>5 DEF UpdateParams, SigStep
<1>6. CASE UNCHANGED vars
  BY <1>6 DEF vars, sigVars, SigStep
<1> QED
  BY <1>1, <1>2, <1>3, <1>4, <1>5, <1>6, ParseIsSigStep DEF Next

(***************************************************************************)
(* What holds of the vector of TLVs while an application calls whatever it *)
(* likes between two signaling messages.                                   *)
(***************************************************************************)
VectorIsSound == OnlyThisMessage /\ FilterRespected /\ LossInOlderHalf

(***************************************************************************)
(* The results about parseSig() carry over to the class: no setAction(),   *)
(* build(), updateParams() or parse() of another message, in any order,    *)
(* leaves TLVs of an earlier message in the vector, lets an unwanted one   *)
(* in, or loses a structure of the newer half of the block.                *)
(***************************************************************************)
THEOREM VectorSoundInMessage == Spec => []VectorIsSound
<1>1. Init => LoopTypeOK /\ VectorIsSound
  <2> SUFFICES ASSUME SigInit PROVE LoopTypeOK /\ VectorIsSound
    BY DEF Init
  <2>1. LoopTypeOK
    BY PrmsAssumption DEF SigInit, LoopTypeOK, sigBaseSize
  <2> QED
    BY <2>1 DEF SigInit, VectorIsSound, OnlyThisMessage, FilterRespected, LossInOlderHalf,
       sigBaseSize, tlvSize
<1>2. LoopTypeOK /\ VectorIsSound /\ [Next]_vars => (LoopTypeOK /\ VectorIsSound)'
  BY NextIsSigStep, LoopTypeStep, VectorStep, FilterStep, LossStep DEF VectorIsSound
<1> QED
  BY <1>1, <1>2, PTL DEF Spec

(***************************************************************************)
(* The message the loop walks is the one parse() was called with, from its *)
(* first TLV until the call returns, and the application asked for it.     *)
(***************************************************************************)
OnDemandInv ==
  /\ pc \in {"idle", "sig"}
  /\ pc = "sig" \/ (call.op = "parse" /\ ret = "SIG") =>
       /\ call.op = "parse"
       /\ m_prms.rcvSignaling /\ m_type = "Signaling" /\ sigSize = call.w.size

(* Only the loop ends with the result that stands for a signaling message. *)
LEMMA OtherResult ==
  ASSUME NEW w \in Wire, Parse(w), ~ParseSignaling(w)
  PROVE  pc = "idle" /\ pc' = "idle" /\ ret' # "SIG"
<1>1. ASSUME NEW err, err # "SIG", NEW octets, Parsed(w, err, octets)
      PROVE  pc = "idle" /\ pc' = "idle" /\ ret' # "SIG"
  BY <1>1 DEF Parsed
<1>2. HeaderError(w) # "SIG" /\ IdError(w) # "SIG" /\ ErrorStatusError(w) # "SIG"
  BY DEF HeaderError, IdError, ErrorStatusError
<1>3. ManagementError(w) # "SIG"
  BY WireAssumption DEF ManagementError, WireType, DecodeErrs
<1> QED
  BY <1>1, <1>2, <1>3 DEF Parse, ParseTooSmall, ParseBadHeader, ParseNotReply, ParseBadId,
     ParseErrorStatus, ParseManagement

(* Every call keeps the loop, its message and its result together. *)
LEMMA OnDemandStep == OnDemandInv /\ [Next]_vars => OnDemandInv'
<1> SUFFICES ASSUME OnDemandInv, [Next]_vars PROVE OnDemandInv'
  OBVIOUS
<1>1. CASE pc' = "idle" /\ (call'.op # "parse" \/ ret' # "SIG")
  BY <1>1 DEF OnDemandInv
<1>2. ASSUME NEW action \in SendActions, NEW id \in Ids, SetAction(action, id)
      PROVE  OnDemandInv'
  BY <1>1, <1>2 DEF SetAction, Called
<1>3. ASSUME NEW action \in SendActions, NEW d \in Structs, SetActionData(action, d)
      PROVE  OnDemandInv'
  BY <1>1, <1>3 DEF SetActionData, Called
<1>4. ASSUME NEW bufSize \in BufSizes, Build(bufSize) PROVE OnDemandInv'
  BY <1>1, <1>4 DEF Build, Called
<1>5. ASSUME NEW w \in Wire, Parse(w) PROVE OnDemandInv'
  <2>1. CASE ParseSignaling(w)
    <3>1. m_prms.rcvSignaling
      BY <2>1 DEF ParseSignaling, HeaderError
    <3> QED
      BY <2>1, <3>1 DEF ParseSignaling, BeginSig, Called, OnDemandInv
  <2>2. CASE ~ParseSignaling(w)
    BY <1>1, <1>5, <2>2, OtherResult
  <2> QED
    BY <2>1, <2>2
<1>6. CASE ParseSigStep
  BY <1>6 DEF ParseSigStep, SigTlv, SigTlvFails, SigTlvPasses, EndSig, msgVars, OnDemandInv
<1>7. ASSUME NEW prms \in PrmsSet, UpdateParams(prms) PROVE OnDemandInv'
  BY <1>1, <1>7 DEF UpdateParams, SigUpdateParams, Called
<1>8. CASE UNCHANGED vars
  BY <1>8 DEF vars, sigVars, msgVars, OnDemandInv
<1> QED
  BY <1>2, <1>3, <1>4, <1>5, <1>6, <1>7, <1>8 DEF Next

(***************************************************************************)
(* When parse() reports a signaling message, the application had asked for *)
(* such messages and the getters expose this very message, whatever was    *)
(* called or received before.                                              *)
(***************************************************************************)
THEOREM SignalingIsOnDemand == Spec => []SignalingOnDemand
<1>1. Init => OnDemandInv
  BY DEF Init, SigInit, OnDemandInv
<1>2. OnDemandInv /\ VectorIsSound => SignalingOnDemand
  BY DEF OnDemandInv, VectorIsSound, SignalingOnDemand, ParseGave
<1> QED
  BY <1>1, <1>2, OnDemandStep, VectorSoundInMessage, PTL DEF Spec
=============================================================================
