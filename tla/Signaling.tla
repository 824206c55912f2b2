----------------------------- MODULE Signaling -----------------------------
(***************************************************************************)
(* Message::parseSig() of msg.cpp: the loop that walks the TLVs of a       *)
(* received PTP signaling message and fills the vector m_sigTlvs.          *)
(*                                                                         *)
(* The loop is modelled one TLV per step, so that its invariants can be    *)
(* stated (and proved) for messages of any length.  No other call of the   *)
(* object interleaves with the loop: pc is "sig" while it runs.            *)
(*                                                                         *)
(* A TLV on the wire is abstracted to a record                             *)
(*   type   its tlvType                                                    *)
(*   len    its lengthField                                                *)
(*   id     the managementId, for a TLV of type MANAGEMENT                 *)
(*   err    what the decoding function of its type returns on its content  *)
(*   moved  how far that function moves the cursor when err is "OK"        *)
(***************************************************************************)
EXTENDS Integers, Sequences, FiniteSets

CONSTANTS
  Ids,          \* the management ids of ids.h
  LinuxptpIds,  \* those with A_USE_LINUXPTP
  EmptyIds,     \* those without a dataField (size 0, function NA)
  UnknownId,    \* a managementId that no line of ids.h has
  SigTlvs,      \* the TLVs that may arrive
  SigSizes,     \* the sizes of the signaling messages that may arrive
  PrmsSet       \* the MsgParams an application may choose

ASSUME IdsAssumption ==
  /\ LinuxptpIds \subseteq Ids
  /\ EmptyIds \subseteq Ids
  /\ UnknownId \notin Ids

sigBaseSize == 44   \* header and targetPortIdentity
tlvSize == 4        \* tlvType and lengthField
FloatExcess == 8    \* octets a Float64_t moves the cursor more than it compares

(* The types whose case of the switch runs a decoding function. *)
SigDecoded ==
  { "ORGANIZATION_EXTENSION", "ORGANIZATION_EXTENSION_PROPAGATE",
    "ORGANIZATION_EXTENSION_DO_NOT_PROPAGATE", "PATH_TRACE",
    "ALTERNATE_TIME_OFFSET_INDICATOR", "ENHANCED_ACCURACY_METRICS",
    "L1_SYNC", "PORT_COMMUNICATION_AVAILABILITY", "PROTOCOL_ADDRESS",
    "SLAVE_RX_SYNC_TIMING_DATA", "SLAVE_RX_SYNC_COMPUTED_DATA",
    "SLAVE_TX_EVENT_TIMESTAMPS", "CUMULATIVE_RATE_RATIO" }

(* Every type the model tells apart; "PAD" stands for the default case. *)
TlvTypes == SigDecoded \cup {"MANAGEMENT", "SLAVE_DELAY_TIMING_DATA_NP", "PAD"}

DecodeErrs == {"OK", "TOO_SMALL", "SIZE_MISS"}

ASSUME SigTlvsAssumption ==
  SigTlvs \subseteq [type : TlvTypes, len : Nat, id : Ids \cup {UnknownId},
                     err : DecodeErrs, moved : Nat]

ASSUME SigSizesAssumption == \A s \in SigSizes : s \in Nat /\ s >= sigBaseSize

ASSUME PrmsAssumption ==
  PrmsSet \subseteq
    [transportSpecific : Nat, implementSpecific : {"linuxptp", "unknownImplementation"},
     useZeroGet : BOOLEAN, rcvSignaling : BOOLEAN,
     filterSignaling : BOOLEAN, allowSigTlvs : SUBSET TlvTypes]

VARIABLES
  pc,         \* "idle", or "sig" inside the loop of parseSig()
  m_prms,     \* MsgParams of the object
  m_cur,      \* offset of the cursor in the receive buffer
  leftAll,    \* octets of the message the loop still has to read
  m_sigTlvs,  \* the vector of parsed TLVs
  capacity,   \* number of elements its memory block holds
  ret,        \* what the last call returned
  sigSize,    \* history: size of the signaling message being parsed
  epoch       \* history: flips with every signaling message

sigVars == <<pc, m_prms, m_cur, leftAll, m_sigTlvs, capacity, ret, sigSize, epoch>>

(***************************************************************************)
(* An element of m_sigTlvs.  data tells what its unique_ptr holds: a       *)
(* structure ("valid"), nothing ("null"), or a structure whose own         *)
(* management data is the uninitialised pointer mtlv ("wild").             *)
(***************************************************************************)
SigElem == [type : TlvTypes, id : Ids \cup {UnknownId},
            data : {"valid", "null", "wild"}, epoch : {0, 1}]

(* Mutant: linuxptp ids are known to every implementation. *)
FindAnyTlvId(id) == id \in Ids

(* findTlvId(): linuxptp ids are unknown to any other implementation. *)
FindTlvId(id) ==
  /\ id \in Ids
  /\ m_prms.implementSpecific = "linuxptp" \/ id \notin LinuxptpIds

(* The signaling filter of the user lets the TLV through. *)
PassesFilter(t) == m_prms.filterSignaling => t.type \in m_prms.allowSigTlvs

(* A management TLV with a known id and a dataField is decoded. *)
HasMngData(t) == FindTlvId(t.id) /\ t.len > 2

(* The switch reaches a decoding function that runs on this TLV. *)
Decodes(t) ==
  \/ t.type \in SigDecoded
  \/ t.type = "MANAGEMENT" /\ HasMngData(t) /\ t.id \notin EmptyIds
  \/ t.type = "SLAVE_DELAY_TIMING_DATA_NP" /\ m_prms.implementSpecific = "linuxptp"

(* The TLV leaves a structure behind, which is then put in the vector. *)
Yields(t) == Decodes(t) \/ (t.type = "MANAGEMENT" /\ HasMngData(t))

(* Mutant: the lengthField is not compared with what is left. *)
TlvErrorTrustsLength(t) ==
  IF ~PassesFilter(t) THEN "OK"
  ELSE IF t.type = "MANAGEMENT" /\ t.len < 2 THEN "TOO_SMALL"
  ELSE IF Decodes(t) THEN t.err
  ELSE "OK"

(* The loop leaves with an error on this TLV, or "OK" if it goes on. *)
TlvError(t) ==
  IF t.len > leftAll - tlvSize THEN "TOO_SMALL"
  ELSE IF ~PassesFilter(t) THEN "OK"
  ELSE IF t.type = "MANAGEMENT" /\ t.len < 2 THEN "TOO_SMALL"
  ELSE IF Decodes(t) THEN t.err
  ELSE "OK"

(* Mutant: a filtered TLV is skipped without moving the cursor over it. *)
AdvanceNotFiltered(t) == IF PassesFilter(t) THEN t.len ELSE 0

(***************************************************************************)
(* How far a TLV moves the cursor: over its lengthField, unless its        *)
(* function moved the cursor further than that ("if(m_left > 0)"), as that *)
(* of ENHANCED_ACCURACY_METRICS does with a field of 116 to 123 octets.    *)
(***************************************************************************)
Advance(t) ==
  LET used == IF t.type = "MANAGEMENT" THEN t.moved + 2 ELSE t.moved
  IN IF PassesFilter(t) /\ Decodes(t) /\ used > t.len THEN used ELSE t.len

(***************************************************************************)
(* vector::insert(end, rec) followed by the assignment of the new          *)
(* element's tlv.  Growing the vector builds its elements anew with the    *)
(* constructors of sigTlv, and those do not take the pointer over.         *)
(***************************************************************************)
Regrown(vec) == [i \in DOMAIN vec |-> [vec[i] EXCEPT !.data = "null"]]
(* Mutant: the structure is assigned before the element is inserted. *)
InsertAssigned(vec, e) == Append(vec, [e EXCEPT !.data = "null"])

Insert(vec, e) ==
  Append(IF Len(vec) = capacity THEN Regrown(vec) ELSE vec, e)
GrownCapacity(vec) ==
  IF Len(vec) < capacity THEN capacity
  ELSE IF capacity = 0 THEN 1 ELSE 2 * capacity

NewElem(t) ==
  [type |-> t.type, id |-> t.id, epoch |-> epoch,
   data |-> IF t.type = "MANAGEMENT" /\ t.id \in EmptyIds THEN "wild" ELSE "valid"]

-----------------------------------------------------------------------------
(* Mutant: the TLVs of the message before are not removed. *)
BeginSigKeeps(size) ==
  /\ pc = "idle"
  /\ pc' = "sig"
  /\ m_cur' = sigBaseSize
  /\ leftAll' = size - sigBaseSize
  /\ sigSize' = size
  /\ epoch' = 1 - epoch
  /\ UNCHANGED <<m_prms, capacity, ret, m_sigTlvs>>

(* parseSig() is entered with size octets, the cursor behind the header. *)
BeginSig(size) ==
  /\ pc = "idle"
  /\ pc' = "sig"
  /\ m_cur' = sigBaseSize
  /\ leftAll' = size - sigBaseSize
  /\ m_sigTlvs' = << >>
  /\ sigSize' = size
  /\ epoch' = 1 - epoch
  /\ UNCHANGED <<m_prms, capacity, ret>>

(* The next TLV makes parseSig() return an error; m_cur is dead after it. *)
SigTlvFails(t) ==
  /\ pc = "sig"
  /\ leftAll >= tlvSize
  /\ TlvError(t) # "OK"
  /\ ret' = TlvError(t)
  /\ pc' = "idle"
  /\ m_cur' = m_cur + tlvSize
  /\ leftAll' = leftAll - tlvSize - (IF t.len > leftAll - tlvSize THEN 0 ELSE t.len)
  /\ UNCHANGED <<m_prms, m_sigTlvs, capacity, sigSize, epoch>>

(* Mutant: the header of a TLV is not taken off what is left. *)
SigTlvPassesUncounted(t) ==
  /\ pc = "sig"
  /\ leftAll >= tlvSize
  /\ TlvError(t) = "OK"
  /\ m_cur' = m_cur + tlvSize + Advance(t)
  /\ leftAll' = leftAll - t.len
  /\ UNCHANGED <<pc, m_prms, ret, sigSize, epoch, m_sigTlvs, capacity>>

(* The next TLV is skipped, ignored, or decoded and kept. *)
SigTlvPasses(t) ==
  /\ pc = "sig"
  /\ leftAll >= tlvSize
  /\ TlvError(t) = "OK"
  /\ m_cur' = m_cur + tlvSize + Advance(t)
  /\ leftAll' = leftAll - tlvSize - t.len
  /\ IF PassesFilter(t) /\ Yields(t)
     THEN /\ m_sigTlvs' = Insert(m_sigTlvs, NewElem(t))
          /\ capacity' = GrownCapacity(m_sigTlvs)
     ELSE UNCHANGED <<m_sigTlvs, capacity>>
  /\ UNCHANGED <<pc, m_prms, ret, sigSize, epoch>>

(* Fewer octets than a TLV header are left: the message is complete. *)
EndSig ==
  /\ pc = "sig"
  /\ leftAll < tlvSize
  /\ pc' = "idle"
  /\ ret' = "SIG"
  /\ UNCHANGED <<m_prms, m_cur, leftAll, m_sigTlvs, capacity, sigSize, epoch>>

SigTlv == \E t \in SigTlvs : SigTlvFails(t) \/ SigTlvPasses(t)

(* updateParams(): all or nothing. *)
SigUpdateParams(prms) ==
  /\ pc = "idle"
  /\ m_prms' = IF prms.transportSpecific > 15 THEN m_prms ELSE prms
  /\ ret' = IF prms.transportSpecific > 15 THEN "false" ELSE "true"
  /\ UNCHANGED <<pc, m_cur, leftAll, m_sigTlvs, capacity, sigSize, epoch>>

SigInit ==
  /\ pc = "idle"
  /\ m_prms \in {p \in PrmsSet : p.transportSpecific <= 15}
  /\ m_cur = 0 /\ leftAll = 0
  /\ m_sigTlvs = << >> /\ capacity = 0
  /\ ret = "none" /\ sigSize = sigBaseSize /\ epoch = 0

SigNext ==
  \/ \E size \in SigSizes : BeginSig(size)
  \/ SigTlv
  \/ EndSig
  \/ \E prms \in PrmsSet : SigUpdateParams(prms)

SigSpec == SigInit /\ [][SigNext]_sigVars

-----------------------------------------------------------------------------
(* The values the variables range over. *)
SigTypeOK ==
  /\ pc \in {"idle", "sig"}
  /\ m_prms \in PrmsSet
  /\ m_cur \in Nat /\ leftAll \in Nat /\ capacity \in Nat
  /\ m_sigTlvs \in Seq(SigElem)
  /\ sigSize \in Nat /\ sigSize >= sigBaseSize
  /\ epoch \in {0, 1}
  /\ ret \in {"none", "true", "false", "SIG"} \cup DecodeErrs

(***************************************************************************)
(* How far decoding functions move the cursor: never behind the field they *)
(* were given, but for the metrics, whose last Float64_t moves eight       *)
(* octets more than it found there (msg.cpp:1142).                         *)
(***************************************************************************)
MovesAsFar ==
  \A t \in SigTlvs : t.err = "OK" =>
    CASE t.type = "MANAGEMENT" -> t.moved <= t.len - 2
      [] t.type = "ENHANCED_ACCURACY_METRICS" -> t.moved <= t.len + FloatExcess
      [] OTHER -> t.moved <= t.len

(* The elements of the vector that are metrics. *)
MetricsOf(vec) == {i \in DOMAIN vec : vec[i].type = "ENHANCED_ACCURACY_METRICS"}

(***************************************************************************)
(* The cursor and the count of what is left describe the same octets: the  *)
(* next TLV header is read where the previous TLV ended, inside the        *)
(* received message (msg.cpp:492-500 against 558).  Only metrics that were *)
(* accepted take the cursor out of step, each by eight octets at most, and *)
(* the loop then reads headers that far behind the TLVs.                   *)
(***************************************************************************)
CursorInStep ==
  pc = "sig" =>
    m_cur + leftAll \in
      sigSize .. sigSize + FloatExcess * Cardinality(MetricsOf(m_sigTlvs))

(***************************************************************************)
(* What the getters expose comes from the last signaling message only      *)
(* (m_sigTlvs.clear(), msg.cpp:491), and holds no more TLVs than there     *)
(* are TLV headers in the octets consumed.                                 *)
(***************************************************************************)
OnlyThisMessage ==
  /\ \A i \in DOMAIN m_sigTlvs : m_sigTlvs[i].epoch = epoch
  /\ tlvSize * Len(m_sigTlvs) + leftAll <= sigSize - sigBaseSize

(***************************************************************************)
(* While a message is parsed, no TLV the application filtered out, and     *)
(* none of the linuxptp ones under another implementation, gets into the   *)
(* vector, whatever was parsed before with other parameters.               *)
(***************************************************************************)
FilterRespected ==
  pc = "sig" =>
    \A i \in DOMAIN m_sigTlvs :
      LET e == m_sigTlvs[i] IN
      /\ m_prms.filterSignaling => e.type \in m_prms.allowSigTlvs
      /\ m_prms.implementSpecific # "linuxptp" =>
           /\ e.type # "SLAVE_DELAY_TIMING_DATA_NP"
           /\ e.type = "MANAGEMENT" => e.id \notin LinuxptpIds

(***************************************************************************)
(* What the constructors of sigTlv lose when the vector grows              *)
(* (msg.h:461-466) is in the older half of its memory block: whatever the  *)
(* messages parsed before left of that block, no TLV in the newer half is  *)
(* without its structure (msg.cpp:562-563).                                *)
(***************************************************************************)
LossInOlderHalf ==
  /\ Len(m_sigTlvs) <= capacity
  /\ \A i \in DOMAIN m_sigTlvs : 2 * i > capacity => m_sigTlvs[i].data # "null"

(* Each round of the loop consumes octets, so the loop ends. *)
LoopConsumes == [][pc = "sig" /\ pc' = "sig" => leftAll' < leftAll]_sigVars

(***************************************************************************)
(* getSigTlv() and traversSigTlvs() are to hand out each TLV of the last   *)
(* signaling message (msg.h:938): none of them lost its structure.         *)
(***************************************************************************)
EveryTlvHasData ==
  pc = "idle" /\ ret = "SIG" => \A i \in DOMAIN m_sigTlvs : m_sigTlvs[i].data # "null"
=============================================================================
