------------------------------ MODULE Message ------------------------------
(***************************************************************************)
(* The class Message of msg.cpp: one object that both builds the requests  *)
(* of an application and parses the replies of the PTP clocks.             *)
(*                                                                         *)
(* Every public call that changes the object is one action, except that    *)
(* parsing a signaling message takes one step per TLV (Signaling).  Sizes  *)
(* are the real ones, in octets.                                           *)
(*                                                                         *)
(* A received message is abstracted to a record                            *)
(*   type, ctl    messageType, and the class of controlField               *)
(*   hdrOk        versionPTP and logMessageInterval are the expected ones  *)
(*   size         octets received                                          *)
(*   action, tlvType, length, id   of its management TLV (length is the    *)
(*                lengthField)                                             *)
(*   errId, display   of a MANAGEMENT_ERROR_STATUS TLV; display is NoText  *)
(*                when the TLV ends behind its fixed part                  *)
(*   need, err    octets the decoding function (or the PTPText) asks for,  *)
(*                and what it returns when it gets them                    *)
(*   val          the content of the dataField                             *)
(***************************************************************************)
EXTENDS Signaling

CONSTANTS
  NullId,     \* NULL_PTP_MANAGEMENT, which is FIRST_MNG_ID
  Allowed,    \* actions allowed per id: the A_GET, A_SET, A_COMMAND bits
  Size,       \* dataField size per id: 0, positive, or -2 for variable
  EmptySize,  \* dataFieldSize(nullptr) per id of variable size
  Structs,    \* dataField structures an application may send
  Wire,       \* management (and foreign) messages that may arrive
  NoText,     \* no display text
  BufSizes    \* sizes of the buffers an application builds in

SendActions == {"GET", "SET", "COMMAND"}
ReplyActions == {"RESPONSE", "ACKNOWLEDGE"}

mngMsgSize == 48                \* sizeof(managementMessage_p)
mngMsgBaseSize == 54            \* with sizeof(managementTLV_t)
lengthFieldMngBase == 2
errTlvSize == 8                 \* sizeof(managementErrorTLV_p)
NoBad == -1

(***************************************************************************)
(* A structure to send: len octets once encoded; badAt is the number of    *)
(* octets in front of a value that does not fit its 48 bits, or NoBad.     *)
(***************************************************************************)
NoStruct == [id |-> UnknownId, len |-> 0, badAt |-> NoBad]
StructType == [id : Ids, len : Nat, badAt : Nat \cup {NoBad}]

ASSUME TableAssumption ==
  /\ NullId \in EmptyIds
  /\ Allowed \in [Ids -> SUBSET SendActions]
  /\ Size \in [Ids -> Nat \cup {-2}]
  /\ EmptySize \in [Ids -> Nat]
  /\ EmptyIds = {i \in Ids : Size[i] = 0}

ASSUME StructsAssumption ==
  /\ Structs \subseteq StructType
  /\ \A d \in Structs : Size[d.id] \in {-2, 0, d.len}

WireType ==
  [type : {"Management", "Signaling", "Other"}, ctl : {"Mng", "Def", "Bad"},
   hdrOk : BOOLEAN, size : Nat, action : SendActions \cup ReplyActions,
   tlvType : {"MANAGEMENT", "MANAGEMENT_ERROR_STATUS", "PAD"}, length : Nat,
   id : Ids \cup {UnknownId}, errId : Nat, display : STRING,
   need : Nat, err : DecodeErrs, val : STRING]

ASSUME WireAssumption == Wire \subseteq WireType
ASSUME BufSizesAssumption == BufSizes \subseteq Nat
ASSUME NoTextAssumption == NoText \in STRING

VARIABLES
  m_sendAction, m_tlv_id, m_dataSend, m_msgLen,
  m_type, m_mngType, m_replyAction, m_dataGet, m_errorId, m_errorDisplay,
  pend,       \* history: action and id of the last accepted setAction()
  call,       \* history: the last call, with its buffer size or message
  touched     \* history: octets of the message the last parse() looked at

msgVars == <<m_sendAction, m_tlv_id, m_dataSend, m_msgLen, m_type, m_mngType,
             m_replyAction, m_dataGet, m_errorId, m_errorDisplay>>
sendVars == <<m_sendAction, m_dataSend, m_msgLen>>
replyVars == <<m_tlv_id, m_mngType, m_replyAction, m_dataGet, m_errorId, m_errorDisplay>>
loopVars == <<m_cur, leftAll, m_sigTlvs, capacity, sigSize, epoch>>
vars == <<sigVars, msgVars, pend, call, touched>>

NoWire == [size |-> 0]
Called(op, n, w) == call' = [op |-> op, n |-> n, w |-> w]

(* What m_dataGet points to: nothing, a decoded dataField, or anything. *)
NoData == [id |-> UnknownId, val |-> "null"]
WildData == [id |-> UnknownId, val |-> "wild"]
Decoded(w) == [id |-> w.id, val |-> w.val]

Even(n) == n + (n % 2)
Least(a, b) == IF a < b THEN a ELSE b

-----------------------------------------------------------------------------
(* Requests: setAction(), getMsgPlanedLen() and build(). *)

(* allowedAction(): the table lets an application use the action on the id. *)
AllowedAction(id, action) ==
  /\ m_prms.implementSpecific = "linuxptp" \/ id \notin LinuxptpIds
  /\ action \in Allowed[id]

(* Mutant: without a structure, that of the request before is kept. *)
AcceptKeeps(action, id, data) ==
  /\ m_sendAction' = action
  /\ m_tlv_id' = id
  /\ m_dataSend' = IF data = NoStruct THEN m_dataSend ELSE data
  /\ pend' = [action |-> action, id |-> id]
  /\ ret' = "true"

(* The action and the id, from now on, are those of the next message. *)
Accept(action, id, data) ==
  /\ m_sendAction' = action
  /\ m_tlv_id' = id
  /\ m_dataSend' = data
  /\ pend' = [action |-> action, id |-> id]
  /\ ret' = "true"

Refuse == ret' = "false" /\ UNCHANGED <<m_sendAction, m_tlv_id, m_dataSend, pend>>

(* setAction(actionField, tlv_id) *)
SetAction(action, id) ==
  /\ pc = "idle"
  /\ IF AllowedAction(id, action) /\ (action = "GET" \/ id \in EmptyIds)
     THEN Accept(action, id, NoStruct)
     ELSE Refuse
  /\ Called("setAction", 0, NoWire)
  /\ UNCHANGED <<pc, m_prms, loopVars, m_msgLen, m_type, m_mngType,
                 m_replyAction, m_dataGet, m_errorId, m_errorDisplay, touched>>

(***************************************************************************)
(* setAction(actionField, tlv_id, dataSend); the structure is that of the  *)
(* id, as the header demands of the caller.  It is kept if the action      *)
(* sends one and the id has one.                                           *)
(***************************************************************************)
SetActionData(action, d) ==
  /\ pc = "idle"
  /\ IF AllowedAction(d.id, action)
     THEN Accept(action, d.id,
                 IF d.id # NullId /\ action # "GET" /\ Size[d.id] # 0
                 THEN d ELSE NoStruct)
     ELSE Refuse
  /\ Called("setAction", 0, NoWire)
  /\ UNCHANGED <<pc, m_prms, loopVars, m_msgLen, m_type, m_mngType,
                 m_replyAction, m_dataGet, m_errorId, m_errorDisplay, touched>>

(* dataFieldSize() of the current id, for a structure or for none. *)
DataFieldSize(d) == IF d = NoStruct THEN EmptySize[m_tlv_id] ELSE d.len

(* getMsgPlanedLen(), negative when the length can not be told. *)
PlanedLen ==
  LET data == IF m_sendAction # "GET" THEN m_dataSend ELSE NoStruct
      field == IF Size[m_tlv_id] # -2 THEN Size[m_tlv_id]
               ELSE IF data = NoStruct /\ m_sendAction # "GET" THEN -2
               ELSE DataFieldSize(data)
  IN IF m_sendAction = "GET" /\ m_prms.useZeroGet THEN mngMsgBaseSize
     ELSE IF field < 0 THEN field
     ELSE mngMsgBaseSize + Even(field)

(* Mutant: no pad octet behind an odd dataField. *)
EncodedUnpadded(d, left) ==
  IF d.badAt # NoBad /\ d.badAt <= left THEN [err |-> "VAL", n |-> 0]
  ELSE IF d.len > left THEN [err |-> "TOO_SMALL", n |-> 0]
  ELSE [err |-> "OK", n |-> d.len]

(* call_tlv_data() on build, with left octets of buffer, and the pad. *)
Encoded(d, left) ==
  IF d.badAt # NoBad /\ d.badAt <= left THEN [err |-> "VAL", n |-> 0]
  ELSE IF Even(d.len) > left THEN [err |-> "TOO_SMALL", n |-> 0]
  ELSE [err |-> "OK", n |-> Even(d.len)]

(* The zeros that stand for the dataField of a GET. *)
GetPad == Even(IF Size[m_tlv_id] = -2 THEN DataFieldSize(NoStruct) ELSE Size[m_tlv_id])

(***************************************************************************)
(* The results build() may have: its error and the size of its dataField.  *)
(* A structure that is not the one of m_tlv_id is read as if it were, so   *)
(* any content of the right type may come out.                             *)
(***************************************************************************)
BuildResults(left) ==
  IF m_sendAction # "GET" /\ m_dataSend # NoStruct
  THEN IF m_tlv_id \in EmptyIds THEN {[err |-> "OK", n |-> 0]}
       ELSE IF m_dataSend.id = m_tlv_id THEN {Encoded(m_dataSend, left)}
       ELSE {Encoded(d, left) : d \in {s \in Structs : s.id = m_tlv_id}}
  ELSE IF m_sendAction = "GET" /\ ~m_prms.useZeroGet /\ m_tlv_id \notin EmptyIds
  THEN {IF GetPad > left THEN [err |-> "TOO_SMALL", n |-> 0]
        ELSE [err |-> "OK", n |-> GetPad]}
  ELSE {[err |-> "OK", n |-> 0]}

(* build(buf, bufSize, sequence) *)
Build(bufSize) ==
  /\ pc = "idle"
  /\ IF bufSize < mngMsgBaseSize
     THEN ret' = "TOO_SMALL" /\ UNCHANGED m_msgLen
     ELSE \E r \in BuildResults(bufSize - mngMsgBaseSize) :
            /\ ret' = r.err
            /\ m_msgLen' = IF r.err = "OK" THEN mngMsgBaseSize + r.n ELSE m_msgLen
  /\ Called("build", bufSize, NoWire)
  /\ UNCHANGED <<pc, m_prms, loopVars, m_sendAction, m_dataSend, m_type, replyVars,
                 pend, touched>>

-----------------------------------------------------------------------------
(* Replies: parse().  Each of its exits is an action of its own. *)

(* Mutant: an id with the action GET takes an acknowledge as well. *)
CheckAnyReplyAction(id, action) == Allowed[id] # {}

(* checkReplyAction(): the reply answers an action its id allows. *)
CheckReplyAction(id, action) ==
  \/ action = "ACKNOWLEDGE" /\ "COMMAND" \in Allowed[id]
  \/ action = "RESPONSE" /\ Allowed[id] \cap {"GET", "SET"} # {}

(* Mutant: signaling messages are parsed whether asked for or not. *)
HeaderErrorAlwaysSig(w) ==
  CASE w.type = "Signaling" /\ w.ctl # "Def" -> "HEADER"
    [] w.type = "Management" /\ w.size < mngMsgSize + tlvSize -> "TOO_SMALL"
    [] w.type = "Management" /\ w.ctl # "Mng" -> "HEADER"
    [] w.type = "Other" -> "HEADER"
    [] OTHER -> IF w.hdrOk THEN "OK" ELSE "HEADER"

(* The checks on the header, in the order of the code. *)
HeaderError(w) ==
  CASE w.type = "Signaling" /\ (~m_prms.rcvSignaling \/ w.ctl # "Def") -> "HEADER"
    [] w.type = "Management" /\ w.size < mngMsgSize + tlvSize -> "TOO_SMALL"
    [] w.type = "Management" /\ w.ctl # "Mng" -> "HEADER"
    [] w.type = "Other" -> "HEADER"
    [] OTHER -> IF w.hdrOk THEN "OK" ELSE "HEADER"

(* A management message whose header is in order. *)
IsManagement(w) ==
  w.size >= sigBaseSize /\ w.type = "Management" /\ HeaderError(w) = "OK"

Parsed(w, err, octets) ==
  /\ pc = "idle"
  /\ ret' = err
  /\ touched' = octets
  /\ Called("parse", 0, w)
  /\ UNCHANGED <<pc, m_prms, loopVars, sendVars, pend>>

(* Too short for any PTP header this library knows. *)
ParseTooSmall(w) ==
  /\ w.size < sigBaseSize
  /\ Parsed(w, "TOO_SMALL", 0)
  /\ UNCHANGED <<m_type, replyVars>>

(* Rejected by the header; the type of the message is noted all the same. *)
ParseBadHeader(w) ==
  /\ w.size >= sigBaseSize
  /\ HeaderError(w) # "OK"
  /\ Parsed(w, HeaderError(w), sigBaseSize)
  /\ m_type' = w.type
  /\ UNCHANGED replyVars

(* A signaling message: on to parseSig(), which gives the result. *)
ParseSignaling(w) ==
  /\ w.size >= sigBaseSize
  /\ w.type = "Signaling"
  /\ HeaderError(w) = "OK"
  /\ BeginSig(w.size)
  /\ m_type' = w.type
  /\ touched' = sigBaseSize
  /\ Called("parse", 0, w)
  /\ UNCHANGED <<sendVars, replyVars, pend>>

(* A request, or a TLV that is not a management one. *)
ParseNotReply(w) ==
  /\ IsManagement(w)
  /\ m_type' = w.type
  /\ IF w.action \notin ReplyActions
     THEN Parsed(w, "ACTION", mngMsgSize) /\ UNCHANGED m_replyAction
     ELSE /\ w.tlvType = "PAD"
          /\ Parsed(w, "INVALID_TLV", mngMsgSize + tlvSize)
          /\ m_replyAction' = w.action
  /\ UNCHANGED <<m_tlv_id, m_mngType, m_dataGet, m_errorId, m_errorDisplay>>

IsReply(w, tlvType) ==
  IsManagement(w) /\ w.action \in ReplyActions /\ w.tlvType = tlvType

FixedPart(w) == IF w.tlvType = "MANAGEMENT" THEN lengthFieldMngBase ELSE errTlvSize

(* Offset of the dataField, or of the display text of an error. *)
FieldAt(w) == mngMsgSize + tlvSize + FixedPart(w)

(* Octets that the lengthField claims behind the fixed part of the TLV. *)
Left(w) == w.length - FixedPart(w)

(* Mutant: the fixed part of the TLV is read unchecked. *)
IdErrorNoSize(w) == IF ~FindTlvId(w.id) THEN "INVALID_ID" ELSE "OK"

(* The reply is given up before its managementId is taken over. *)
IdError(w) ==
  IF w.size < FieldAt(w) THEN "TOO_SMALL"
  ELSE IF ~FindTlvId(w.id) THEN "INVALID_ID" ELSE "OK"

ParseBadId(w) ==
  /\ \E tlvType \in {"MANAGEMENT", "MANAGEMENT_ERROR_STATUS"} : IsReply(w, tlvType)
  /\ IdError(w) # "OK"
  /\ m_type' = w.type
  /\ m_replyAction' = w.action
  /\ Parsed(w, IdError(w), IF w.size < FieldAt(w) THEN mngMsgSize + tlvSize ELSE FieldAt(w))
  /\ UNCHANGED <<m_tlv_id, m_mngType, m_dataGet, m_errorId, m_errorDisplay>>

(* Both kinds of reply: even length, at least the fixed part. *)
LengthError(w) == w.length < FixedPart(w) \/ w.length % 2 = 1

(* MANAGEMENT_ERROR_STATUS, once its id is taken over. *)
ErrorStatusError(w) ==
  IF ~CheckReplyAction(w.id, w.action) THEN "ACTION"
  ELSE IF LengthError(w) \/ w.size - FieldAt(w) < Left(w) THEN "TOO_SMALL"
  ELSE IF Left(w) > 1 /\ w.need > Left(w) THEN "TOO_SMALL"
  ELSE "MSG"

(* The display text is read. *)
DisplayRead(w) ==
  /\ CheckReplyAction(w.id, w.action) /\ ~LengthError(w)
  /\ Left(w) > 1 /\ w.size - FieldAt(w) >= Left(w)

ParseErrorStatus(w) ==
  /\ IsReply(w, "MANAGEMENT_ERROR_STATUS")
  /\ IdError(w) = "OK"
  /\ m_type' = w.type
  /\ m_replyAction' = w.action
  /\ m_tlv_id' = w.id
  /\ Parsed(w, ErrorStatusError(w),
            IF DisplayRead(w) THEN FieldAt(w) + Least(w.need, Left(w)) ELSE FieldAt(w))
  /\ m_errorId' = IF CheckReplyAction(w.id, w.action) THEN w.errId ELSE m_errorId
  /\ m_errorDisplay' = IF ErrorStatusError(w) = "MSG" /\ Left(w) > 1
                       THEN w.display ELSE m_errorDisplay
  /\ m_mngType' = IF ErrorStatusError(w) = "MSG" THEN w.tlvType ELSE m_mngType
  /\ UNCHANGED m_dataGet

(* MANAGEMENT, once its id is taken over; call_tlv_data() comes last. *)
ManagementError(w) ==
  IF ~CheckReplyAction(w.id, w.action) THEN "ACTION"
  ELSE IF LengthError(w) THEN "TOO_SMALL"
  ELSE IF Left(w) = 0 THEN "OK"
  ELSE IF w.size - FieldAt(w) < Left(w) THEN "TOO_SMALL"
  ELSE IF w.id \in EmptyIds THEN "OK"
  ELSE IF w.need > Left(w) THEN "TOO_SMALL" ELSE w.err

(* The decoding function of the id runs. *)
DataFieldRead(w) ==
  /\ CheckReplyAction(w.id, w.action) /\ ~LengthError(w)
  /\ Left(w) > 0 /\ w.size - FieldAt(w) >= Left(w) /\ w.id \notin EmptyIds

(* Mutant: the earlier dataField is dropped before the new one is decoded. *)
DataGotReset(w) == IF ManagementError(w) = "OK" THEN {Decoded(w)} ELSE {NoData}

(***************************************************************************)
(* What the reply leaves in m_dataGet: an empty dataField leaves it alone; *)
(* an id without decoding function hands over the uninitialised pointer.   *)
(***************************************************************************)
DataGot(w) ==
  IF ManagementError(w) # "OK" \/ Left(w) = 0 THEN {m_dataGet}
  ELSE IF w.id \in EmptyIds THEN {NoData, WildData}
  ELSE {Decoded(w)}

(* Mutant: the id is taken over before it is looked up. *)
ParseManagementAnyId(w) ==
  /\ IsReply(w, "MANAGEMENT")
  /\ m_type' = w.type
  /\ m_replyAction' = w.action
  /\ m_tlv_id' = w.id
  /\ Parsed(w, IdError(w), FieldAt(w))
  /\ UNCHANGED <<m_dataGet, m_mngType, m_errorId, m_errorDisplay>>

ParseManagement(w) ==
  /\ IsReply(w, "MANAGEMENT")
  /\ IdError(w) = "OK"
  /\ m_type' = w.type
  /\ m_replyAction' = w.action
  /\ m_tlv_id' = w.id
  /\ Parsed(w, ManagementError(w),
            IF DataFieldRead(w) THEN FieldAt(w) + Least(w.need, Left(w)) ELSE FieldAt(w))
  /\ m_dataGet' \in DataGot(w)
  /\ m_mngType' = IF ManagementError(w) = "OK" /\ Left(w) > 0 THEN w.tlvType ELSE m_mngType
  /\ UNCHANGED <<m_errorId, m_errorDisplay>>

(* parse(buf, msgSize) *)
Parse(w) ==
  \/ ParseTooSmall(w) \/ ParseBadHeader(w) \/ ParseSignaling(w)
  \/ ParseNotReply(w) \/ ParseBadId(w)
  \/ ParseErrorStatus(w) \/ ParseManagement(w)

(* The loop of parseSig() goes on. *)
ParseSigStep ==
  /\ SigTlv \/ EndSig
  /\ UNCHANGED <<msgVars, pend, call, touched>>

(* updateParams(prms) *)
UpdateParams(prms) ==
  /\ SigUpdateParams(prms)
  /\ Called("updateParams", 0, NoWire)
  /\ UNCHANGED <<msgVars, pend, touched>>

-----------------------------------------------------------------------------
(***************************************************************************)
(* The constructor leaves m_type, m_mngType and m_errorId uninitialised.   *)
(***************************************************************************)
Init ==
  /\ SigInit
  /\ m_sendAction = "GET" /\ m_tlv_id = NullId
  /\ m_dataSend = NoStruct /\ m_msgLen = 0
  /\ m_type \in {"Management", "Signaling", "Other"}
  /\ m_mngType \in {"MANAGEMENT", "MANAGEMENT_ERROR_STATUS", "PAD"}
  /\ m_replyAction = "RESPONSE"
  /\ m_dataGet = NoData
  /\ m_errorId \in {0, 1} /\ m_errorDisplay = NoText
  /\ pend = [action |-> "GET", id |-> NullId]
  /\ call = [op |-> "none", n |-> 0, w |-> NoWire]
  /\ touched = 0

Next ==
  \/ \E action \in SendActions, id \in Ids : SetAction(action, id)
  \/ \E action \in SendActions, d \in Structs : SetActionData(action, d)
  \/ \E bufSize \in BufSizes : Build(bufSize)
  \/ \E w \in Wire : Parse(w)
  \/ ParseSigStep
  \/ \E prms \in PrmsSet : UpdateParams(prms)

Spec == Init /\ [][Next]_vars
-----------------------------------------------------------------------------
(* The values the variables range over. *)
TypeOK ==
  /\ pc \in {"idle", "sig"}
  /\ m_prms \in PrmsSet
  /\ m_sendAction \in SendActions
  /\ m_tlv_id \in Ids
  /\ m_dataSend \in Structs \cup {NoStruct}
  /\ m_msgLen \in Nat
  /\ m_replyAction \in ReplyActions
  /\ m_dataGet \in {NoData, WildData} \cup {Decoded(w) : w \in Wire}
  /\ pend \in [action : SendActions, id : Ids]
  /\ call \in [op : {"none", "setAction", "build", "parse", "updateParams"},
               n : BufSizes \cup {0}, w : Wire \cup {NoWire}]

(* The last call was a parse() that returned r. *)
ParseGave(r) == call.op = "parse" /\ pc = "idle" /\ ret = r

(***************************************************************************)
(* As long as no reply replaced the id (m_tlv_id is shared by both         *)
(* directions), build() finds the structure of that id where it needs one, *)
(* and none where it must not use one: it never casts a foreign structure. *)
(***************************************************************************)
StructMatchesId ==
  m_tlv_id = pend.id =>
    /\ m_sendAction = pend.action
    /\ m_dataSend # NoStruct => m_sendAction # "GET" /\ m_dataSend.id = m_tlv_id
    /\ m_sendAction # "GET" /\ m_tlv_id \notin EmptyIds => m_dataSend # NoStruct

(***************************************************************************)
(* getMsgPlanedLen() is exact: build() succeeds in a buffer of that size,  *)
(* fails in a smaller one, and makes a message of that (even) length.      *)
(***************************************************************************)
PlannedLenIsExact ==
  call.op = "build" /\ m_tlv_id = pend.id =>
    /\ ret = "OK" => m_msgLen = PlanedLen /\ m_msgLen <= call.n /\ m_msgLen % 2 = 0
    /\ PlanedLen <= call.n /\ m_dataSend.badAt = NoBad => ret = "OK"

(***************************************************************************)
(* parse() looks at no octet behind the received ones, on any of its       *)
(* exits, whatever the lengthField of the message claims.                  *)
(***************************************************************************)
ReadsInsideMessage == call.op = "parse" => touched <= call.w.size

(***************************************************************************)
(* A reply that parse() accepts is one this application may get: its id is *)
(* known under the implementation in use, its action answers an action the *)
(* id allows, and the getters return that id and that action.              *)
(***************************************************************************)
AcceptedReplyIsLegal ==
  ParseGave("OK") \/ ParseGave("MSG") =>
    /\ m_type = "Management" /\ m_tlv_id = call.w.id /\ m_replyAction = call.w.action
    /\ m_prms.implementSpecific # "linuxptp" => m_tlv_id \notin LinuxptpIds
    /\ m_replyAction = "ACKNOWLEDGE" => "COMMAND" \in Allowed[m_tlv_id]
    /\ m_replyAction = "RESPONSE" => Allowed[m_tlv_id] # {"COMMAND"}
    /\ ret = "MSG" => m_mngType = "MANAGEMENT_ERROR_STATUS" /\ m_errorId = call.w.errId

(***************************************************************************)
(* The dataField of an earlier reply is only given up for the decoded one  *)
(* of an accepted reply: a message that parse() rejects half way keeps it, *)
(* and so do the calls that prepare the next request.                      *)
(***************************************************************************)
RejectedKeepsData ==
  [][m_dataGet' # m_dataGet =>
       ret' = "OK" /\ call'.op = "parse" /\ call'.w.length > lengthFieldMngBase]_vars

(***************************************************************************)
(* A signaling message is only taken apart for an application that asked   *)
(* for it, and then the getters expose that message: the one whose octets  *)
(* were walked, with no TLV left over from an earlier one.                 *)
(***************************************************************************)
SignalingOnDemand ==
  ParseGave("SIG") =>
    /\ m_prms.rcvSignaling /\ m_type = "Signaling" /\ sigSize = call.w.size
    /\ OnlyThisMessage
=============================================================================
