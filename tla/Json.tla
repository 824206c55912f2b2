-------------------------------- MODULE Json --------------------------------
(***************************************************************************)
(* msg2json() of json.cpp: a message as JSON, written token by token with  *)
(* the flag m_first and its stack, and the lists that say which members of *)
(* the structures of the ids are written.                                  *)
(*                                                                         *)
(* Layout and the digits of numbers are left out: a token is a bracket, a  *)
(* comma, a name, or a value with the octets it shows, of kind "num",      *)
(* "str", "text" (a string from outside) or "bool".                        *)
(***************************************************************************)
EXTENDS Codec

VARIABLE json   \* history: what was written last

-----------------------------------------------------------------------------
(* JsonProcToJson: what the writer holds, and its functions *)

Tkn(k, v) == [k |-> k, v |-> v]
NewWriter == [result |-> << >>, m_first |-> FALSE, m_first_vals |-> << >>]

Put(w, k, v) == [w EXCEPT !.result = Append(@, Tkn(k, v))]

close(w) ==
  [result |-> IF w.m_first THEN w.result ELSE Append(w.result, Tkn(",", "")),
   m_first |-> FALSE, m_first_vals |-> w.m_first_vals]
startName(w, name) == Put(close(w), "name", name)

(* Mutant: the first member of an object is not told from the others. *)
openKeepsFirst(w, k) == [Put(w, k, "") EXCEPT !.m_first_vals = Append(@, w.m_first)]

(* startObject() and startArray() *)
open(w, k) ==
  [result |-> Append(w.result, Tkn(k, "")),
   m_first |-> TRUE, m_first_vals |-> Append(w.m_first_vals, w.m_first)]

(* closeObject() and closeArray() *)
shut(w, k) ==
  [result |-> Append(w.result, Tkn(k, "")),
   m_first |-> Last(w.m_first_vals), m_first_vals |-> Front(w.m_first_vals)]

(* A call of the writer: a bracket, or a name with a bracket or a value. *)
Call(op0, name, k, v) == <<[op |-> op0, name |-> name, k |-> k, v |-> v]>>
Exec(w, c) ==
  CASE c.op = "open" -> open(w, c.k)
    [] c.op = "shut" -> shut(w, c.k)
    [] c.op = "named" -> open(startName(w, c.name), c.k)
    [] c.op = "value" -> Put(startName(w, c.name), c.k, c.v)
Writes(w, calls) ==
  LET ws[i \in 0 .. Len(calls)] == IF i = 0 THEN w ELSE Exec(ws[i - 1], calls[i]) IN ws
Write(w, calls) == Writes(w, calls)[Len(calls)]

startObject == Call("open", "", "{", << >>)
closeObject == Call("shut", "", "}", << >>)
procObject(name) == Call("named", name, "{", << >>)
procArray(name) == Call("named", name, "[", << >>) \o Call("shut", "", "]", << >>)
procValue(name, v) == Call("value", name, "num", v)
procString(name, v) == Call("value", name, "str", v)
procText(name, v) == Call("value", name, "text", v)
procBool(name, b) == Call("value", name, "bool", IF b THEN <<1>> ELSE <<0>>)

-----------------------------------------------------------------------------
(* The members that are written: their name, and the fields of the layout
   they are in, from the field at on. *)

Member(k, name, at, bit) == <<[k |-> k, name |-> name, at |-> at, bit |-> bit]>>
Val(name, at) == Member("num", name, at, 0)
Enum(enum, name, at) == Member(enum, name, at, 0)
Oct(name, at) == Member("octets", name, at, 0)
Txt(name, at) == Member("text", name, at, 0)
Bin(name, at) == Member("binary", name, at, 0)
Flg(name, at, bit) == Member("flag", name, at, bit)
U48Val(name, at) == Member("u48", name, at, 0)
Stamp(name, at) == Member("stamp", name, at, 0)
PortId(name, at) == Member("portId", name, at, 0)
Address(name, at) == Member("address", name, at, 0)
Quality(name, at) == Member("quality", name, at, 0)
Arr(name) == Member("array", name, 0, 0)

UtcFlagsShown(at) ==
  Flg("leap61", at, 1) \o Flg("leap59", at, 2) \o Flg("currentUtcOffsetValid", at, 4)
TraceFlagsShown(at) == Flg("timeTraceable", at, 16) \o Flg("frequencyTraceable", at, 32)

ClockMembersShown ==
  [ CLOCK_DESCRIPTION |->
      Val("clockType", 1) \o Txt("physicalLayerProtocol", 2) \o Bin("physicalAddress", 4)
      \o Address("protocolAddress", 6) \o Oct("manufacturerIdentity", 9)
      \o Txt("productDescription", 11) \o Txt("revisionData", 13)
      \o Txt("userDescription", 15) \o Oct("profileIdentity", 17),
    USER_DESCRIPTION |-> Txt("userDescription", 1),
    INITIALIZE |-> Val("initializationKey", 1),
    FAULT_LOG |-> Val("numberOfFaultRecords", 1) \o Arr("faultRecords"),
    DEFAULT_DATA_SET |->
      Flg("twoStepFlag", 1, 1) \o Flg("slaveOnly", 1, 2) \o Val("numberPorts", 3)
      \o Val("priority1", 4) \o Quality("clockQuality", 5) \o Val("priority2", 8)
      \o Oct("clockIdentity", 9) \o Val("domainNumber", 10),
    CURRENT_DATA_SET |->
      Val("stepsRemoved", 1) \o Val("offsetFromMaster", 2) \o Val("meanPathDelay", 3),
    PARENT_DATA_SET |->
      PortId("parentPortIdentity", 1) \o Flg("parentStats", 3, 1)
      \o Val("observedParentOffsetScaledLogVariance", 5)
      \o Val("observedParentClockPhaseChangeRate", 6) \o Val("grandmasterPriority1", 7)
      \o Quality("grandmasterClockQuality", 8) \o Val("grandmasterPriority2", 11)
      \o Oct("grandmasterIdentity", 12),
    TIME_PROPERTIES_DATA_SET |->
      Val("currentUtcOffset", 1) \o UtcFlagsShown(2) \o Flg("ptpTimescale", 2, 8)
      \o TraceFlagsShown(2) \o Enum("timeSource", "timeSource", 3),
    PORT_DATA_SET |->
      PortId("portIdentity", 1) \o Enum("portState", "portState", 3) \o Val("logMinDelayReqInterval", 4)
      \o Val("peerMeanPathDelay", 5) \o Val("logAnnounceInterval", 6)
      \o Val("announceReceiptTimeout", 7) \o Val("logSyncInterval", 8)
      \o Val("delayMechanism", 9) \o Val("logMinPdelayReqInterval", 10)
      \o Val("versionNumber", 11),
    PRIORITY1 |-> Val("priority1", 1), PRIORITY2 |-> Val("priority2", 1),
    DOMAIN_ |-> Val("domainNumber", 1), SLAVE_ONLY |-> Flg("slaveOnly", 1, 1),
    LOG_ANNOUNCE_INTERVAL |-> Val("logAnnounceInterval", 1),
    ANNOUNCE_RECEIPT_TIMEOUT |-> Val("announceReceiptTimeout", 1),
    LOG_SYNC_INTERVAL |-> Val("logSyncInterval", 1),
    VERSION_NUMBER |-> Val("versionNumber", 1) ]

TimeMembersShown ==
  [ TIME |-> Stamp("currentTime", 1),
    CLOCK_ACCURACY |-> Val("clockAccuracy", 1),
    UTC_PROPERTIES |-> Val("currentUtcOffset", 1) \o UtcFlagsShown(2),
    TRACEABILITY_PROPERTIES |-> TraceFlagsShown(1),
    TIMESCALE_PROPERTIES |-> Flg("ptpTimescale", 1, 8) \o Enum("timeSource", "timeSource", 2),
    UNICAST_NEGOTIATION_ENABLE |-> Flg("unicastNegotiationPortDS", 1, 1),
    PATH_TRACE_LIST |-> Arr("pathSequence"),
    PATH_TRACE_ENABLE |-> Flg("pathTraceDS", 1, 1),
    GRANDMASTER_CLUSTER_TABLE |->
      Val("logQueryInterval", 1) \o Val("actualTableSize", 2) \o Arr("PortAddress"),
    UNICAST_MASTER_TABLE |->
      Val("logQueryInterval", 1) \o Val("actualTableSize", 2) \o Arr("PortAddress"),
    UNICAST_MASTER_MAX_TABLE_SIZE |-> Val("maxTableSize", 1),
    ACCEPTABLE_MASTER_TABLE |-> Val("actualTableSize", 1) \o Arr("list"),
    ACCEPTABLE_MASTER_TABLE_ENABLED |-> Flg("acceptableMasterPortDS", 1, 1),
    ACCEPTABLE_MASTER_MAX_TABLE_SIZE |-> Val("maxTableSize", 1),
    ALTERNATE_MASTER |->
      Flg("transmitAlternateMulticastSync", 1, 1)
      \o Val("logAlternateMulticastSyncInterval", 2) \o Val("numberOfAlternateMasters", 3),
    ALTERNATE_TIME_OFFSET_ENABLE |->
      Val("keyField", 1) \o Flg("alternateTimescaleOffsetsDS", 2, 1),
    ALTERNATE_TIME_OFFSET_NAME |-> Val("keyField", 1) \o Txt("displayName", 2),
    ALTERNATE_TIME_OFFSET_MAX_KEY |-> Val("maxKey", 1),
    ALTERNATE_TIME_OFFSET_PROPERTIES |->
      Val("keyField", 1) \o Val("currentOffset", 2) \o Val("jumpSeconds", 3)
      \o U48Val("timeOfNextJump", 4) ]

PortMembersShown ==
  [ TRANSPARENT_CLOCK_PORT_DATA_SET |->
      PortId("portIdentity", 1) \o Flg("transparentClockPortDS", 3, 1)
      \o Val("logMinPdelayReqInterval", 4) \o Val("peerMeanPathDelay", 5),
    LOG_MIN_PDELAY_REQ_INTERVAL |-> Val("logMinPdelayReqInterval", 1),
    TRANSPARENT_CLOCK_DEFAULT_DATA_SET |->
      Oct("clockIdentity", 1) \o Val("numberPorts", 2) \o Val("delayMechanism", 3)
      \o Val("primaryDomain", 4),
    PRIMARY_DOMAIN |-> Val("primaryDomain", 1), DELAY_MECHANISM |-> Val("delayMechanism", 1),
    EXTERNAL_PORT_CONFIGURATION_ENABLED |-> Flg("externalPortConfiguration", 1, 1),
    MASTER_ONLY |-> Flg("masterOnly", 1, 1),
    HOLDOVER_UPGRADE_ENABLE |-> Flg("holdoverUpgradeDS", 1, 1),
    EXT_PORT_CONFIG_PORT_DATA_SET |->
      Flg("acceptableMasterPortDS", 1, 1) \o Enum("portState", "desiredState", 2),
    TIME_STATUS_NP |->
      Val("master_offset", 1) \o Val("ingress_time", 2) \o Val("cumulativeScaledRateOffset", 3)
      \o Val("scaledLastGmPhaseChange", 4) \o Val("gmTimeBaseIndicator", 5)
      \o Val("nanoseconds_msb", 6) \o Val("nanoseconds_lsb", 7)
      \o Val("fractional_nanoseconds", 8) \o Val("gmPresent", 9) \o Oct("gmIdentity", 10),
    GRANDMASTER_SETTINGS_NP |->
      Quality("clockQuality", 1) \o Val("currentUtcOffset", 4) \o UtcFlagsShown(5)
      \o Flg("ptpTimescale", 5, 8) \o TraceFlagsShown(5) \o Enum("timeSource", "timeSource", 6),
    PORT_DATA_SET_NP |-> Val("neighborPropDelayThresh", 1) \o Val("asCapable", 2),
    SUBSCRIBE_EVENTS_NP |-> Val("duration", 1),
    PORT_PROPERTIES_NP |->
      PortId("portIdentity", 1) \o Enum("portState", "portState", 3)
      \o Enum("timestamping", "timestamping", 4) \o Txt("interface", 5),
    PORT_STATS_NP |-> PortId("portIdentity", 1),
    SYNCHRONIZATION_UNCERTAIN_NP |-> Val("val", 1) ]

MembersShown ==
  [id \in DOMAIN ClockMembersShown \cup DOMAIN TimeMembersShown \cup DOMAIN PortMembersShown |->
     IF id \in DOMAIN ClockMembersShown THEN ClockMembersShown[id]
     ELSE IF id \in DOMAIN TimeMembersShown THEN TimeMembersShown[id] ELSE PortMembersShown[id]]

(* The values of enums that are written as names. All others are written as one word
   for the whole enum, such as "unknown clock", that shows no octet. *)
EnumValues ==
  [ timeSource |-> {16, 32, 48, 57, 64, 80, 96, 144, 160},
    portState |-> 1 .. 9, timestamping |-> 0 .. 4, networkProtocol |-> 1 .. 6 ]
Unnamed == <<256>>

(* Mutant: every value has a name. *)
NameOfAny(enum, v) == v

(* What shows the value v: the name stands for the octets it is the name of. *)
NameOf(enum, v) ==
  IF v[1] \in EnumValues[enum] /\ \A i \in 2 .. Len(v) : v[i] = 0 THEN v ELSE Unnamed

HasBit(x, bit) == (x \div bit) % 2 = 1

(* Mutant: the variance is left out of a clock quality. *)
ProcQualityShort(name, h, at) ==
  procObject(name) \o procValue("clockClass", h[at]) \o procValue("clockAccuracy", h[at + 1])
  \o closeObject

ProcQuality(name, h, at) ==
  procObject(name) \o procValue("clockClass", h[at]) \o procValue("clockAccuracy", h[at + 1])
  \o procValue("offsetScaledLogVariance", h[at + 2]) \o closeObject

ProcPortId(name, id, number) ==
  procObject(name) \o procString("clockIdentity", id) \o procValue("portNumber", number)
  \o closeObject

(* procValue(), procBinary(), procFlag() and procArray() of a member. *)
ProcMember(m, h) ==
  CASE m.k = "num" -> procValue(m.name, h[m.at])
    [] m.k = "octets" -> procString(m.name, h[m.at])
    [] m.k \in DOMAIN EnumValues -> procString(m.name, NameOf(m.k, h[m.at]))
    [] m.k = "text" -> procText(m.name, h[m.at + 1])
    [] m.k = "binary" -> procString(m.name, h[m.at + 1])
    [] m.k = "flag" -> procBool(m.name, HasBit(h[m.at][1], m.bit))
    [] m.k = "u48" -> procValue(m.name, h[m.at] \o h[m.at + 1])
    [] m.k = "stamp" -> procValue(m.name, h[m.at] \o h[m.at + 1] \o h[m.at + 2])
    [] m.k = "portId" -> ProcPortId(m.name, h[m.at], h[m.at + 1])
    [] m.k = "address" ->
         procObject(m.name) \o procString("networkProtocol", NameOf("networkProtocol", h[m.at]))
         \o procString("addressField", h[m.at + 2]) \o closeObject
    [] m.k = "quality" -> ProcQuality(m.name, h, m.at)
    [] m.k = "array" -> procArray(m.name)

(* data2json() *)
data2json(id, h) ==
  FlattenSeq([i \in 1 .. Len(MembersShown[id]) |-> ProcMember(MembersShown[id][i], h)])

(***************************************************************************)
(* msg2json(): the header, then what the kind of message has. The values   *)
(* of the header are left out, and "Signaling" is written as "Unsupported".*)
(***************************************************************************)
JsonHead ==
  procValue("sequenceId", << >>) \o procValue("sdoId", << >>)
  \o procValue("domainNumber", << >>) \o procValue("versionPTP", << >>)
  \o procValue("minorVersionPTP", << >>) \o procString("messageType", << >>)
  \o ProcPortId("sourcePortIdentity", << >>, << >>)
MngHead ==
  procString("actionField", << >>) \o procString("tlvType", << >>)
  \o procString("managementId", << >>)
msg2json(calls) == Write(NewWriter, startObject \o JsonHead \o calls \o closeObject).result

NoJson == [of |-> "none", tokens |-> << >>]

(* A reply that was parsed, with its dataField. *)
JsonOfData ==
  /\ pc = "idle" /\ op \in {"parse", "receive"} /\ ret = "OK"
  /\ tlv \in DOMAIN MembersShown
  /\ json' = [of |-> "data",
              tokens |-> msg2json(MngHead \o procObject("dataField")
                                  \o data2json(tlv, d.head) \o closeObject)]
  /\ UNCHANGED codecVars

(* A management message without dataField or with that of an id for which json.cpp has
   no function, an error status, or another message. *)
JsonOfOther ==
  /\ pc = "idle"
  /\ \E m \in { MngHead, MngHead \o procObject("dataField") \o closeObject,
                MngHead \o procString("managementErrorId", << >>) \o procText("displayData", <<65>>),
                MngHead \o procString("managementErrorId", << >>) \o procText("displayData", <<34>>),
                << >> } :
       json' = [of |-> "other", tokens |-> msg2json(m)]
  /\ UNCHANGED codecVars

-----------------------------------------------------------------------------
NeedsEscape(text) == \E i \in 1 .. Len(text) : text[i] < 32 \/ text[i] = 34 \/ text[i] = 92

(* A reading of JSON: the brackets that are open, and what may come next. *)
ReadToken(a, tk) ==
  LET top == IF a.open = << >> THEN "" ELSE Last(a.open)
      push == [open |-> Append(a.open, tk.k), due |-> "first"]
      pop == [open |-> Front(a.open), due |-> "after"]
      to(x) == [a EXCEPT !.due = x]
  IN  CASE tk.k \in {"{", "["} /\ a.due = "value" -> push
        [] tk.k = "}" /\ top = "{" /\ a.due \in {"first", "after"} -> pop
        [] tk.k = "]" /\ top = "[" /\ a.due \in {"first", "after"} -> pop
        [] tk.k = "," /\ a.open # << >> /\ a.due = "after" -> to("member")
        [] tk.k = "name" /\ top = "{" /\ a.due \in {"first", "member"} -> to("value")
        [] tk.k \in {"num", "str", "bool"} /\ a.due = "value" -> to("after")
        [] tk.k = "text" /\ a.due = "value" /\ ~NeedsEscape(tk.v) -> to("after")
        [] OTHER -> to("error")
Reads(tokens) ==
  LET rs[i \in 0 .. Len(tokens)] ==
        IF i = 0 THEN [open |-> << >>, due |-> "value"] ELSE ReadToken(rs[i - 1], tokens[i])
  IN  rs
IsJson(tokens) == Reads(tokens)[Len(tokens)] = [open |-> << >>, due |-> "after"]

HasEscape(tokens) ==
  \E i \in 1 .. Len(tokens) : tokens[i].k = "text" /\ NeedsEscape(tokens[i].v)

(* What msg2json() returns is JSON, whatever the id and the nesting of its members,
   exactly as long as no text from outside holds a quote, a backslash or a control
   character: the writer escapes none. *)
JsonWellFormed == json.of # "none" => (IsJson(json.tokens) <=> ~HasEscape(json.tokens))

(* The octets a document shows outside of flags, and its flags. *)
Shown(tokens) ==
  FlattenSeq([i \in 1 .. Len(tokens) |->
                IF tokens[i].k \in {"num", "str", "text"} THEN tokens[i].v ELSE << >>])
FlagsShown(tokens) ==
  LET flags == SelectSeq(tokens, LAMBDA x : x.k = "bool")
  IN  [i \in 1 .. Len(flags) |-> flags[i].v[1] = 1]

(* The members that json.cpp names in comments only. *)
Omitted(id, i) ==
  \/ id = "SUBSCRIBE_EVENTS_NP" /\ i = 2
  \/ id = "PORT_STATS_NP" /\ i > 2

(* The members of structures that are enums with names (proc.h). *)
EnumOf(id, i) ==
  CASE <<id, i>> \in {<<"TIME_PROPERTIES_DATA_SET", 3>>, <<"TIMESCALE_PROPERTIES", 2>>,
                     <<"GRANDMASTER_SETTINGS_NP", 6>>} -> "timeSource"
    [] <<id, i>> \in {<<"PORT_DATA_SET", 3>>, <<"EXT_PORT_CONFIG_PORT_DATA_SET", 2>>,
                     <<"PORT_PROPERTIES_NP", 3>>} -> "portState"
    [] <<id, i>> = <<"PORT_PROPERTIES_NP", 4>> -> "timestamping"
    [] <<id, i>> = <<"CLOCK_DESCRIPTION", 6>> -> "networkProtocol"
    [] OTHER -> "none"

MembersOf(id, h) ==
  FlattenSeq([i \in 1 .. Len(h) |->
     IF Layout[id].head[i].k \in {"len", "reserved", "flags"} \/ Omitted(id, i) THEN << >>
     ELSE IF EnumOf(id, i) # "none" THEN NameOf(EnumOf(id, i), h[i])
     ELSE h[i]])
FlagsOf(id, h) ==
  LET bitsOf(f) == SelectSeq(<<1, 2, 4, 8, 16, 32, 64, 128>>, LAMBDA b : f.lo <= b /\ b < f.hi)
      flagsAt(i) == LET bits == bitsOf(Layout[id].head[i])
                    IN  [j \in 1 .. Len(bits) |-> HasBit(h[i][1], bits[j])]
  IN  FlattenSeq([i \in 1 .. Len(h) |->
         IF Layout[id].head[i].k = "flags" THEN flagsAt(i) ELSE << >>])

(* The lists of json.cpp show every member and every flag of the structures that
   proc.cpp decodes, once and in their order, except the two members that json.cpp
   leaves out and the records of lists. Of an enum they show the name, if the value
   that was received has one. *)
JsonShowsEveryMember ==
  json.of = "data" =>
    /\ Shown(json.tokens) = MembersOf(tlv, d.head)
    /\ FlagsShown(json.tokens) = FlagsOf(tlv, d.head)
=============================================================================
