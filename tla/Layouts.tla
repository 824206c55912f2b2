------------------------------ MODULE Layouts ------------------------------
(***************************************************************************)
(* The TLV functions of proc.cpp and sig.cpp: each is a list of calls of   *)
(* proc(), and at its end at most one list of records. A field is a record *)
(*   k       what proc() does with it (see Codec)                          *)
(*   n       its octets                                                    *)
(*   lo, hi  the mask hi - lo of a field of flags, both powers of two      *)
(* and a layout is a record                                                *)
(*   head    the fields                                                    *)
(*   list    "none", "counted" (vector_f) or "open" (vector_o)             *)
(*   rec     the fields of a record of the list                            *)
(*   size    what size() says of a record, for an open list                *)
(***************************************************************************)
EXTENDS Integers, Sequences

Field(k, n) == <<[k |-> k, n |-> n, lo |-> 1, hi |-> 256]>>
Num(n) == Field("num", n)
Octets(n) == Field("octets", n)
Flags(lo, hi) == <<[k |-> "flags", n |-> 1, lo |-> lo, hi |-> hi]>>
Flag == Flags(1, 2)
Reserved == Field("reserved", 1)
Count(n) == Field("count", n)
Var(n) == Field("len", n) \o Field("body", 0)

(* proc48(): the upper half of the value in two octets, then the lower. *)
U48 == Field("high16", 2) \o Num(4)

TimeInterval == Num(8)
Timestamp == U48 \o Num(4)
ClockIdentity == Octets(8)
PortIdentity == ClockIdentity \o Num(2)
PortAddress == Num(2) \o Var(2)

(* Mutant: the variance is taken for one octet. *)
ClockQualityNarrow == Num(1) \o Num(1) \o Num(1)

ClockQuality == Num(1) \o Num(1) \o Num(2)
PTPText == Var(1)
FaultRecord ==
  Num(2) \o Timestamp \o Num(1) \o PTPText \o PTPText \o PTPText \o Field("fault", 0)
AcceptableMaster == PortIdentity \o Num(1)

Plain(head) == [head |-> head, list |-> "none", rec |-> << >>, size |-> 0]
Counted(head, rec) == [head |-> head, list |-> "counted", rec |-> rec, size |-> 0]
Open(head, rec, size) == [head |-> head, list |-> "open", rec |-> rec, size |-> size]

(* The management ids of IEEE 1588, up to the announce and sync intervals. *)
ClockLayouts ==
  [ CLOCK_DESCRIPTION |->
      Plain(Num(2) \o PTPText \o Var(2) \o PortAddress \o Octets(3) \o Reserved
            \o PTPText \o PTPText \o PTPText \o Octets(6)),
    USER_DESCRIPTION |-> Plain(PTPText),
    INITIALIZE |-> Plain(Num(2)),
    FAULT_LOG |-> Counted(Count(2), FaultRecord),
    DEFAULT_DATA_SET |->
      Plain(Flags(1, 4) \o Reserved \o Num(2) \o Num(1) \o ClockQuality \o Num(1)
            \o ClockIdentity \o Num(1)),
    CURRENT_DATA_SET |-> Plain(Num(2) \o TimeInterval \o TimeInterval),
    PARENT_DATA_SET |->
      Plain(PortIdentity \o Flag \o Reserved \o Num(2) \o Num(4) \o Num(1)
            \o ClockQuality \o Num(1) \o ClockIdentity),
    TIME_PROPERTIES_DATA_SET |-> Plain(Num(2) \o Flags(1, 64) \o Num(1)),
    PORT_DATA_SET |->
      Plain(PortIdentity \o Num(1) \o Num(1) \o TimeInterval \o Num(1) \o Num(1)
            \o Num(1) \o Num(1) \o Num(1) \o Num(1)),
    PRIORITY1 |-> Plain(Num(1)), PRIORITY2 |-> Plain(Num(1)),
    DOMAIN_ |-> Plain(Num(1)),   \* DOMAIN is a keyword
    SLAVE_ONLY |-> Plain(Flag),
    LOG_ANNOUNCE_INTERVAL |-> Plain(Num(1)), ANNOUNCE_RECEIPT_TIMEOUT |-> Plain(Num(1)),
    LOG_SYNC_INTERVAL |-> Plain(Num(1)), VERSION_NUMBER |-> Plain(Num(1)) ]

(* The time, the tables and the options. *)
TimeLayouts ==
  [ TIME |-> Plain(Timestamp),
    CLOCK_ACCURACY |-> Plain(Num(1)),
    UTC_PROPERTIES |-> Plain(Num(2) \o Flags(1, 8)),
    TRACEABILITY_PROPERTIES |-> Plain(Flags(16, 64)),
    TIMESCALE_PROPERTIES |-> Plain(Flags(8, 16) \o Num(1)),
    UNICAST_NEGOTIATION_ENABLE |-> Plain(Flag),
    PATH_TRACE_LIST |-> Open(<< >>, ClockIdentity, 8),
    PATH_TRACE_ENABLE |-> Plain(Flag),
    GRANDMASTER_CLUSTER_TABLE |-> Counted(Num(1) \o Count(1), PortAddress),
    UNICAST_MASTER_TABLE |-> Counted(Num(1) \o Count(2), PortAddress),
    UNICAST_MASTER_MAX_TABLE_SIZE |-> Plain(Num(2)),
    ACCEPTABLE_MASTER_TABLE |-> Counted(Count(2), AcceptableMaster),
    ACCEPTABLE_MASTER_TABLE_ENABLED |-> Plain(Flag),
    ACCEPTABLE_MASTER_MAX_TABLE_SIZE |-> Plain(Num(2)),
    ALTERNATE_MASTER |-> Plain(Flag \o Num(1) \o Num(1)),
    ALTERNATE_TIME_OFFSET_ENABLE |-> Plain(Num(1) \o Flag),
    ALTERNATE_TIME_OFFSET_NAME |-> Plain(Num(1) \o PTPText),
    ALTERNATE_TIME_OFFSET_MAX_KEY |-> Plain(Num(1)),
    ALTERNATE_TIME_OFFSET_PROPERTIES |-> Plain(Num(1) \o Num(4) \o Num(4) \o U48) ]

(* Transparent clocks, IEEE 1588-2019, and the ids of linuxptp. *)
PortLayouts ==
  [ TRANSPARENT_CLOCK_PORT_DATA_SET |->
      Plain(PortIdentity \o Flag \o Num(1) \o TimeInterval),
    LOG_MIN_PDELAY_REQ_INTERVAL |-> Plain(Num(1)),
    TRANSPARENT_CLOCK_DEFAULT_DATA_SET |->
      Plain(ClockIdentity \o Num(2) \o Num(1) \o Num(1)),
    PRIMARY_DOMAIN |-> Plain(Num(1)), DELAY_MECHANISM |-> Plain(Num(1)),
    EXTERNAL_PORT_CONFIGURATION_ENABLED |-> Plain(Flag),
    MASTER_ONLY |-> Plain(Flag), HOLDOVER_UPGRADE_ENABLE |-> Plain(Flag),
    EXT_PORT_CONFIG_PORT_DATA_SET |-> Plain(Flag \o Num(1)),
    TIME_STATUS_NP |->
      Plain(Num(8) \o Num(8) \o Num(4) \o Num(4) \o Num(2) \o Num(2) \o Num(8) \o Num(2)
            \o Num(4) \o ClockIdentity),
    GRANDMASTER_SETTINGS_NP |-> Plain(ClockQuality \o Num(2) \o Flags(1, 64) \o Num(1)),
    PORT_DATA_SET_NP |-> Plain(Num(4) \o Num(4)),
    SUBSCRIBE_EVENTS_NP |-> Plain(Num(2) \o Octets(64)),
    PORT_PROPERTIES_NP |-> Plain(PortIdentity \o Num(1) \o Num(1) \o PTPText),
    PORT_STATS_NP |-> Plain(PortIdentity \o [i \in 1 .. 32 |-> Field("le", 8)[1]]),
    SYNCHRONIZATION_UNCERTAIN_NP |-> Plain(Num(1)) ]

RxSyncRecord == Num(2) \o Timestamp \o TimeInterval \o Num(4) \o Timestamp
ComputedRecord == Num(2) \o TimeInterval \o TimeInterval \o Num(4)
TxEventRecord == Num(2) \o Timestamp
DelayRecord == Num(2) \o Timestamp \o TimeInterval \o Timestamp
Float64 == Field("float", 8)

(* Mutant: the sequence number is left out of the size of a record. *)
RxSyncSizeShort == 4 + 8 + 2 * 10

RxSyncSize == 6 + 8 + 2 * 10

(* The TLVs of signaling messages. *)
SigLayouts ==
  [ ORGANIZATION_EXTENSION |-> Plain(Octets(3) \o Octets(3) \o Field("tail", 0)),
    PATH_TRACE |-> Open(<< >>, ClockIdentity, 8),
    ALTERNATE_TIME_OFFSET_INDICATOR |->
      Plain(Num(1) \o Num(4) \o Num(4) \o Num(8) \o PTPText),
    ENHANCED_ACCURACY_METRICS |->
      Plain(Num(1) \o Num(1) \o Reserved \o Reserved \o TimeInterval \o Float64
            \o TimeInterval \o Float64 \o TimeInterval \o Float64
            \o TimeInterval \o Float64 \o TimeInterval \o Float64),
    L1_SYNC |-> Plain(Flags(1, 16) \o Flags(1, 8)),
    PORT_COMMUNICATION_AVAILABILITY |-> Plain(Flags(1, 16) \o Flags(1, 16)),
    PROTOCOL_ADDRESS |-> Plain(PortAddress),
    SLAVE_RX_SYNC_TIMING_DATA |-> Open(PortIdentity, RxSyncRecord, RxSyncSize),
    SLAVE_RX_SYNC_COMPUTED_DATA |->
      Open(PortIdentity \o Flags(1, 8) \o Reserved, ComputedRecord, 6 + 2 * 8),
    SLAVE_TX_EVENT_TIMESTAMPS |->
      Open(PortIdentity \o Num(1) \o Reserved, TxEventRecord, 2 + 10),
    CUMULATIVE_RATE_RATIO |-> Plain(Num(4)),
    SLAVE_DELAY_TIMING_DATA_NP |-> Open(PortIdentity, DelayRecord, 2 + 8 + 2 * 10) ]

(* All TLV functions of the library. *)
MngIds == DOMAIN ClockLayouts \cup DOMAIN TimeLayouts \cup DOMAIN PortLayouts
AllLayouts ==
  [t \in MngIds \cup DOMAIN SigLayouts |->
     IF t \in DOMAIN ClockLayouts THEN ClockLayouts[t]
     ELSE IF t \in DOMAIN TimeLayouts THEN TimeLayouts[t]
     ELSE IF t \in DOMAIN PortLayouts THEN PortLayouts[t] ELSE SigLayouts[t]]

(* The ids that ids.h allows to GET only, and those that are sent with a structure. *)
GetOnlyIds ==
  { "CLOCK_DESCRIPTION", "FAULT_LOG", "DEFAULT_DATA_SET", "CURRENT_DATA_SET",
    "PARENT_DATA_SET", "TIME_PROPERTIES_DATA_SET", "PORT_DATA_SET", "PATH_TRACE_LIST",
    "UNICAST_MASTER_MAX_TABLE_SIZE", "ACCEPTABLE_MASTER_MAX_TABLE_SIZE",
    "ALTERNATE_TIME_OFFSET_MAX_KEY", "TRANSPARENT_CLOCK_PORT_DATA_SET",
    "TRANSPARENT_CLOCK_DEFAULT_DATA_SET", "TIME_STATUS_NP", "PORT_PROPERTIES_NP",
    "PORT_STATS_NP" }
SentIds == MngIds \ GetOnlyIds

(***************************************************************************)
(* The column "size" of ids.h, for the ids with a function: the octets of  *)
(* the dataField, always even, or -2 if it varies.                         *)
(***************************************************************************)
SizeOf(id) ==
  CASE id \in {"CLOCK_DESCRIPTION", "USER_DESCRIPTION", "FAULT_LOG", "PATH_TRACE_LIST",
               "GRANDMASTER_CLUSTER_TABLE", "UNICAST_MASTER_TABLE",
               "ACCEPTABLE_MASTER_TABLE", "ALTERNATE_TIME_OFFSET_NAME",
               "PORT_PROPERTIES_NP"} -> -2
    [] id \in {"TIME_PROPERTIES_DATA_SET", "UTC_PROPERTIES", "ALTERNATE_MASTER"} -> 4
    [] id \in {"GRANDMASTER_SETTINGS_NP", "PORT_DATA_SET_NP"} -> 8
    [] id = "TIME" -> 10
    [] id = "TRANSPARENT_CLOCK_DEFAULT_DATA_SET" -> 12
    [] id = "ALTERNATE_TIME_OFFSET_PROPERTIES" -> 16
    [] id = "CURRENT_DATA_SET" -> 18
    [] id \in {"DEFAULT_DATA_SET", "TRANSPARENT_CLOCK_PORT_DATA_SET"} -> 20
    [] id = "PORT_DATA_SET" -> 26
    [] id = "PARENT_DATA_SET" -> 32
    [] id = "TIME_STATUS_NP" -> 50
    [] id = "SUBSCRIBE_EVENTS_NP" -> 66
    [] id = "PORT_STATS_NP" -> 266
    [] OTHER -> 2

(***************************************************************************)
(* The octets the TLVs of fixed size have by the types of their members    *)
(* (msg.h 40-63, sig.h), for those of signaling messages.                  *)
(***************************************************************************)
SigSizeOf(type) ==
  CASE type \in {"L1_SYNC", "PORT_COMMUNICATION_AVAILABILITY"} -> 2
    [] type = "CUMULATIVE_RATE_RATIO" -> 4
    [] type = "ENHANCED_ACCURACY_METRICS" -> 4 + 5 * (8 + 8)
    [] OTHER -> -2

(* Mutant: the unicast table is taken to begin like the cluster table. *)
SizeBaseAlike(id) ==
  CASE id = "CLOCK_DESCRIPTION" -> 13
    [] id = "PORT_PROPERTIES_NP" -> 2 + 10
    [] id = "ALTERNATE_TIME_OFFSET_NAME" -> 1
    [] id \in {"USER_DESCRIPTION", "PATH_TRACE_LIST"} -> 0
    [] OTHER -> 2

(***************************************************************************)
(* The constant part of the nine size functions of proc.cpp; the size() of *)
(* the texts, addresses and records is added to it. CLOCK_DESCRIPTION has  *)
(* 14 octets that are always there: 2 for the type, 2 for the length of    *)
(* the address, 3 and 6 for the identities and one that is reserved.       *)
(***************************************************************************)
SizeBase(id) ==
  CASE id = "CLOCK_DESCRIPTION" -> 13
    [] id = "PORT_PROPERTIES_NP" -> 2 + 10
    [] id \in {"FAULT_LOG", "GRANDMASTER_CLUSTER_TABLE", "ACCEPTABLE_MASTER_TABLE"} -> 2
    [] id = "UNICAST_MASTER_TABLE" -> 3
    [] id = "ALTERNATE_TIME_OFFSET_NAME" -> 1
    [] OTHER -> 0
=============================================================================
