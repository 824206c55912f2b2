----------------------------- MODULE KeyParser -----------------------------
(***************************************************************************)
(* call_data() of pmc_dump.cpp: the structure of a management id from the  *)
(* keys and values that follow the id on a line of the user.               *)
(*                                                                         *)
(* A line is a sequence of tokens, records of                              *)
(*   t       "word", "quoted" or "open", a quote that is not closed        *)
(*   w       the word, in one case of letters                              *)
(*   n0,n16  what strtoll() makes of it in base 0 and base 16              *)
(*   text    its octets, without quotes and escapes                        *)
(* A number is an int64_t of eight octets, least significant first.        *)
(***************************************************************************)
EXTENDS Integers, Sequences

CONSTANTS
  TypedLines,   \* what users type: records of id and tokens
  Behind,       \* what may stand in memory behind a line: "plain", "quoted", "open"
  BehindText,   \* the text there, if it is quoted
  Garbage       \* octets of memory that is not initialised

(* A line is a sequence of tokens. *)
ASSUME LinesAssumption ==
  \A l \in TypedLines : l.tokens \in Seq({l.tokens[i] : i \in DOMAIN l.tokens})

NotNumber == << >>

(* A number is an int64_t, a text and what memory holds are octets. *)
IsInt64(n) == n \in Seq(0 .. 255) /\ Len(n) = 8
IsToken(x) ==
  /\ x.n0 = NotNumber \/ IsInt64(x.n0)
  /\ x.n16 = NotNumber \/ IsInt64(x.n16)
  /\ x.text \in Seq(0 .. 255)
ASSUME TokensAssumption ==
  /\ \A l \in TypedLines : \A i \in DOMAIN l.tokens : IsToken(l.tokens[i])
  /\ BehindText \in Seq(0 .. 255) /\ Garbage \subseteq 0 .. 255

Int64(n) ==
  <<n % 256, (n \div 256) % 256, (n \div 65536) % 256, n \div 16777216, 0, 0, 0, 0>>

(* UINT8_MAX, UINT16_MAX, UINT32_MAX and UINT48_MAX have n octets of ones. *)
Ones(n) == [i \in 1 .. 8 |-> IF i <= n THEN 255 ELSE 0]
INT8_MAX == Int64(127)
INT16_MAX == Int64(32767)
INT32_MAX == Int64(2147483647)

(* x <= y, for a y that is not negative: the bounds of all keys. *)
Leq(x, y) ==
  \/ x = y \/ x[8] > 127
  \/ \E i \in 1 .. 8 : x[i] < y[i] /\ \A j \in (i + 1) .. 8 : x[j] = y[j]

-----------------------------------------------------------------------------
(* The keys of each id: val_key_t as the build functions fill it. *)

KeyWith(def, max) ==
  [can_str |-> FALSE, base |-> 0, def |-> def, max |-> max, min |-> Int64(0),
   req |-> FALSE, flag |-> FALSE, handle |-> "none"]
NumKey(max) == KeyWith(Int64(0), max)
FlagKey == [NumKey(Int64(0)) EXCEPT !.flag = TRUE]
TextKey == [NumKey(Int64(0)) EXCEPT !.can_str = TRUE]
HandleKey(h) == [NumKey(Int64(0)) EXCEPT !.handle = h]
Req(key) == [key EXCEPT !.req = TRUE]
Hex(key) == [key EXCEPT !.base = 16]

ClockKeys ==
  [ USER_DESCRIPTION |-> [userDescription |-> TextKey],
    INITIALIZE |-> [initializationKey |-> NumKey(Ones(2))],
    PRIORITY1 |-> [priority1 |-> KeyWith(Int64(128), Int64(255))],
    PRIORITY2 |-> [priority2 |-> KeyWith(Int64(128), Int64(255))],
    DOMAIN_ |-> [domainNumber |-> NumKey(Ones(1))],
    SLAVE_ONLY |-> [slaveOnly |-> FlagKey],
    LOG_ANNOUNCE_INTERVAL |-> [logAnnounceInterval |-> KeyWith(Int64(1), INT8_MAX)],
    ANNOUNCE_RECEIPT_TIMEOUT |-> [announceReceiptTimeout |-> KeyWith(Int64(3), Ones(1))],
    LOG_SYNC_INTERVAL |-> [logSyncInterval |-> NumKey(INT8_MAX)],
    VERSION_NUMBER |->
      [versionNumber |-> [KeyWith(Int64(2), Int64(15)) EXCEPT !.min = Int64(1)],
       minor |-> NumKey(Int64(15))],
    TIME |-> [secondsField |-> Req(NumKey(Ones(6))), nanosecondsField |-> NumKey(Ones(4))],
    CLOCK_ACCURACY |-> [clockAccuracy |-> KeyWith(Int64(239), Int64(239))],
    UTC_PROPERTIES |->
      [currentUtcOffset |-> Req(NumKey(INT16_MAX)), leap61 |-> FlagKey, leap59 |-> FlagKey,
       currentUtcOffsetValid |-> FlagKey],
    TRACEABILITY_PROPERTIES |-> [timeTraceable |-> FlagKey, frequencyTraceable |-> FlagKey],
    TIMESCALE_PROPERTIES |-> [ptpTimescale |-> FlagKey],
    UNICAST_NEGOTIATION_ENABLE |-> [unicastNegotiationPortDS |-> FlagKey],
    PATH_TRACE_ENABLE |-> [pathTraceDS |-> FlagKey] ]

PortKeys ==
  [ ACCEPTABLE_MASTER_TABLE_ENABLED |-> [acceptableMasterPortDS |-> FlagKey],
    ALTERNATE_MASTER |->
      [transmitAlternateMulticastSync |-> FlagKey,
       logAlternateMulticastSyncInterval |-> NumKey(INT8_MAX),
       numberOfAlternateMasters |-> NumKey(Ones(1))],
    ALTERNATE_TIME_OFFSET_ENABLE |-> [alternateTimescaleOffsetsDS |-> FlagKey],
    ALTERNATE_TIME_OFFSET_NAME |->
      [keyField |-> Req(NumKey(Ones(1))), displayName |-> Req(TextKey)],
    ALTERNATE_TIME_OFFSET_PROPERTIES |->
      [keyField |-> NumKey(Ones(1)), currentOffset |-> NumKey(INT32_MAX),
       jumpSeconds |-> NumKey(INT32_MAX), timeOfNextJump |-> NumKey(Ones(6))],
    LOG_MIN_PDELAY_REQ_INTERVAL |-> [logMinPdelayReqInterval |-> NumKey(INT8_MAX)],
    PRIMARY_DOMAIN |-> [primaryDomain |-> NumKey(Ones(1))],
    DELAY_MECHANISM |-> [delayMechanism |-> NumKey(Int64(254))],
    EXTERNAL_PORT_CONFIGURATION_ENABLED |-> [externalPortConfiguration |-> FlagKey],
    MASTER_ONLY |-> [masterOnly |-> FlagKey],
    HOLDOVER_UPGRADE_ENABLE |-> [holdoverUpgradeDS |-> FlagKey],
    EXT_PORT_CONFIG_PORT_DATA_SET |->
      [acceptableMasterPortDS |-> FlagKey, desiredState |-> HandleKey("getPortState")] ]

LinuxptpKeys ==
  [ GRANDMASTER_SETTINGS_NP |->
      [clockClass |-> Req(NumKey(Ones(1))), clockAccuracy |-> Req(Hex(NumKey(Ones(1)))),
       offsetScaledLogVariance |-> Req(Hex(NumKey(Ones(2)))),
       currentUtcOffset |-> Req(NumKey(INT16_MAX)),
       leap61 |-> FlagKey, leap59 |-> FlagKey, currentUtcOffsetValid |-> FlagKey,
       ptpTimescale |-> FlagKey, timeTraceable |-> FlagKey, frequencyTraceable |-> FlagKey,
       timeSource |-> Req(HandleKey("getTimeSource"))],
    PORT_DATA_SET_NP |->
      [neighborPropDelayThresh |-> Req(NumKey(Ones(4))), asCapable |-> Req(NumKey(INT32_MAX))],
    SUBSCRIBE_EVENTS_NP |->
      [duration |-> Req(NumKey(Ones(2))), NOTIFY_PORT_STATE |-> FlagKey,
       NOTIFY_TIME_SYNC |-> FlagKey],
    SYNCHRONIZATION_UNCERTAIN_NP |-> [duration |-> Req(NumKey(Ones(1)))] ]

(* The ids with keys, those whose tables can not be typed in, and all others. *)
KeysOf(id) ==
  IF id \in DOMAIN ClockKeys THEN ClockKeys[id]
  ELSE IF id \in DOMAIN PortKeys THEN PortKeys[id] ELSE LinuxptpKeys[id]
KeyIds == DOMAIN ClockKeys \cup DOMAIN PortKeys \cup DOMAIN LinuxptpKeys

TimeSources ==
  [GNSS |-> 32, GPS |-> 32, PTP |-> 64, NTP |-> 80, ATOMIC |-> 16, RADIO |-> 48, TERR |-> 48,
   SERIAL |-> 57, OSCILL |-> 160, INTERN |-> 160, OTHER_ |-> 144, HAND |-> 96]   \* OTHER is a keyword
PortStates ==
  [INITIALIZING |-> 1, FAULTY |-> 2, DISABLED |-> 3, LISTENING |-> 4, PRE_MASTER |-> 5,
   MASTER |-> 6, SOURCE |-> 6, PASSIVE |-> 7, UNCALIBRATED |-> 8, SLAVE |-> 9, CLIENT |-> 9]

InRange(n, min, max) == n # NotNumber /\ n[8] < 128 /\ Leq(min, n) /\ Leq(n, max)
Reading(key, tkn) == IF key.base = 16 THEN tkn.n16 ELSE tkn.n0

(* The value a key takes from a token, NotNumber if there is none. *)
ByName(names, tkn) == IF tkn.w \in DOMAIN names THEN Int64(names[tkn.w]) ELSE NotNumber
ByHandle(h, tkn) ==
  IF h = "getPortState" THEN ByName(PortStates, tkn)
  ELSE IF tkn.w \in DOMAIN TimeSources THEN ByName(TimeSources, tkn)
  ELSE IF InRange(tkn.n16, Int64(0), Ones(1)) THEN tkn.n16 ELSE NotNumber
ByNumber(key, tkn) ==
  LET n == Reading(key, tkn)
  IN  IF InRange(n, key.min, key.max) THEN n ELSE NotNumber
ByFlag(key, tkn) ==
  LET n == Reading(key, tkn) IN
  IF InRange(n, Int64(0), Ones(1)) THEN n
  ELSE IF tkn.w \in {"enable", "on", "true"} THEN Int64(1) ELSE Int64(0)

NumOf(key, tkn) ==
  IF key.handle # "none" THEN ByHandle(key.handle, tkn)
  ELSE IF key.flag THEN ByFlag(key, tkn)
  ELSE ByNumber(key, tkn)

(* The token is an error: neither a number nor a string that the key may have. *)
Wrong(key, tkn) == NumOf(key, tkn) = NotNumber /\ ~key.can_str

-----------------------------------------------------------------------------
(***************************************************************************)
(* kpc is "idle", "keys" in parseKeysFunc(), or "done"; kid the id, left   *)
(* the tokens not taken yet, behind what stands in memory after them, or   *)
(* that it was taken. For each key num, str_val and req are what val_key_t *)
(* holds. dp is the head of the structure, ok whether there is one; typed  *)
(* is the line (history).                                                  *)
(***************************************************************************)
VARIABLES kpc, kid, left, behind, num, str_val, req, dp, ok, typed

keyVars == <<kpc, kid, left, behind, num, str_val, req, dp, ok, typed>>

KeyInit ==
  /\ kpc = "idle" /\ kid = "none"
  /\ left = << >> /\ behind = "plain"
  /\ num = << >> /\ str_val = << >> /\ req = << >>
  /\ dp = << >> /\ ok = FALSE
  /\ typed = << >>

(* call_data(): the build function of an id sets its keys up. *)
CallData(id, line, b) ==
  /\ kid' = id /\ left' = line /\ behind' = b /\ typed' = line
  /\ dp' = << >> /\ ok' = FALSE
  /\ IF id \in KeyIds
     THEN LET keys == KeysOf(id) IN
          /\ kpc' = "keys"
          /\ num' = [k \in DOMAIN keys |-> keys[k].def]
          /\ str_val' = [k \in DOMAIN keys |-> << >>]
          /\ req' = [k \in DOMAIN keys |-> keys[k].req]
     ELSE kpc' = "done" /\ num' = << >> /\ str_val' = << >> /\ req' = << >>

(***************************************************************************)
(* parse_quote(), if a string may come, and strtok_r(). At the end of the  *)
(* line parse_quote() runs on over the terminating zero, and finds what    *)
(* stands in memory behind it. strtok_r() knows no quotes: where no string *)
(* may come, a quoted text is one token only if no separator is in it, and *)
(* the lines put no others there.                                          *)
(***************************************************************************)
Token(tokens, b, can_str) ==
  LET found(out, tkn, rest) == [out |-> out, tkn |-> tkn, rest |-> rest]
      behindTkn == [t |-> "quoted", w |-> "", n0 |-> NotNumber, n16 |-> NotNumber,
                    text |-> BehindText]
  IN  IF tokens # << >>
      THEN IF can_str /\ Head(tokens).t = "open" THEN found("error", << >>, << >>)
           ELSE found("token", Head(tokens), Tail(tokens))
      ELSE IF ~can_str \/ b \in {"plain", "taken"} THEN found("none", << >>, << >>)
      ELSE IF b = "open" THEN found("error", << >>, << >>)
      ELSE found("behind", behindTkn, << >>)

OneKey(keys) == \E k \in DOMAIN keys : DOMAIN keys = {k}
singleKey == OneKey(req)
TheKey == CHOOSE k \in DOMAIN req : TRUE

(* The token at which a key is looked for, the key, and the token after it. *)
First == Token(left, behind, singleKey /\ KeysOf(kid)[TheKey].can_str)
IsKey == singleKey \/ First.tkn.w \in DOMAIN req
KeyAt == IF singleKey THEN TheKey ELSE First.tkn.w
key0 == KeysOf(kid)[KeyAt]
Second == Token(First.rest, IF First.out = "behind" THEN "taken" ELSE behind, key0.can_str)

HasFirst == First.out \in {"token", "behind"}
HasSecond == Second.out \in {"token", "behind"}

(* The structure is given up; it is not freed. *)
Null ==
  /\ kpc' = "done" /\ ok' = FALSE
  /\ UNCHANGED <<kid, left, behind, num, str_val, req, dp, typed>>

(* The key takes the token as its value. *)
Assign(tkn) ==
  LET n == NumOf(key0, tkn) IN
  /\ num' = [num EXCEPT ![KeyAt] = IF n = NotNumber THEN @ ELSE n]
  /\ str_val' = [str_val EXCEPT ![KeyAt] = tkn.text]
  /\ req' = [req EXCEPT ![KeyAt] = FALSE]

(* A quote that is not closed, a key that is not one of the id, or a wrong value. *)
ParseError ==
  /\ kpc = "keys"
  /\ \/ First.out = "error"
     \/ HasFirst /\ ~IsKey
     \/ HasFirst /\ IsKey /\ Second.out = "error"
     \/ HasFirst /\ IsKey /\ HasSecond /\ Wrong(key0, Second.tkn)
     \/ HasFirst /\ IsKey /\ Second.out = "none" /\ singleKey /\ Wrong(key0, First.tkn)
  /\ Null

(* Mutant: a single key keeps its first value. *)
KeyAndValueOnce ==
  /\ kpc = "keys" /\ HasFirst /\ IsKey /\ HasSecond /\ ~Wrong(key0, Second.tkn)
  /\ Assign(Second.tkn)
  /\ left' = IF singleKey THEN << >> ELSE Second.rest
  /\ behind' = IF Second.out = "behind" THEN "taken" ELSE behind
  /\ UNCHANGED <<kpc, kid, dp, ok, typed>>

KeyAndValue ==
  /\ kpc = "keys" /\ HasFirst /\ IsKey /\ HasSecond /\ ~Wrong(key0, Second.tkn)
  /\ Assign(Second.tkn)
  /\ left' = Second.rest
  /\ behind' = IF First.out = "behind" \/ Second.out = "behind" THEN "taken" ELSE behind
  /\ UNCHANGED <<kpc, kid, dp, ok, typed>>

(* The last token is the value of a single key, and ends the loop. *)
ValueAlone ==
  /\ kpc = "keys" /\ HasFirst /\ singleKey /\ Second.out = "none" /\ ~Wrong(key0, First.tkn)
  /\ Assign(First.tkn)
  /\ left' = << >> /\ behind' = IF behind = "plain" THEN "plain" ELSE "taken"
  /\ UNCHANGED <<kpc, kid, dp, ok, typed>>

-----------------------------------------------------------------------------
(* The members of the structure *)

N(k, n) == SubSeq(num[k], 1, n)
IsSet(k) == num[k] # Int64(0)
Bit(k, b) == IF IsSet(k) THEN b ELSE 0
Text(k) == <<<< >>, str_val[k]>>
Upper(k) == SubSeq(num[k], 5, 8)
UtcFlags == Bit("leap61", 1) + Bit("leap59", 2) + Bit("currentUtcOffsetValid", 4)
TraceFlags == Bit("timeTraceable", 16) + Bit("frequencyTraceable", 32)

(* Mutant: the two digits of the version are swapped. *)
VersionOctetSwapped == num["minor"][1] + 16 * num["versionNumber"][1]

VersionOctet == 16 * num["minor"][1] + num["versionNumber"][1]

(* The build functions, field by field of the layouts; g is garbage. *)
ClockMembers(g) ==
  CASE kid = "USER_DESCRIPTION" -> Text("userDescription")
    [] kid = "INITIALIZE" -> <<N("initializationKey", 2)>>
    [] kid = "LOG_SYNC_INTERVAL" -> <<<<Bit("logSyncInterval", 1)>>>>
    [] kid = "VERSION_NUMBER" -> <<<<VersionOctet>>>>
    [] kid = "TIME" ->
         <<Upper("secondsField"), N("secondsField", 4), N("nanosecondsField", 4)>>
    [] kid = "UTC_PROPERTIES" -> <<N("currentUtcOffset", 2), <<UtcFlags>>>>
    [] kid = "TRACEABILITY_PROPERTIES" -> <<<<TraceFlags>>>>
    [] kid = "TIMESCALE_PROPERTIES" -> <<<<Bit("ptpTimescale", 8)>>, <<g>>>>
    [] OTHER -> <<N(TheKey, 1)>>

PortMembers(g) ==
  CASE kid = "ALTERNATE_MASTER" ->
         <<N("transmitAlternateMulticastSync", 1), N("logAlternateMulticastSyncInterval", 1),
           N("numberOfAlternateMasters", 1)>>
    [] kid = "ALTERNATE_TIME_OFFSET_ENABLE" -> <<<<g>>, N("alternateTimescaleOffsetsDS", 1)>>
    [] kid = "ALTERNATE_TIME_OFFSET_NAME" -> <<N("keyField", 1)>> \o Text("displayName")
    [] kid = "ALTERNATE_TIME_OFFSET_PROPERTIES" ->
         <<N("keyField", 1), N("currentOffset", 4), N("jumpSeconds", 4),
           Upper("timeOfNextJump"), N("timeOfNextJump", 4)>>
    [] kid = "EXT_PORT_CONFIG_PORT_DATA_SET" ->
         <<N("acceptableMasterPortDS", 1), N("desiredState", 1)>>
    [] OTHER -> <<N(TheKey, 1)>>

LinuxptpMembers ==
  CASE kid = "GRANDMASTER_SETTINGS_NP" ->
         <<N("clockClass", 1), N("clockAccuracy", 1), N("offsetScaledLogVariance", 2),
           N("currentUtcOffset", 2), <<UtcFlags + Bit("ptpTimescale", 8) + TraceFlags>>,
           N("timeSource", 1)>>
    [] kid = "PORT_DATA_SET_NP" -> <<N("neighborPropDelayThresh", 4), N("asCapable", 4)>>
    [] kid = "SUBSCRIBE_EVENTS_NP" ->
         <<N("duration", 2),
           <<Bit("NOTIFY_PORT_STATE", 1) + Bit("NOTIFY_TIME_SYNC", 2)>> \o [i \in 1 .. 63 |-> 0]>>
    [] OTHER -> <<N(TheKey, 1)>>

(* The tokens are used up: a key without value that is left over is passed over. *)
NoMoreTokens ==
  /\ kpc = "keys"
  /\ \/ First.out = "none"
     \/ HasFirst /\ ~singleKey /\ IsKey /\ Second.out = "none"
  /\ IF \E k \in DOMAIN req : req[k]
     THEN Null
     ELSE /\ kpc' = "done" /\ ok' = TRUE
          /\ \E g \in Garbage :
               dp' = IF kid \in DOMAIN ClockKeys THEN ClockMembers(g)
                     ELSE IF kid \in DOMAIN PortKeys THEN PortMembers(g)
                     ELSE LinuxptpMembers
          /\ UNCHANGED <<kid, left, behind, num, str_val, req, typed>>

(* What stands behind a line matters to keys with strings only. *)
MeetsEnd(id) == id \in KeyIds /\ \E k \in DOMAIN KeysOf(id) : KeysOf(id)[k].can_str

KeyNext ==
  \/ /\ kpc # "keys"
     /\ \E l \in TypedLines, b \in Behind :
          (b = "plain" \/ MeetsEnd(l.id)) /\ CallData(l.id, l.tokens, b)
  \/ ParseError \/ KeyAndValue \/ ValueAlone \/ NoMoreTokens

-----------------------------------------------------------------------------
(***************************************************************************)
(* What a line says of a key, read as a whole. With several keys the odd   *)
(* tokens are keys and the even ones their values, and the last value of a *)
(* key counts; an only key need not be named, and the last token counts.   *)
(***************************************************************************)
ValuesOf(id, line, k) ==
  IF OneKey(KeysOf(id))
  THEN { i \in 1 .. Len(line) : i % 2 = 0 \/ i = Len(line) }
  ELSE { i \in 1 .. Len(line) : i % 2 = 0 /\ line[i - 1].w = k }
LastOf(S) == CHOOSE i \in S : \A j \in S : j <= i

LineNumber(id, line, k) ==
  LET key == KeysOf(id)[k]
      at == ValuesOf(id, line, k)
      numbers == { i \in at : NumOf(key, line[i]) # NotNumber }
  IN  IF numbers = {} THEN key.def ELSE NumOf(key, line[LastOf(numbers)])
LineText(id, line, k) ==
  LET at == ValuesOf(id, line, k) IN IF at = {} THEN << >> ELSE line[LastOf(at)].text

(* A token that parse_quote() meets and that opens a quote. *)
OpenQuote(id, line) ==
  \E i \in 1 .. Len(line) :
    /\ line[i].t = "open"
    /\ \E k \in DOMAIN KeysOf(id) :
         /\ KeysOf(id)[k].can_str
         /\ OneKey(KeysOf(id)) \/ i \in ValuesOf(id, line, k)

LineIsRight(id, line) ==
  LET keys == KeysOf(id) IN
  /\ ~OpenQuote(id, line)
  /\ ~OneKey(keys) =>
       \A i \in 1 .. Len(line) : i % 2 = 1 => line[i].w \in DOMAIN keys
  /\ \A k \in DOMAIN keys :
       /\ \A i \in ValuesOf(id, line, k) : ~Wrong(keys[k], line[i])
       /\ keys[k].req => ValuesOf(id, line, k) # {}

(***************************************************************************)
(* The key parser of pmc_dump.cpp takes exactly the lines that name keys   *)
(* of the id with values in their ranges and all keys that are required,   *)
(* and each key then has the value the line says, or its default; provided *)
(* that no quoted text stands in memory behind the line.                   *)
(***************************************************************************)
KeysMatchLine ==
  kpc = "done" /\ kid \in KeyIds /\ behind = "plain" =>
    /\ ok <=> LineIsRight(kid, typed)
    /\ ok => \A k \in DOMAIN num : /\ num[k] = LineNumber(kid, typed, k)
                                   /\ str_val[k] = LineText(kid, typed, k)
=============================================================================
