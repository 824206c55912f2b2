------------------------------ MODULE MCCodec ------------------------------
(***************************************************************************)
(* Instances of Codec with every TLV function of the library. Octets follow *)
(* a pattern in which neighbours differ, so that a swap or a shift shows.  *)
(***************************************************************************)
EXTENDS SetShow

MCLayout == ClockLayouts @@ TimeLayouts @@ PortLayouts @@ SigLayouts

Pattern(n) == [i \in 1 .. n |-> (37 * i + 90) % 256]

FixedIds == { id \in MngIds : SizeOf(id) # -2 }
TextIds == {"USER_DESCRIPTION", "ALTERNATE_TIME_OFFSET_NAME"}
TableIds == {"GRANDMASTER_CLUSTER_TABLE", "UNICAST_MASTER_TABLE", "ACCEPTABLE_MASTER_TABLE"}

(* A structure with a text or address of n octets and high in its 48 bit value. *)
Fill(fs, n, high) ==
  [i \in 1 .. Len(fs) |->
     CASE fs[i].k \in {"num", "octets", "le", "flags"} -> Pattern(fs[i].n)
       [] fs[i].k = "high16" -> high
       [] fs[i].k = "body" -> Pattern(n)
       [] OTHER -> << >>]
Struct(t, n, high, recs) ==
  [tlv |-> t, head |-> Fill(MCLayout[t].head, n, high),
   recs |-> [i \in 1 .. recs |-> Fill(MCLayout[t].rec, n + i, high)]]

MCStructs ==
  { Struct(t, 0, <<7, 3, 0, 0>>, 0) : t \in SentIds }
  \cup { Struct(t, n, << >>, 0) : t \in TextIds, n \in {1, 2, 255, 256} }
  \cup { Struct(t, n, << >>, k) : t \in TableIds, n \in {0, 4}, k \in 1 .. 3 }
  \cup { Struct(t, 0, high, 0) : t \in {"TIME", "ALTERNATE_TIME_OFFSET_PROPERTIES"},
           high \in {<<255, 255, 0, 0>>, <<0, 0, 1, 0>>, <<255, 255, 255, 255>>} }
  \cup { Struct("USER_DESCRIPTION", 65539, << >>, 0) }

(* One octet too few, exact, one too many, and plenty. *)
MCRooms == {-1, 0, 1, 6}

Rcv(t, octets) == [tlv |-> t, octets |-> octets]
Rcvs(t, ns) == { Rcv(t, Pattern(n)) : n \in ns }

(* A fault record with texts of 1, 0 and k octets that says it has n octets. *)
FaultOf(n, k) == <<0, n>> \o Pattern(11) \o <<1, 65, 0, k>> \o Pattern(k)
Fault(n) == FaultOf(n, 2)

(* The ids with a port state or a time source that have a name, and others. *)
PortData(state) == Pattern(10) \o <<state>> \o Pattern(15)
TimeProperties(source) == Pattern(3) \o <<source>>

MCReceived ==
  UNION { Rcvs(t, {n \in (SizeOf(t) - 2) .. (SizeOf(t) + 2) : n > 0}) : t \in FixedIds }
  \cup UNION { Rcvs(t, {0, 1, 2, 3, 4}) :
               t \in {"L1_SYNC", "PORT_COMMUNICATION_AVAILABILITY", "CUMULATIVE_RATE_RATIO"} }
  \cup Rcvs("PATH_TRACE", {7, 8, 15, 16, 17}) \cup Rcvs("PATH_TRACE_LIST", {6, 8, 14, 16, 18})
  \cup Rcvs("SLAVE_RX_SYNC_TIMING_DATA", {9, 10, 42, 43, 44, 78, 79})
  \cup Rcvs("SLAVE_RX_SYNC_COMPUTED_DATA", {11, 12, 33, 34, 56, 57})
  \cup Rcvs("SLAVE_TX_EVENT_TIMESTAMPS", {11, 12, 23, 24, 36, 37})
  \cup Rcvs("SLAVE_DELAY_TIMING_DATA_NP", {9, 10, 39, 40, 70, 71})
  \cup Rcvs("ORGANIZATION_EXTENSION", {2, 5, 6, 9})
  \cup { Rcv("PROTOCOL_ADDRESS", <<0, 1, 0, 4>> \o Pattern(n)) : n \in {0, 3, 4, 5} }
  \cup { Rcv("PROTOCOL_ADDRESS", <<0, 1, 1, 0>> \o Pattern(4)), Rcv("PROTOCOL_ADDRESS", <<0, 1, 0>>) }
  \cup { Rcv("ALTERNATE_TIME_OFFSET_INDICATOR", Pattern(17) \o <<3>> \o Pattern(n)) : n \in {2, 3, 4} }
  \cup { Rcv("PORT_PROPERTIES_NP", Pattern(12) \o <<4>> \o Pattern(n)) : n \in {3, 5} }
  \cup { Rcv("CLOCK_DESCRIPTION", Pattern(2) \o <<1, 65, 0, 6>> \o Pattern(6)
             \o <<0, 1, 0, n>> \o Pattern(8) \o <<1, 66, 0, 2, 67, 68>> \o Pattern(8)) : n \in {4, 5, 200} }
  \cup { Rcv("FAULT_LOG", <<0, 2>> \o Fault(19) \o Fault(n)) : n \in {18, 19} }
  \cup { Rcv("FAULT_LOG", <<0, n>> \o Fault(19) \o <<0>>) : n \in {0, 1, 2} }
  \cup { Rcv("FAULT_LOG", <<0, 1>> \o FaultOf(n, k)) : n \in {18, 19, 22}, k \in {0, 1, 5} }
  \cup { Rcv("PORT_PROPERTIES_NP", Pattern(10) \o <<6, 1, 4>> \o Pattern(5)) }
  \cup { Rcv("PORT_DATA_SET", PortData(n)) : n \in {0, 6, 9, 10} }
  \cup { Rcv("TIME_PROPERTIES_DATA_SET", TimeProperties(n)) : n \in {32, 254} }

-----------------------------------------------------------------------------
(* Lines of users. Number literals with a prefix read the same in base 0 and 16. *)
Word(w, n0, n16, text) == [t |-> "word", w |-> w, n0 |-> n0, n16 |-> n16, text |-> text]
KeyWord(k) == Word(k, NotNumber, NotNumber, <<107>>)
Literal(n) == Word("", n, n, <<48, 120, 49>>)
Decimal == Word("", Int64(10), Int64(16), <<49, 48>>)
HexDigits == Word("", NotNumber, Int64(254), <<102, 101>>)
Minus == Literal([i \in 1 .. 8 |-> 255])
On == KeyWord("on")
Junk == KeyWord("junk")
Quoted(text) == [Junk EXCEPT !.t = "quoted", !.w = "", !.text = text]
Unclosed == [Junk EXCEPT !.t = "open", !.w = ""]

PlusOne(x) ==
  [i \in 1 .. 8 |-> IF \A j \in 1 .. (i - 1) : x[j] = 255 THEN (x[i] + 1) % 256 ELSE x[i]]

(* Values at and behind the bounds of a key, words and texts. *)
Usual(key) ==
  IF key.handle = "getPortState" THEN KeyWord("MASTER")
  ELSE IF key.handle = "getTimeSource" THEN KeyWord("GPS")
  ELSE IF key.flag THEN On
  ELSE IF key.can_str THEN Quoted(<<104, 105>>)
  ELSE Literal(key.max)
Tried(key) ==
  {Usual(key), Literal(key.min), Literal(PlusOne(key.max)), Minus, Junk, Decimal, HexDigits}
  \cup (IF key.flag THEN {Literal(Ones(1)), Literal(Int64(256))} ELSE {})
  \cup (IF key.can_str
        THEN {Unclosed, Quoted(<<34, 92>>), Quoted([i \in 1 .. 255 |-> 65]),
              Quoted([i \in 1 .. 256 |-> 65])}
        ELSE {})

Pair(id, k) == <<KeyWord(k), Usual(KeysOf(id)[k])>>
PairsOf(id, ks) == FoldSet(LAMBDA k, acc : Pair(id, k) \o acc, << >>, ks)
RequiredKeys(id) == {k \in DOMAIN KeysOf(id) : KeysOf(id)[k].req}

Single(id) == OneKey(KeysOf(id))
Typed(id, tokens) == [id |-> id, tokens |-> tokens]

LinesOf(id) ==
  LET keys == KeysOf(id)
      base == PairsOf(id, RequiredKeys(id))
      all == PairsOf(id, DOMAIN keys)
  IN  {<< >>, base, all, all \o <<Junk>>, all \o <<KeyWord("none"), Junk>>}
      \cup {PairsOf(id, RequiredKeys(id) \ {k}) : k \in RequiredKeys(id)}
      \cup UNION { {base \o <<KeyWord(k), v>> : v \in Tried(keys[k])} : k \in DOMAIN keys }
      \cup {all \o <<KeyWord(k)>> : k \in DOMAIN keys}
      \cup {all \o <<KeyWord(k), Literal(Int64(2))>> : k \in DOMAIN keys}
      \cup (IF Single(id) THEN UNION { {<<v>>, <<v, Decimal>>, <<Decimal, Decimal, v>>} :
                                       v \in Tried(keys[CHOOSE k \in DOMAIN keys : TRUE]) }
            ELSE {})

MCTypedLines ==
  UNION { {Typed(id, l) : l \in LinesOf(id)} : id \in KeyIds }
  \cup {Typed(id, << >>) : id \in TableIds \cup {"DEFAULT_DATA_SET"}}

MCBehind == {"plain", "quoted", "open"}
MCBehindText == <<98>>
MCGarbage == {0, 77}

(* The tables of this instance are those of the library. *)
ASSUME LibraryAssumption == LibraryTables

(* Enhanced accuracy metrics with the octets of their fields, and more. *)
FloatReceived == Rcvs("ENHANCED_ACCURACY_METRICS", {83, 84, 116, 120, 124})
=============================================================================
