---------------------------- MODULE MCSignaling ----------------------------
(***************************************************************************)
(* An instance of Signaling: three management ids (a common one, one of    *)
(* linuxptp, one without dataField), short messages of TLVs of each class  *)
(* of the switch, with fitting, empty and truncated fields, and long ones  *)
(* with enhanced accuracy metrics among their TLVs.                        *)
(***************************************************************************)
EXTENDS Signaling

MCIds == {"PRIORITY1", "TIME_STATUS_NP", "NULL_PTP_MANAGEMENT"}
MCLinuxptpIds == {"TIME_STATUS_NP"}
MCEmptyIds == {"NULL_PTP_MANAGEMENT"}

Tlv(type, len, err, moved) ==
  [type |-> type, len |-> len, id |-> "none", err |-> err, moved |-> moved]
MngTlv(id, len, err, moved) == [Tlv("MANAGEMENT", len, err, moved) EXCEPT !.id = id]

ShortTlvs ==
  { Tlv("PATH_TRACE", 0, "OK", 0), Tlv("PATH_TRACE", 8, "OK", 8),
    Tlv("L1_SYNC", 2, "OK", 2), Tlv("L1_SYNC", 1, "TOO_SMALL", 0),
    Tlv("SLAVE_DELAY_TIMING_DATA_NP", 10, "OK", 10),
    Tlv("PAD", 3, "OK", 0),
    MngTlv("PRIORITY1", 4, "OK", 2), MngTlv("PRIORITY1", 2, "OK", 0),
    MngTlv("PRIORITY1", 1, "OK", 0), MngTlv("PRIORITY1", 3, "TOO_SMALL", 0),
    MngTlv("TIME_STATUS_NP", 4, "OK", 2),
    MngTlv("NULL_PTP_MANAGEMENT", 4, "OK", 0),
    MngTlv("none", 6, "OK", 0) }

ShortSizes == {44, 47, 50, 60, 68}

(* Metrics are accepted from 116 octets on, and then move 124. *)
Metrics(len) ==
  Tlv("ENHANCED_ACCURACY_METRICS", len,
      IF len < 116 THEN "TOO_SMALL" ELSE "OK", IF len < 116 THEN 0 ELSE 124)

LongLen == 50
LongTlvs ==
  { Metrics(len) : len \in {115, 116, 123, 124, 130} } \cup
  { Tlv("PATH_TRACE", 64, "OK", 64), Tlv("ORGANIZATION_EXTENSION", 80, "OK", 80),
    Tlv("PAD", 60, "OK", 0), MngTlv("TIME_STATUS_NP", 52, "OK", 50) }

(* Room for up to three metrics, with and without a rest. *)
LongSizes == {164, 172, 300, 410}

MCSigTlvs == ShortTlvs \cup LongTlvs
MCSigSizes == ShortSizes \cup LongSizes

Prms(spec, ts, filter, allow) ==
  [transportSpecific |-> ts, implementSpecific |-> spec, useZeroGet |-> FALSE,
   rcvSignaling |-> TRUE, filterSignaling |-> filter, allowSigTlvs |-> allow]
MCPrmsSet ==
  { Prms("linuxptp", 0, FALSE, {}), Prms("unknownImplementation", 0, FALSE, {}),
    Prms("linuxptp", 0, TRUE,
         {"L1_SYNC", "SLAVE_DELAY_TIMING_DATA_NP", "ENHANCED_ACCURACY_METRICS"}),
    Prms("linuxptp", 16, FALSE, {"PAD"}) }

(***************************************************************************)
(* The messages that arrive: long ones are made of long TLVs, whose number *)
(* is thereby bounded as it is in the short ones.                          *)
(***************************************************************************)
LongOfLong ==
  pc = "sig" /\ pc' = "sig" /\ sigSize \in LongSizes => leftAll - leftAll' > LongLen

MCSigSpec == SigInit /\ [][SigNext /\ LongOfLong]_sigVars
=============================================================================
