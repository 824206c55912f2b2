----------------------------- MODULE MCMessage -----------------------------
(***************************************************************************)
(* Small instances of Message.  The ids stand for the classes of ids.h: no *)
(* dataField, fixed and variable size, every set of allowed actions, and   *)
(* the ids of linuxptp; sizes are those of the table.                      *)
(***************************************************************************)
EXTENDS Message

MCIds == {"NULL_PTP_MANAGEMENT", "USER_DESCRIPTION", "INITIALIZE", "TIME", "SYNC_NP"}
MCLinuxptpIds == {"SYNC_NP"}
MCEmptyIds == {"NULL_PTP_MANAGEMENT"}
MCAllowed ==
  [i \in MCIds |-> CASE i = "NULL_PTP_MANAGEMENT" -> {"GET", "SET", "COMMAND"}
                     [] i = "INITIALIZE" -> {"COMMAND"}
                     [] OTHER -> {"GET", "SET"}]
(* For the runs about replies: fewer ids, and hardly any request. *)
ReplyIds == MCIds \ {"USER_DESCRIPTION"}
ReplyAllowed ==
  [i \in ReplyIds |-> CASE i = "NULL_PTP_MANAGEMENT" -> {"GET", "COMMAND"}
                        [] i = "INITIALIZE" -> {"COMMAND"}
                        [] OTHER -> {"SET"}]
MCSize ==
  [i \in MCIds |-> CASE i = "NULL_PTP_MANAGEMENT" -> 0
                     [] i = "USER_DESCRIPTION" -> -2
                     [] i = "TIME" -> 10
                     [] OTHER -> 2]
ReplySize == [i \in ReplyIds |-> MCSize[i]]
ReplyEmptySize == [i \in ReplyIds |-> 0]
MCEmptySize == [i \in MCIds |-> IF i = "USER_DESCRIPTION" THEN 1 ELSE 0]

S(id, len, badAt) == [id |-> id, len |-> len, badAt |-> badAt]
MCStructs ==
  { S("USER_DESCRIPTION", 1, NoBad), S("USER_DESCRIPTION", 4, NoBad),
    S("INITIALIZE", 2, NoBad), S("TIME", 10, NoBad), S("TIME", 10, 0),
    S("SYNC_NP", 2, NoBad), S("NULL_PTP_MANAGEMENT", 0, NoBad) }

(* Buffers around every planned length. *)
MCBufSizes == {53, 54, 55, 56, 58, 63, 64}

(***************************************************************************)
(* Replies: a dataField of left octets in a message of extra octets more   *)
(* (or fewer) than that takes.                                             *)
(***************************************************************************)
Reply(id, action, left, extra, need, err) ==
  [type |-> "Management", ctl |-> "Mng", hdrOk |-> TRUE, size |-> 54 + left + extra,
   action |-> action, tlvType |-> "MANAGEMENT", length |-> 2 + left, id |-> id,
   errId |-> 0, display |-> "", need |-> need, err |-> err, val |-> "v"]
Error(id, action, errId, text, left, extra) ==
  [Reply(id, action, 0, 0, Len(text) + 1, "OK") EXCEPT
     !.tlvType = "MANAGEMENT_ERROR_STATUS", !.length = 8 + left,
     !.size = 60 + left + extra, !.errId = errId,
     !.display = IF left > 1 THEN text ELSE ""]

Good == Reply("TIME", "RESPONSE", 10, 0, 10, "OK")
Replies ==
  { Good, [Good EXCEPT !.size = 63], [Good EXCEPT !.length = 2], [Good EXCEPT !.length = 13],
    [Good EXCEPT !.length = 1], [Good EXCEPT !.length = 8], [Good EXCEPT !.size = 53],
    [Good EXCEPT !.id = "none"], [Good EXCEPT !.action = "ACKNOWLEDGE"],
    [Good EXCEPT !.action = "GET"], [Good EXCEPT !.tlvType = "PAD"],
    Reply("TIME", "RESPONSE", 4, 12, 10, "OK"), Reply("SYNC_NP", "RESPONSE", 4, 0, 2, "SIZE_MISS"),
    Reply("SYNC_NP", "RESPONSE", 2, 0, 2, "OK"),
    Reply("INITIALIZE", "ACKNOWLEDGE", 2, 0, 2, "OK"),
    Reply("INITIALIZE", "RESPONSE", 2, 0, 2, "OK"),
    Reply("NULL_PTP_MANAGEMENT", "RESPONSE", 0, 0, 0, "OK"),
    Reply("NULL_PTP_MANAGEMENT", "ACKNOWLEDGE", 2, 0, 0, "OK") }
Errors ==
  { Error("TIME", "RESPONSE", 0, "no", 4, 0), Error("TIME", "RESPONSE", 1, "no", 0, 0),
    Error("TIME", "RESPONSE", 1, "no", 4, -1), Error("TIME", "ACKNOWLEDGE", 1, "no", 0, 0),
    Error("TIME", "RESPONSE", 1, "wrong", 4, 0), Error("TIME", "RESPONSE", 1, "no", 1, 0),
    Error("SYNC_NP", "RESPONSE", 0, "no", 0, 0), Error("TIME", "RESPONSE", 0, "no", 0, -1),
    [Error("TIME", "RESPONSE", 1, "no", 0, 0) EXCEPT !.length = 6] }
Foreign ==
  { [Good EXCEPT !.size = 40], [Good EXCEPT !.size = 51], [Good EXCEPT !.ctl = "Def"],
    [Good EXCEPT !.hdrOk = FALSE], [Good EXCEPT !.type = "Other"],
    [Good EXCEPT !.type = "Signaling"] }
Sig(size) == [Good EXCEPT !.type = "Signaling", !.ctl = "Def", !.size = size]

MCWire == Replies \cup Errors \cup Foreign
FewWire == {Good, Reply("NULL_PTP_MANAGEMENT", "RESPONSE", 0, 0, 0, "OK"), Sig(50)}

MCSigTlvs == { [type |-> "L1_SYNC", len |-> n, id |-> "none", err |-> "OK", moved |-> 0]
               : n \in {0, 6} }

Prms(spec, zeroGet, ts) ==
  [transportSpecific |-> ts, implementSpecific |-> spec, useZeroGet |-> zeroGet,
   rcvSignaling |-> FALSE, filterSignaling |-> FALSE, allowSigTlvs |-> {}]
MCPrmsSet ==
  { Prms("linuxptp", FALSE, 0), Prms("unknownImplementation", TRUE, 0),
    Prms("unknownImplementation", FALSE, 16) }
(* With signaling messages switched on and off between two messages. *)
SigPrmsSet ==
  MCPrmsSet \cup {[Prms("linuxptp", FALSE, 0) EXCEPT !.rcvSignaling = TRUE]}
=============================================================================
