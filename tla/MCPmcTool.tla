----------------------------- MODULE MCPmcTool -----------------------------
(***************************************************************************)
(* Small instances of PmcTool: two ids, a timeout of two milliseconds of   *)
(* two ticks each, and a handful of messages.                              *)
(***************************************************************************)
EXTENDS PmcTool

MCIds == {"NULL_PTP_MANAGEMENT", "TIME", "INITIALIZE"}
MCEmptyIds == {"NULL_PTP_MANAGEMENT"}
MCAllowed ==
  [i \in MCIds |-> CASE i = "NULL_PTP_MANAGEMENT" -> {"GET", "SET", "COMMAND"}
                     [] i = "INITIALIZE" -> {"COMMAND"}
                     [] OTHER -> {"GET", "SET"}]
MCSize ==
  [i \in MCIds |-> CASE i = "NULL_PTP_MANAGEMENT" -> 0 [] i = "TIME" -> 10 [] OTHER -> 2]
MCEmptySize == [i \in MCIds |-> 0]

TimeValue == [id |-> "TIME", len |-> 10, badAt |-> NoBad]
BadTime == [id |-> "TIME", len |-> 10, badAt |-> 0]
MCStructs == {TimeValue, BadTime}

(***************************************************************************)
(* A good reply, an error, an empty reply that changes the id, the echo of *)
(* a request, and two signaling messages.                                  *)
(***************************************************************************)
Good ==
  [type |-> "Management", ctl |-> "Mng", hdrOk |-> TRUE, size |-> 64,
   action |-> "RESPONSE", tlvType |-> "MANAGEMENT", length |-> 12, id |-> "TIME",
   errId |-> 0, display |-> "", need |-> 10, err |-> "OK", val |-> "v"]
Refusal == [Good EXCEPT !.tlvType = "MANAGEMENT_ERROR_STATUS", !.length = 8, !.size = 60,
                        !.need = 1]
Empty == [Good EXCEPT !.id = "NULL_PTP_MANAGEMENT", !.length = 2, !.size = 54, !.need = 0]
Echo == [Good EXCEPT !.action = "GET"]
Sig(size) == [Good EXCEPT !.type = "Signaling", !.ctl = "Def", !.size = size]

MCWire == {Good, Refusal, Empty, Echo, Sig(52)}
FewWire == {Good, Echo}

MCSigTlvs ==
  { [type |-> "SLAVE_DELAY_TIMING_DATA_NP", len |-> n, id |-> "none", err |-> "OK",
     moved |-> n] : n \in {4, 6} }

(* main() asks for the values of linuxptp; updateParams() may have refused. *)
Prms(rcv) ==
  [transportSpecific |-> 0, implementSpecific |-> "linuxptp", useZeroGet |-> FALSE,
   rcvSignaling |-> rcv, filterSignaling |-> TRUE,
   allowSigTlvs |-> IF rcv THEN {"SLAVE_DELAY_TIMING_DATA_NP"} ELSE {}]
MCPrmsSet == {Prms(TRUE), Prms(FALSE)}

None == [op |-> "none"]
Get(id) == [op |-> "plain", action |-> "GET", id |-> id]
Put(d) == [op |-> "data", action |-> "SET", d |-> d]
Cmd(d) == [op |-> "data", action |-> "COMMAND", d |-> d]

MCScripts ==
  { <<Put(TimeValue), Get("NULL_PTP_MANAGEMENT")>>, <<Get("TIME"), Put(TimeValue)>>,
    <<Put(TimeValue), Cmd(TimeValue)>>, <<None, Put(BadTime), Get("TIME")>>,
    <<Put(TimeValue), Get("INITIALIZE")>>, [i \in 1 .. 4 |-> Get("TIME")] }
FewScripts == { << >>, <<Get("TIME"), Get("TIME")>>, <<Get("TIME"), None>> }

(* The wall clock is set back, or forward by less or more than the timeout. *)
MCClockSteps == {-1, 0, 3}
=============================================================================
