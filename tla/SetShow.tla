------------------------------ MODULE SetShow ------------------------------
(***************************************************************************)
(* The way of a value through the program: from the line a user types to   *)
(* pmc (KeyParser), through build() and parse() (Codec), to JSON (Json).   *)
(* The clock that is asked answers a SET with the dataField it was sent.   *)
(*                                                                         *)
(* A behaviour follows one line after the other, or the library without    *)
(* pmc: nothing of a line or of a structure outlives the next.             *)
(***************************************************************************)
EXTENDS KeyParser, Json

setVars == <<keyVars, codecVars, json>>

(* What build() finds behind the headers in the buffer of pmc. *)
SendRoom == 2000 - 54

SetShowInit == KeyInit /\ CodecInit /\ json = NoJson

ReadLine ==
  /\ op = "none" /\ kpc # "done" /\ KeyNext
  /\ json' = NoJson /\ UNCHANGED codecVars

(* sendAction() builds the structure of call_data(), which is then freed. *)
SendTyped ==
  /\ kpc = "done" /\ ok /\ op = "none"
  /\ Start("build", kid, [head |-> dp, recs |-> << >>], << >>, SendRoom)
  /\ sent' = Nothing
  /\ json' = NoJson /\ UNCHANGED keyVars

(* The steps of the codec. Start forgets all that was before it, so that StartBuild
   and Receive are taken from the initial state, and StartParse after a build only. *)
CodecStep ==
  /\ \/ ProcWrites \/ ProcReads \/ NextRecord \/ EndBuild \/ EndParse
     \/ op = "build" /\ StartParse
     \/ kpc = "idle" /\ op = "none" /\ (StartBuild \/ Receive)
  /\ json' = NoJson /\ UNCHANGED keyVars

WriteJson ==
  /\ \/ JsonOfData
     \/ op = "none" /\ kpc = "idle" /\ JsonOfOther
  /\ UNCHANGED keyVars

(* The next line or message, which finds nothing of the last one. *)
NextOne ==
  /\ pc = "idle" /\ kpc # "keys" /\ <<op, kpc, json.of>> # <<"none", "idle", "none">>
  /\ kpc' = "idle" /\ kid' = "none" /\ left' = << >> /\ behind' = "plain"
  /\ num' = << >> /\ str_val' = << >> /\ req' = << >>
  /\ dp' = << >> /\ ok' = FALSE /\ typed' = << >>
  /\ op' = "none" /\ tlv' = "none" /\ rec' = 0 /\ pos' = 1
  /\ d' = [head |-> << >>, recs |-> << >>] /\ buf' = << >> /\ len' = 0 /\ cnt' = 0
  /\ m_cur' = 0 /\ m_left' = 0 /\ m_size' = 0 /\ ret' = "OK" /\ room' = 0
  /\ sent' = Nothing /\ json' = NoJson
  /\ UNCHANGED pc

SetShowNext == ReadLine \/ SendTyped \/ CodecStep \/ WriteJson \/ NextOne

SetShowSpec == SetShowInit /\ [][SetShowNext]_setVars

-----------------------------------------------------------------------------
(* The octets, or the flag, that a document shows under a name in the dataField. *)
ValueAt(name) ==
  LET at == SelectLastInSeq(json.tokens, LAMBDA x : x.k = "name" /\ x.v = name)
  IN  json.tokens[at + 1].v

(* A number as its n octets; it must have no others. *)
InOctets(x, n) == SubSeq(x, n + 1, 8) = SubSeq(Int64(0), n + 1, 8)
Upper48(x) == SubSeq(x, 5, 8) \o SubSeq(x, 1, 4)

(* The document shows the number n that was typed for the key k. *)
ShowsNumber(k, n) ==
  CASE kid = "TIME" ->
         LET v == ValueAt("currentTime") IN
         IF k = "secondsField" THEN SubSeq(v, 1, 8) = Upper48(n)
         ELSE SubSeq(v, 9, 12) = SubSeq(n, 1, 4) /\ InOctets(n, 4)
    [] kid = "VERSION_NUMBER" ->
         LET v == ValueAt("versionNumber")[1] IN
         IF k = "minor" THEN v \div 16 = n[1] ELSE v % 16 = n[1]
    [] k = "timeOfNextJump" -> ValueAt(k) = Upper48(n)
    [] k = "timeSource" -> ValueAt(k) = NameOf("timeSource", SubSeq(n, 1, 1)) /\ InOctets(n, 1)
    [] k = "desiredState" -> ValueAt(k) = NameOf("portState", SubSeq(n, 1, 1)) /\ InOctets(n, 1)
    [] kid = "SYNCHRONIZATION_UNCERTAIN_NP" -> ValueAt("val") = SubSeq(n, 1, 1) /\ InOctets(n, 1)
    [] OTHER -> LET v == ValueAt(k) IN v = SubSeq(n, 1, Len(v)) /\ InOctets(n, Len(v))

(* Keys that json.cpp does not show. *)
NotShown == {"NOTIFY_PORT_STATE", "NOTIFY_TIME_SYNC"}

(***************************************************************************)
(* What a user typed after a key of pmc is what the JSON of the answer     *)
(* shows under its name: no table of the key parser, of the TLV functions  *)
(* or of json.cpp mixes members up, and no value is cut on its way. A time *)
(* source or port state that was typed as a number without a name is shown *)
(* as unknown, as json.cpp writes all of these. Left out are the sync      *)
(* interval, of which build_LOG_SYNC_INTERVAL() keeps only whether it is 0, *)
(* and texts longer than the 255 a PTPText can say.                        *)
(***************************************************************************)
SetIsShown ==
  json.of = "data" /\ kpc = "done" /\ behind = "plain" /\ kid # "LOG_SYNC_INTERVAL" =>
    \A k \in DOMAIN num \ NotShown :
      LET key == KeysOf(kid)[k]
          n == LineNumber(kid, typed, k)
          text == LineText(kid, typed, k)
      IN  IF key.can_str THEN Len(text) > 255 \/ ValueAt(k) = text
          ELSE IF key.flag THEN ValueAt(k)[1] = (IF n = Int64(0) THEN 0 ELSE 1)
          ELSE ShowsNumber(k, n)
=============================================================================
