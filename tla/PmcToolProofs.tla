--------------------------- MODULE PmcToolProofs ---------------------------
(***************************************************************************)
(* Proofs about the pmc tool, for any script, any timeout and any steps of *)
(* the wall clock.                                                         *)
(***************************************************************************)
EXTENDS PmcTool, MessageProofs, SequenceTheorems

(* A wait starts with a timeout, and goes on only while there is one. *)
LEMMA WaitOverKeepsTime ==
  ASSUME WaitOver, at' = "poll" PROVE timeout' > 0
  BY ToolAssumption DEF WaitOver, StartWait

(* rcv_timeout() polls again only while there is time left. *)
LEMMA AfterRcvKeepsTime ==
  ASSUME NEW r, AfterRcv(r), at' = "poll" PROVE timeout' > 0
  BY WaitOverKeepsTime DEF AfterRcv

(***************************************************************************)
(* rcv_timeout() never calls tpoll() with a timeout of 0, which would      *)
(* block for good, however the clock is stepped and whatever arrives.      *)
(***************************************************************************)
THEOREM NeverBlocksForever == ToolSpec => []NeverPollsForever
<1>1. ToolInit => NeverPollsForever
  BY DEF ToolInit, NeverPollsForever
<1>2. NeverPollsForever /\ [ToolNext]_allVars => NeverPollsForever'
  <2> SUFFICES ASSUME NeverPollsForever, [ToolNext]_allVars, at' = "poll"
               PROVE  timeout' > 0
    BY DEF NeverPollsForever
  <2>1. CASE UNCHANGED <<at, timeout>>
    BY <2>1 DEF NeverPollsForever
  <2>2. ~BatchLine /\ ~UdsLine /\ ~NetLine
    BY DEF BatchLine, UdsLine, NetLine, FgetsLine, FgetsEof, RunLine
  <2>3. ~NetRcv /\ ~PollReady /\ ~Signal
    BY DEF NetRcv, PollReady, Signal
  <2>4. ASSUME BatchWait \/ Send PROVE timeout' > 0
    BY <2>4, ToolAssumption DEF BatchWait, Send, StartWait
  <2>5. ASSUME PollTimeout PROVE timeout' > 0
    BY <2>5, WaitOverKeepsTime DEF PollTimeout
  <2>6. ASSUME Rcv PROVE timeout' > 0
    BY <2>6, AfterRcvKeepsTime DEF Rcv
  <2>7. ASSUME ParseMore PROVE timeout' > 0
    <3>1. pc' # "sig"
      BY <2>7 DEF ParseMore
    <3> QED
      BY <2>7, <3>1, AfterRcvKeepsTime DEF ParseMore
  <2>8. ~CloseStep
    BY DEF CloseStep
  <2>9. ASSUME NEW w \in Wire, NEW fromPeer \in BOOLEAN, Deliver(w, fromPeer)
        PROVE  UNCHANGED <<at, timeout>>
    BY <2>9 DEF Deliver, waitVars
  <2>10. ASSUME Type \/ EndInput \/ Tick \/ Exited \/ UNCHANGED allVars
         PROVE  UNCHANGED <<at, timeout>>
    BY <2>10 DEF Type, EndInput, Tick, Exited, allVars, toolVars, waitVars
  <2> QED
    BY <2>1, <2>2, <2>3, <2>4, <2>5, <2>6, <2>7, <2>8, <2>9, <2>10
       DEF ToolNext, ToolStep, Environment
<1> QED
  BY <1>1, <1>2, PTL DEF ToolSpec
-----------------------------------------------------------------------------
(* run_line() only goes on to send a request that setAction() accepted. *)
LEMMA RunLinePrepares ==
  ASSUME NEW c, RunLine(c) PROVE BuildReadsLiveData'
<1> SUFFICES ASSUME at' = "send" PROVE BuildReadsLiveData'
  BY DEF BuildReadsLiveData
<1>2. ret' = "true" /\ c.op \in {"plain", "data"}
  BY DEF RunLine
<1>3. CASE c.op = "plain"
  <2>1. Accept(c.action, c.id, NoStruct)
    BY <1>2, <1>3 DEF RunLine, SetAction, Refuse
  <2> QED
    BY <2>1 DEF Accept, BuildReadsLiveData
<1>4. CASE c.op = "data"
  <2>1. /\ Accept(c.action, c.d.id,
                  IF c.d.id # NullId /\ c.action # "GET" /\ Size[c.d.id] # 0
                  THEN c.d ELSE NoStruct)
        /\ dataLive' = TRUE
    BY <1>2, <1>4 DEF RunLine, SetActionData, Refuse
  <2> QED
    BY <2>1 DEF Accept, BuildReadsLiveData
<1> QED
  BY <1>2, <1>3, <1>4

(***************************************************************************)
(* When the tool builds a request, the structure build() reads was made    *)
(* for this very command and is not freed yet, whatever replies replaced   *)
(* the id of the Message, and whichever commands were refused, before.     *)
(***************************************************************************)
THEOREM BuildsFromLiveData == ToolSpec => []BuildReadsLiveData
<1>1. ToolInit => BuildReadsLiveData
  BY DEF ToolInit, BuildReadsLiveData
<1>2. BuildReadsLiveData /\ [ToolNext]_allVars => BuildReadsLiveData'
  <2> SUFFICES ASSUME BuildReadsLiveData, [ToolNext]_allVars PROVE BuildReadsLiveData'
    OBVIOUS
  <2>1. CASE at' # "send"
    BY <2>1 DEF BuildReadsLiveData
  <2>2. CASE UNCHANGED <<at, dataLive, vars>>
    BY <2>2 DEF BuildReadsLiveData, vars, msgVars
  <2>3. ASSUME BatchLine \/ UdsLine \/ NetLine PROVE BuildReadsLiveData'
    <3>1. CASE RunLine(Head(script)) \/ RunLine(Head(Fetched.buffer))
      BY <3>1, RunLinePrepares
    <3>2. CASE FgetsEof
      BY <2>1, <3>2 DEF FgetsEof
    <3>3. BatchLine => RunLine(Head(script))
      BY DEF BatchLine
    <3>4. UdsLine \/ NetLine => FgetsEof \/ RunLine(Head(Fetched.buffer))
      BY DEF UdsLine, NetLine, FgetsLine
    <3> QED
      BY <2>3, <3>1, <3>2, <3>3, <3>4
  <2>4. ASSUME Send PROVE BuildReadsLiveData'
    BY <2>4 DEF Send, BuildReadsLiveData
  <2>5. ASSUME BatchWait \/ NetRcv \/ PollReady \/ PollTimeout \/ Signal PROVE BuildReadsLiveData'
    BY <2>1, <2>5 DEF BatchWait, NetRcv, PollReady, PollTimeout, WaitOver, Signal
  <2>6. ASSUME Rcv \/ ParseMore PROVE BuildReadsLiveData'
    BY <2>1, <2>6 DEF Rcv, ParseMore, AfterRcv, WaitOver
  <2>7. ASSUME CloseStep PROVE BuildReadsLiveData'
    BY <2>1, <2>7 DEF CloseStep
  <2>8. ASSUME NEW w \in Wire, NEW fromPeer \in BOOLEAN, Deliver(w, fromPeer)
        PROVE  BuildReadsLiveData'
    BY <2>2, <2>8 DEF Deliver
  <2>9. ASSUME Type \/ EndInput \/ Tick \/ Exited \/ UNCHANGED allVars
        PROVE  BuildReadsLiveData'
    BY <2>2, <2>9 DEF Type, EndInput, Tick, Exited, allVars, toolVars
  <2> QED
    BY <2>3, <2>4, <2>5, <2>6, <2>7, <2>8, <2>9 DEF ToolNext, ToolStep, Environment
<1> QED
  BY <1>1, <1>2, PTL DEF ToolSpec
-----------------------------------------------------------------------------
(***************************************************************************)
(* What the tool holds of the user's input and of the network, on its way  *)
(* to the Message: commands that run_line() makes, and messages.           *)
(***************************************************************************)
Queued == [w : Wire, fromPeer : BOOLEAN]
InputOK ==
  /\ mode \in {"batch_uds", "batch_net", "uds", "net"}
  /\ script \in Seq(Command)
  /\ stdin \in [tty : BOOLEAN, queue : Seq(Command), buffer : Seq(Command), closed : BOOLEAN]
  /\ rx \in Seq(Queued)

(* fgets() moves commands from the pipe to the buffer and changes none. *)
LEMMA FetchedType ==
  ASSUME InputOK
  PROVE  Fetched \in [tty : BOOLEAN, queue : Seq(Command), buffer : Seq(Command),
                      closed : BOOLEAN]
<1>1. stdin.queue \in Seq(Command) /\ stdin.buffer \in Seq(Command)
  BY DEF InputOK
<1>2. stdin.queue # << >> =>
        <<Head(stdin.queue)>> \in Seq(Command) /\ Tail(stdin.queue) \in Seq(Command)
  BY <1>1
<1> QED
  BY <1>1, <1>2 DEF InputOK, Fetched

(* The line the tool turns to is a command, and the rest of the input stays one. *)
LEMMA FgetsType ==
  ASSUME InputOK, FgetsLine
  PROVE  /\ Head(Fetched.buffer) \in Command
         /\ stdin' \in [tty : BOOLEAN, queue : Seq(Command), buffer : Seq(Command),
                        closed : BOOLEAN]
<1>1. Fetched.buffer \in Seq(Command) /\ Fetched.buffer # << >>
  BY FetchedType DEF FgetsLine
<1>2. Head(Fetched.buffer) \in Command /\ Tail(Fetched.buffer) \in Seq(Command)
  BY <1>1
<1> HIDE DEF Fetched
<1> QED
  BY <1>2, FetchedType DEF FgetsLine

(* Every action of the tool keeps its input typed. *)
LEMMA InputStep == InputOK /\ [ToolNext]_allVars => InputOK'
<1> SUFFICES ASSUME InputOK, [ToolNext]_allVars PROVE InputOK'
  OBVIOUS
<1>1. CASE UNCHANGED <<mode, script, stdin, rx>>
  BY <1>1 DEF InputOK
<1>2. CASE BatchLine
  BY <1>2 DEF BatchLine, InputOK
<1>3. CASE UdsLine \/ NetLine
  <2>1. UNCHANGED <<mode, script, rx>> /\ (FgetsLine \/ UNCHANGED stdin)
    BY <1>3 DEF UdsLine, NetLine, FgetsEof
  <2> QED
    BY <2>1, FgetsType DEF InputOK
<1>4. CASE Rcv
  BY <1>4 DEF Rcv, InputOK
<1>5. ASSUME NEW w \in Wire, NEW fromPeer \in BOOLEAN, Deliver(w, fromPeer) PROVE InputOK'
  <2>1. [w |-> w, fromPeer |-> fromPeer] \in Queued
    BY DEF Queued
  <2> QED
    BY <1>5, <2>1 DEF Deliver, InputOK
<1>6. CASE Type
  <2>1. Head(script) \in Command /\ Tail(script) \in Seq(Command)
    BY <1>6 DEF Type, InputOK
  <2>2. Append(stdin.queue, Head(script)) \in Seq(Command)
    BY <2>1 DEF InputOK
  <2> QED
    BY <1>6, <2>1, <2>2 DEF Type, InputOK
<1>7. CASE EndInput
  BY <1>7 DEF EndInput, InputOK
<1>8. CASE \/ BatchWait \/ NetRcv \/ Send \/ PollReady \/ PollTimeout \/ ParseMore \/ CloseStep
           \/ Tick \/ Signal \/ Exited \/ UNCHANGED allVars
  BY <1>1, <1>8 DEF BatchWait, NetRcv, Send, PollReady, PollTimeout, ParseMore, CloseStep,
     Tick, Signal, Exited, allVars, toolVars
<1> QED
  BY <1>2, <1>3, <1>4, <1>5, <1>6, <1>7, <1>8 DEF ToolNext, ToolStep, Environment

(* run_line() calls setAction() as any application may. *)
LEMMA RunLineIsCall ==
  ASSUME NEW c \in Command, RunLine(c) PROVE [Next]_vars
<1>1. CASE c.op = "none"
  BY <1>1 DEF RunLine
<1>2. CASE c.op = "plain"
  <2>1. c.action \in SendActions /\ c.id \in Ids /\ SetAction(c.action, c.id)
    BY <1>2 DEF Command, RunLine
  <2> QED
    BY <2>1 DEF Next
<1>3. CASE c.op = "data"
  <2>1. c.action \in SendActions /\ c.d \in Structs /\ SetActionData(c.action, c.d)
    BY <1>3 DEF Command, RunLine
  <2> QED
    BY <2>1 DEF Next
<1> QED
  BY <1>1, <1>2, <1>3 DEF RunLine

(* What the tool does to its Message is a call of the Message, or nothing. *)
LEMMA ToolStepIsCall == InputOK /\ [ToolNext]_allVars => [Next]_vars
<1> SUFFICES ASSUME InputOK, [ToolNext]_allVars PROVE [Next]_vars
  OBVIOUS
<1>1. CASE BatchLine
  <2>1. Head(script) \in Command
    BY <1>1 DEF BatchLine, InputOK
  <2> QED
    BY <1>1, <2>1, RunLineIsCall DEF BatchLine
<1>2. CASE UdsLine \/ NetLine
  <2>1. FgetsLine \/ UNCHANGED vars
    BY <1>2 DEF UdsLine, NetLine, FgetsEof
  <2>2. FgetsLine => RunLine(Head(Fetched.buffer))
    BY DEF FgetsLine
  <2> QED
    BY <2>1, <2>2, FgetsType, RunLineIsCall
<1>3. CASE Send
  BY <1>3, BufAssumption DEF Send, Next
<1>4. CASE Rcv
  <2>1. Head(rx).w \in Wire
    <3>1. Head(rx) \in Queued
      BY <1>4 DEF Rcv, InputOK
    <3> QED
      BY <3>1 DEF Queued
  <2>2. Parse(Head(rx).w) \/ UNCHANGED vars
    BY <1>4 DEF Rcv
  <2> QED
    BY <2>1, <2>2 DEF Next
<1>5. CASE ParseMore
  BY <1>5 DEF ParseMore, Next
<1>6. ASSUME NEW w \in Wire, NEW fromPeer \in BOOLEAN, Deliver(w, fromPeer)
      PROVE  UNCHANGED vars
  BY <1>6 DEF Deliver
<1>7. CASE \/ BatchWait \/ NetRcv \/ PollReady \/ PollTimeout \/ CloseStep
           \/ Type \/ EndInput \/ Tick \/ Signal \/ Exited \/ UNCHANGED allVars
  BY <1>7 DEF BatchWait, NetRcv, PollReady, PollTimeout, CloseStep, Type, EndInput,
     Tick, Signal, Exited, allVars
<1> QED
  BY <1>1, <1>2, <1>3, <1>4, <1>5, <1>6, <1>7 DEF ToolNext, ToolStep, Environment

(* The input of the tool stays typed. *)
LEMMA InputIsTyped == ToolSpec => []InputOK
<1>1. ToolInit => InputOK
  <2> SUFFICES ASSUME ToolInit PROVE InputOK
    OBVIOUS
  <2>1. script \in Seq(Command) /\ mode \in {"batch_uds", "batch_net", "uds", "net"}
    BY ToolAssumption, ScriptsAssumption DEF ToolInit
  <2>2. << >> \in Seq(Command) /\ << >> \in Seq(Queued)
    OBVIOUS
  <2> QED
    BY <2>1, <2>2 DEF ToolInit, InputOK
<1> QED
  BY <1>1, InputStep, PTL DEF ToolSpec

(***************************************************************************)
(* The tool uses its Message only by the calls of the class, in an order   *)
(* the class allows: run_line(), sendAction() and rcv() never call into a  *)
(* parse() that is not over, and hand over only structures of their id.    *)
(* Whatever is proved of Message therefore holds inside the tool.          *)
(***************************************************************************)
THEOREM ToolImplementsMessage == ToolSpec => Spec
<1>1. ToolInit => Init
  BY DEF ToolInit
<1> QED
  BY <1>1, InputIsTyped, ToolStepIsCall, PTL DEF ToolSpec, Spec
-----------------------------------------------------------------------------
(***************************************************************************)
(* pkts is a natural number only because batch mode is inside a wait only  *)
(* for a request that it still counts.                                     *)
(***************************************************************************)
Waiting == at \in {"poll", "rcv", "parsing"}
WaitsForSome == batch /\ Waiting => pkts > 0
CountInv == ToolTypeOK /\ WaitsForSome

(* tpoll() never adds to the timeout, whatever the wall clock does. *)
LEMMA ReducedIsLess ==
  ASSUME ToolTypeOK, NEW step \in ClockSteps
  PROVE  Reduced(step) \in 0 .. Wait
<1>1. spent \div Ticks \in Nat
  BY ToolAssumption DEF ToolTypeOK
<1>2. step \in Int /\ timeout \in 0 .. Wait /\ Wait \in Nat
  BY ToolAssumption DEF ToolTypeOK
<1> QED
  BY <1>1, <1>2 DEF Reduced

(* The next wait, or its end, of a tool that waits for a packet. *)
LEMMA WaitOverCounts ==
  ASSUME CountInv, Waiting, WaitOver, UNCHANGED mode
  PROVE  /\ at' \in {"next", "poll", "close"}
         /\ pkts' \in Nat /\ timeout' \in 0 .. Wait
         /\ spent' \in Nat /\ waited' \in Nat /\ ignored' \in Nat /\ setBack' \in Nat
         /\ WaitsForSome'
         /\ batch => pkts' = pkts - 1
         /\ ~batch => pkts' = pkts /\ at' = "next"
<1>1. CASE batch
  BY <1>1, ToolAssumption
     DEF CountInv, ToolTypeOK, WaitsForSome, Waiting, WaitOver, StartWait, waitVars, batch
<1>2. CASE ~batch
  BY <1>2 DEF CountInv, ToolTypeOK, WaitsForSome, Waiting, WaitOver, waitVars, batch
<1> QED
  BY <1>1, <1>2

(* rcv() returned: all that rcv_timeout() may do with it. *)
LEMMA AfterRcvCounts ==
  ASSUME CountInv, Waiting, NEW r, AfterRcv(r), UNCHANGED <<mode, seq, sock, dataLive>>
  PROVE  CountInv'
<1>1. CASE mode = "net"
  BY <1>1 DEF AfterRcv, CountInv, ToolTypeOK, WaitsForSome, waitVars, batch, Waiting
<1>2. CASE mode # "net" /\ r = 1 /\ timeout > 0
  BY <1>2 DEF AfterRcv, CountInv, ToolTypeOK, WaitsForSome, batch, Waiting
<1>3. CASE mode # "net" /\ ~(r = 1 /\ timeout > 0)
  <2>1. WaitOver /\ counted' = counted + 1
    BY <1>3 DEF AfterRcv
  <2> QED
    BY <2>1, WaitOverCounts DEF CountInv, ToolTypeOK
<1> QED
  BY <1>1, <1>2, <1>3

(* Starting to wait. *)
LEMMA StartWaitType ==
  ASSUME StartWait
  PROVE  /\ timeout' \in 0 .. Wait /\ spent' \in Nat /\ waited' \in Nat
         /\ ignored' \in Nat /\ setBack' \in Nat
  BY ToolAssumption DEF StartWait

(* Every action keeps the counters. *)
LEMMA CountStep == CountInv /\ [ToolNext]_allVars => CountInv'
<1> SUFFICES ASSUME CountInv, [ToolNext]_allVars PROVE CountInv'
  OBVIOUS
<1>1. CASE UNCHANGED <<mode, at, seq, pkts, timeout, sock, dataLive, spent, waited, ignored,
                       setBack, counted>>
  BY <1>1 DEF CountInv, ToolTypeOK, WaitsForSome, Waiting, batch
<1>2. CASE BatchLine \/ UdsLine \/ NetLine
  <2>1. PICK c : RunLine(c) \/ FgetsEof
    BY <1>2 DEF BatchLine, UdsLine, NetLine, FgetsLine
  <2>2. at' \in {"next", "send", "close"} /\ dataLive' \in BOOLEAN
    BY <2>1 DEF RunLine, FgetsEof, CountInv, ToolTypeOK
  <2>3. UNCHANGED <<seq, pkts, timeout, spent, waited, ignored, setBack, sock, counted>>
    BY <1>2 DEF BatchLine, UdsLine, NetLine, waitVars
  <2> QED
    BY <2>2, <2>3 DEF CountInv, ToolTypeOK, WaitsForSome, Waiting
<1>3. CASE BatchWait
  BY <1>3, StartWaitType
     DEF BatchWait, CountInv, ToolTypeOK, WaitsForSome, Waiting, waitVars, batch
<1>4. CASE Send
  <2>1. /\ seq' \in Nat /\ pkts' \in Nat /\ at' \in {"next", "poll"}
        /\ mode # "uds" => at' = "next"
        /\ StartWait \/ UNCHANGED waitVars
    BY <1>4 DEF Send, CountInv, ToolTypeOK
  <2>2. /\ timeout' \in 0 .. Wait /\ spent' \in Nat /\ waited' \in Nat
        /\ ignored' \in Nat /\ setBack' \in Nat
    BY <2>1, StartWaitType DEF CountInv, ToolTypeOK, waitVars
  <2> QED
    BY <1>4, <2>1, <2>2 DEF Send, CountInv, ToolTypeOK, WaitsForSome, Waiting, batch
<1>5. CASE PollReady
  <2>1. timeout' \in 0 .. Wait /\ setBack' \in Nat
    <3>1. PICK step \in ClockSteps :
            timeout' = Reduced(step) /\ setBack' = IF step < 0 THEN setBack - step ELSE setBack
      BY <1>5 DEF PollReady
    <3> QED
      BY <3>1, ReducedIsLess, ToolAssumption DEF CountInv, ToolTypeOK
  <2> QED
    BY <1>5, <2>1 DEF PollReady, CountInv, ToolTypeOK, WaitsForSome, Waiting, batch
<1>6. CASE PollTimeout
  <2>1. Waiting /\ WaitOver /\ UNCHANGED <<mode, seq, sock, dataLive, counted>>
    BY <1>6 DEF PollTimeout, Waiting
  <2> QED
    BY <2>1, WaitOverCounts DEF CountInv, ToolTypeOK
<1>7. CASE Rcv \/ ParseMore
  <2>1. Waiting /\ UNCHANGED <<mode, seq, sock, dataLive>>
    BY <1>7 DEF Rcv, ParseMore, Waiting
  <2>2. \/ \E r : AfterRcv(r)
        \/ at' = "parsing" /\ UNCHANGED <<pkts, waitVars, counted>>
    BY <1>7 DEF Rcv, ParseMore
  <2>3. CASE at' = "parsing" /\ UNCHANGED <<pkts, waitVars, counted>>
    BY <2>1, <2>3 DEF CountInv, ToolTypeOK, WaitsForSome, Waiting, batch, waitVars
  <2> QED
    BY <2>1, <2>2, <2>3, AfterRcvCounts
<1>8. CASE CloseStep
  BY <1>8 DEF CloseStep, CountInv, ToolTypeOK, WaitsForSome, Waiting, batch, waitVars
<1>9. CASE Signal
  BY <1>9 DEF Signal, CountInv, ToolTypeOK, WaitsForSome, Waiting, batch, waitVars
<1>10. CASE Tick
  BY <1>10 DEF Tick, CountInv, ToolTypeOK, WaitsForSome, Waiting, batch
<1>11. ASSUME NEW w \in Wire, NEW fromPeer \in BOOLEAN, Deliver(w, fromPeer) PROVE CountInv'
  BY <1>1, <1>11 DEF Deliver, waitVars
<1>12. CASE NetRcv
  BY <1>12 DEF NetRcv, CountInv, ToolTypeOK, WaitsForSome, Waiting, batch, waitVars
<1>13. CASE Type \/ EndInput \/ Exited \/ UNCHANGED allVars
  BY <1>1, <1>13 DEF Type, EndInput, Exited, allVars, toolVars, waitVars
<1> QED
  BY <1>2, <1>3, <1>4, <1>5, <1>6, <1>7, <1>8, <1>9, <1>10, <1>11, <1>12, <1>13
     DEF ToolNext, ToolStep, Environment

(* The counters of the tool hold what their types say. *)
LEMMA Counts == ToolSpec => []CountInv
<1>1. ToolInit => CountInv
  <2> SUFFICES ASSUME ToolInit PROVE CountInv
    OBVIOUS
  <2>1. use_uds \in BOOLEAN
    BY DEF use_uds
  <2>2. sock \in [fd : {"open", "stale", "none"}, isInit : BOOLEAN, file : BOOLEAN]
    BY <2>1 DEF ToolInit
  <2>3. 0 \in 0 .. Wait
    BY ToolAssumption
  <2> QED
    BY <2>2, <2>3 DEF ToolInit, CountInv, ToolTypeOK, WaitsForSome, Waiting
<1> QED
  BY <1>1, CountStep, PTL DEF ToolSpec

(***************************************************************************)
(* The number of packets batch mode waits for never falls below 0 and the  *)
(* timeout never exceeds the one of the command line, however the clock is *)
(* stepped and whichever requests fail to be built or sent.                *)
(***************************************************************************)
THEOREM ToolTypeCorrect == ToolSpec => []ToolTypeOK
<1>1. CountInv => ToolTypeOK
  BY DEF CountInv
<1> QED
  BY <1>1, Counts, PTL
-----------------------------------------------------------------------------
(* The requests on the wire change only in sendAction(), and the mode never. *)
LEMMA OnlySendSends ==
  ASSUME [ToolNext]_allVars PROVE UNCHANGED mode /\ (Send \/ UNCHANGED <<seq, sent>>)
<1>1. ASSUME NEW w \in Wire, NEW fromPeer \in BOOLEAN, Deliver(w, fromPeer)
      PROVE  UNCHANGED <<mode, seq, sent>>
  BY <1>1 DEF Deliver
<1>2. ASSUME \/ BatchLine \/ BatchWait \/ UdsLine \/ NetRcv \/ NetLine \/ PollReady \/ PollTimeout
             \/ Rcv \/ ParseMore \/ CloseStep
      PROVE  UNCHANGED <<mode, seq, sent>>
  BY <1>2 DEF BatchLine, BatchWait, UdsLine, NetRcv, NetLine, PollReady, PollTimeout, Rcv,
     ParseMore, CloseStep
<1>3. ASSUME Type \/ EndInput \/ Tick \/ Signal \/ Exited \/ UNCHANGED allVars
      PROVE  UNCHANGED <<mode, seq, sent>>
  BY <1>3 DEF Type, EndInput, Tick, Signal, Exited, allVars, toolVars
<1>4. Send => UNCHANGED mode
  BY DEF Send
<1> QED
  BY <1>1, <1>2, <1>3, <1>4 DEF ToolNext, ToolStep, Environment

(***************************************************************************)
(* The file of the Unix socket exists only while close() would remove it.  *)
(***************************************************************************)
FileInv ==
  /\ sock \in [fd : {"open", "stale", "none"}, isInit : BOOLEAN, file : BOOLEAN]
  /\ sock.file => use_uds /\ sock.isInit
  /\ ExitLeavesNoFile

(***************************************************************************)
(* However the tool ends, by the end of its input, of its batch, or by a   *)
(* signal at any point of main() or of close() itself, the file of its     *)
(* Unix socket is removed and the descriptor closed.                       *)
(***************************************************************************)
THEOREM NoFileIsLeft == ToolSpec => []ExitLeavesNoFile
<1>1. ToolInit => FileInv
  <2>1. use_uds \in BOOLEAN
    BY DEF use_uds
  <2> QED
    BY <2>1 DEF ToolInit, FileInv, ExitLeavesNoFile
<1>2. FileInv /\ [ToolNext]_allVars => FileInv'
  <2> SUFFICES ASSUME FileInv, [ToolNext]_allVars PROVE FileInv'
    OBVIOUS
  <2>1. UNCHANGED mode
    BY OnlySendSends
  <2>2. CASE UNCHANGED sock /\ (at' # "exited" \/ UNCHANGED at)
    BY <2>1, <2>2 DEF FileInv, ExitLeavesNoFile, use_uds
  <2>3. CASE CloseStep
    BY <2>1, <2>3 DEF CloseStep, FileInv, ExitLeavesNoFile, use_uds
  <2>4. CASE Signal
    BY <2>1, <2>4 DEF Signal, FileInv, ExitLeavesNoFile, use_uds
  <2>5. CASE BatchLine \/ UdsLine \/ NetLine
    BY <2>2, <2>5 DEF BatchLine, UdsLine, NetLine, FgetsLine, FgetsEof, RunLine
  <2>6. CASE BatchWait \/ NetRcv \/ Send \/ PollReady \/ PollTimeout
    BY <2>2, <2>6 DEF BatchWait, NetRcv, Send, PollReady, PollTimeout, WaitOver
  <2>7. CASE Rcv \/ ParseMore
    BY <2>2, <2>7 DEF Rcv, ParseMore, AfterRcv, WaitOver
  <2>8. ASSUME NEW w \in Wire, NEW fromPeer \in BOOLEAN, Deliver(w, fromPeer) PROVE FileInv'
    BY <2>2, <2>8 DEF Deliver
  <2>9. CASE Type \/ EndInput \/ Tick \/ Exited \/ UNCHANGED allVars
    BY <2>2, <2>9 DEF Type, EndInput, Tick, Exited, allVars, toolVars
  <2> QED
    BY <2>3, <2>4, <2>5, <2>6, <2>7, <2>8, <2>9 DEF ToolNext, ToolStep, Environment
<1>3. FileInv => ExitLeavesNoFile
  BY DEF FileInv
<1> QED
  BY <1>1, <1>2, <1>3, PTL DEF ToolSpec
-----------------------------------------------------------------------------
(***************************************************************************)
(* The counter of sendAction() is the number of requests on the wire, and  *)
(* the sequence numbers there are its values, cut to the field.            *)
(***************************************************************************)
SeqInv ==
  /\ sent \in Seq([seq : Nat, id : Ids])
  /\ seq = Len(sent)
  /\ \A i \in 1 .. Len(sent) : sent[i].seq = (i - 1) % SeqMod

(* Numbers that are less than the modulus apart have different remainders. *)
LEMMA RemaindersDiffer ==
  ASSUME NEW m \in Nat \ {0}, NEW a \in Nat, NEW b \in Nat, a < b, b - a < m
  PROVE  a % m # b % m
<1> DEFINE p == a \div m
           q == b \div m
<1>1. p \in Int /\ q \in Int /\ a = m * p + (a % m) /\ b = m * q + (b % m)
  OBVIOUS
<1> HIDE DEF p, q
<1> SUFFICES ASSUME a % m = b % m PROVE FALSE
  OBVIOUS
<1>2. b - a = m * (q - p)
  BY <1>1
<1>3. q - p >= 1 \/ q - p <= 0
  BY <1>1
<1>4. q - p >= 1 => m * (q - p) >= m
  BY <1>1
<1>5. q - p <= 0 => m * (q - p) <= 0
  BY <1>1
<1> QED
  BY <1>1, <1>2, <1>3, <1>4, <1>5

(* sendAction() puts a request on the wire with the next number, or none. *)
LEMMA SendExtends ==
  ASSUME Send
  PROVE  \/ /\ sent' = Append(sent, [seq |-> seq % SeqMod, id |-> m_tlv_id])
            /\ seq' = seq + 1
            /\ pkts' = IF batch THEN pkts + 1 ELSE pkts
            /\ IF mode = "uds" THEN at' = "poll" ELSE at' = "next"
         \/ at' = "next" /\ UNCHANGED <<sent, seq, pkts>>
  BY DEF Send

(* The numbering holds in every reachable state. *)
LEMMA Numbered == ToolSpec => []SeqInv
<1>1. ToolInit => SeqInv
  BY DEF ToolInit, SeqInv
<1>2. SeqInv /\ TypeOK /\ [ToolNext]_allVars => SeqInv'
  <2> SUFFICES ASSUME SeqInv, TypeOK, [ToolNext]_allVars PROVE SeqInv'
    OBVIOUS
  <2>1. CASE UNCHANGED <<seq, sent>>
    BY <2>1 DEF SeqInv
  <2>2. ASSUME sent' = Append(sent, [seq |-> seq % SeqMod, id |-> m_tlv_id]), seq' = seq + 1
        PROVE  SeqInv'
    <3> DEFINE r == [seq |-> seq % SeqMod, id |-> m_tlv_id]
    <3>1. seq \in Nat /\ seq % SeqMod \in Nat /\ m_tlv_id \in Ids
      BY ToolAssumption DEF SeqInv, TypeOK
    <3>2. r \in [seq : Nat, id : Ids] /\ r.seq = seq % SeqMod
      BY <3>1
    <3> HIDE DEF r
    <3>3. sent' = Append(sent, r)
      BY <2>2 DEF r
    <3>4. sent' \in Seq([seq : Nat, id : Ids]) /\ Len(sent') = Len(sent) + 1
      BY <3>2, <3>3 DEF SeqInv
    <3>5. ASSUME NEW i \in 1 .. Len(sent') PROVE sent'[i].seq = (i - 1) % SeqMod
      BY <3>2, <3>3, <3>4 DEF SeqInv
    <3> QED
      BY <2>2, <3>4, <3>5 DEF SeqInv
  <2> QED
    BY <2>1, <2>2, OnlySendSends, SendExtends
<1> QED
  BY <1>1, <1>2, ToolImplementsMessage, MessageTypeCorrect, PTL DEF ToolSpec

(***************************************************************************)
(* The requests of the tool carry different sequence numbers over any      *)
(* window shorter than the range of the field, for every script: a request *)
(* that fails to be built or sent uses up no number, and the counter wraps *)
(* with the field.                                                         *)
(***************************************************************************)
THEOREM NumbersTellApart == ToolSpec => []SequenceTellsApart
<1>1. SeqInv => SequenceTellsApart
  <2> SUFFICES ASSUME SeqInv, NEW i \in DOMAIN sent, NEW j \in DOMAIN sent,
                      i < j, j - i < SeqMod
               PROVE  sent[i].seq # sent[j].seq
    BY DEF SequenceTellsApart
  <2>1. i \in 1 .. Len(sent) /\ j \in 1 .. Len(sent) /\ Len(sent) \in Nat
    BY DEF SeqInv
  <2>2. (i - 1) % SeqMod # (j - 1) % SeqMod
    <3>1. /\ i - 1 \in Nat /\ j - 1 \in Nat /\ i - 1 < j - 1 /\ (j - 1) - (i - 1) < SeqMod
          /\ SeqMod \in Nat \ {0}
      BY <2>1, ToolAssumption
    <3> QED
      BY <3>1, RemaindersDiffer
  <2> QED
    BY <2>1, <2>2 DEF SeqInv
<1> QED
  BY <1>1, Numbered, PTL
-----------------------------------------------------------------------------
(***************************************************************************)
(* In the interactive mode on the Unix socket the request that is waited   *)
(* for has not been counted yet; in batch mode pkts are still due.         *)
(***************************************************************************)
Balanced ==
  /\ mode \in {"batch_uds", "batch_net", "uds", "net"}
  /\ mode = "uds" => pkts = 0 /\ counted + (IF Waiting THEN 1 ELSE 0) <= Len(sent)
  /\ batch => counted + pkts <= Len(sent)

(* Only what rcv() counted, or gave up on, is taken off what is due. *)
LEMMA WaitOverBalanced ==
  ASSUME CountInv, Balanced, Len(sent) \in Nat, Waiting, WaitOver, UNCHANGED <<mode, sent>>,
         counted' \in {counted, counted + 1}
  PROVE  Balanced'
<1>1. CASE batch
  <2>1. pkts' = pkts - 1 /\ mode # "uds"
    BY <1>1, WaitOverCounts DEF batch
  <2> QED
    BY <1>1, <2>1 DEF CountInv, ToolTypeOK, Balanced, batch
<1>2. CASE ~batch
  <2>1. pkts' = pkts /\ at' = "next"
    BY <1>2, WaitOverCounts
  <2> QED
    BY <1>2, <2>1 DEF CountInv, ToolTypeOK, Balanced, batch, Waiting
<1> QED
  BY <1>1, <1>2

(* The balance survives what rcv_timeout() does with a message. *)
LEMMA AfterRcvBalanced ==
  ASSUME CountInv, Balanced, Len(sent) \in Nat, Waiting, NEW r, AfterRcv(r),
         UNCHANGED <<mode, sent>>
  PROVE  Balanced'
<1>1. CASE mode = "net"
  BY <1>1 DEF Balanced, batch
<1>2. CASE mode # "net" /\ r = 1 /\ timeout > 0
  BY <1>2 DEF AfterRcv, Balanced, batch, Waiting
<1>3. CASE mode # "net" /\ ~(r = 1 /\ timeout > 0)
  BY <1>3, WaitOverBalanced DEF AfterRcv
<1> QED
  BY <1>1, <1>2, <1>3

(* Every action keeps the balance. *)
LEMMA BalancedStep == CountInv /\ SeqInv /\ Balanced /\ [ToolNext]_allVars => Balanced'
<1> SUFFICES ASSUME CountInv, SeqInv, Balanced, [ToolNext]_allVars PROVE Balanced'
  OBVIOUS
<1>1. Len(sent) \in Nat /\ pkts \in Nat /\ counted \in Nat /\ UNCHANGED mode
  BY OnlySendSends DEF SeqInv, CountInv, ToolTypeOK
<1>2. CASE UNCHANGED <<pkts, counted, sent>> /\ (Waiting' => Waiting \/ mode # "uds")
  BY <1>1, <1>2 DEF Balanced, batch
<1>3. CASE BatchLine \/ UdsLine \/ NetLine
  <2>1. UNCHANGED <<pkts, counted, sent>> /\ ~Waiting'
    BY <1>3 DEF BatchLine, UdsLine, NetLine, FgetsLine, FgetsEof, RunLine, Waiting
  <2> QED
    BY <1>2, <2>1
<1>4. CASE BatchWait \/ NetRcv \/ PollReady \/ CloseStep \/ Tick \/ Signal
  BY <1>2, <1>4 DEF BatchWait, NetRcv, PollReady, CloseStep, Tick, Signal, Waiting, batch
<1>5. CASE Send
  <2>1. at = "send" /\ UNCHANGED counted
    BY <1>5 DEF Send
  <2>2. CASE at' = "next" /\ UNCHANGED <<sent, seq, pkts>>
    BY <1>2, <2>1, <2>2 DEF Waiting
  <2>3. ASSUME NEW x, sent' = Append(sent, x), pkts' = IF batch THEN pkts + 1 ELSE pkts
        PROVE  Balanced'
    <3>1. Len(sent') = Len(sent) + 1
      BY <2>3 DEF SeqInv
    <3>2. counted <= Len(sent) \/ mode # "uds"
      BY <1>1, <2>1 DEF Balanced, Waiting
    <3> QED
      BY <1>1, <2>1, <2>3, <3>1, <3>2 DEF Balanced, batch
  <2> QED
    BY <1>5, <2>2, <2>3, SendExtends
<1>6. CASE PollTimeout
  <2>1. Waiting /\ WaitOver /\ UNCHANGED <<mode, sent, counted>>
    BY <1>6 DEF PollTimeout, Waiting
  <2> QED
    BY <1>1, <2>1, WaitOverBalanced
<1>7. CASE Rcv \/ ParseMore
  <2>1. Waiting /\ UNCHANGED <<mode, sent>>
    BY <1>7 DEF Rcv, ParseMore, Waiting
  <2>2. (\E r : AfterRcv(r)) \/ (at' = "parsing" /\ UNCHANGED <<pkts, counted>>)
    BY <1>7 DEF Rcv, ParseMore
  <2> QED
    BY <1>1, <1>2, <2>1, <2>2, AfterRcvBalanced
<1>8. ASSUME NEW w \in Wire, NEW fromPeer \in BOOLEAN, Deliver(w, fromPeer) PROVE Balanced'
  BY <1>2, <1>8 DEF Deliver, Waiting
<1>9. CASE Type \/ EndInput \/ Exited \/ UNCHANGED allVars
  BY <1>2, <1>9 DEF Type, EndInput, Exited, allVars, toolVars, Waiting
<1> QED
  BY <1>3, <1>4, <1>5, <1>6, <1>7, <1>8, <1>9 DEF ToolNext, ToolStep, Environment

(***************************************************************************)
(* The tool never takes more messages for replies than it sent requests:   *)
(* for any number of repeated replies, replies of other clocks, packets of *)
(* strangers and requests that failed to be sent.                          *)
(***************************************************************************)
THEOREM RepliesAreDue == ToolSpec => []OneReplyPerRequest
<1>1. ToolInit => Balanced
  BY ToolAssumption DEF ToolInit, Balanced, Waiting
<1>2. CountInv /\ Balanced => OneReplyPerRequest
  BY DEF CountInv, ToolTypeOK, Balanced, OneReplyPerRequest, batch
<1> QED
  BY <1>1, <1>2, BalancedStep, Counts, Numbered, PTL DEF ToolSpec
-----------------------------------------------------------------------------
(***************************************************************************)
(* The time waited, against the time taken off the timeout, after n        *)
(* returns of select().  While a message is being handled it has not been  *)
(* counted as ignored yet; and once the timeout is used up, rcv_timeout()  *)
(* does not poll again.                                                    *)
(***************************************************************************)
Bound(n) == waited <= Ticks * (Wait - timeout + setBack) + (Ticks - 1) * n
TimeInv ==
  /\ at = "poll" => mode # "net" /\ Bound(ignored)
  /\ at \in {"rcv", "parsing"} /\ mode # "net" /\ timeout > 0 => Bound(ignored + 1)

(* Cutting to whole units loses less than a unit. *)
LEMMA CutLosesLess ==
  ASSUME NEW t \in Nat \ {0}, NEW x \in Nat
  PROVE  x \div t \in Nat /\ x <= t * (x \div t) + (t - 1)
<1>1. x \div t \in Nat /\ x = t * (x \div t) + (x % t) /\ x % t \in 0 .. (t - 1)
  OBVIOUS
<1> QED
  BY <1>1

(* A fresh wait has waited for nothing. *)
LEMMA StartWaitBound ==
  ASSUME StartWait PROVE Bound(ignored)'
<1>1. Ticks * (Wait - Wait + 0) + (Ticks - 1) * 0 = 0
  BY ToolAssumption
<1> QED
  BY <1>1 DEF StartWait, Bound

(* tpoll() takes off all of the time it waited but for the part it cuts. *)
LEMMA PollReadyBound ==
  ASSUME CountInv, TimeInv, PollReady, timeout' > 0 PROVE Bound(ignored + 1)'
<1>1. PICK step \in ClockSteps :
        timeout' = Reduced(step) /\ setBack' = IF step < 0 THEN setBack - step ELSE setBack
  BY DEF PollReady
<1>2. waited' = waited + spent /\ ignored' = ignored /\ Bound(ignored)
  BY DEF PollReady, TimeInv
<1>3. /\ step \in Int /\ timeout \in Nat /\ Wait \in Nat /\ Ticks \in Nat \ {0}
      /\ spent \in Nat /\ waited \in Nat /\ ignored \in Nat /\ setBack \in Nat
  BY ToolAssumption DEF CountInv, ToolTypeOK
<1> DEFINE ms == spent \div Ticks
<1>4. ms \in Nat /\ spent <= Ticks * ms + (Ticks - 1)
  BY <1>3, CutLosesLess
<1>5. timeout' = timeout - (ms + step)
  BY <1>1 DEF Reduced
<1> HIDE DEF ms
<1> DEFINE x == Wait - timeout + setBack
           y == Wait - timeout' + setBack'
<1>6. x \in Int /\ y \in Int /\ x + ms <= y
  BY <1>1, <1>3, <1>4, <1>5
<1>7. waited <= Ticks * x + (Ticks - 1) * ignored
  BY <1>2 DEF Bound
<1> HIDE DEF x, y
<1>8. Ticks * (x + ms) <= Ticks * y
  BY <1>3, <1>4, <1>6
<1>9. Ticks * (x + ms) = Ticks * x + Ticks * ms
  BY <1>3, <1>4, <1>6
<1>10. (Ticks - 1) * (ignored + 1) = (Ticks - 1) * ignored + (Ticks - 1)
  BY <1>3
<1> DEFINE k == (Ticks - 1) * ignored
           tx == Ticks * x
           ty == Ticks * y
           tm == Ticks * ms
<1>11. k \in Int /\ tx \in Int /\ ty \in Int /\ tm \in Int
  BY <1>3, <1>4, <1>6
<1>12. waited <= tx + k /\ spent <= tm + (Ticks - 1) /\ tx + tm <= ty
  BY <1>4, <1>7, <1>8, <1>9
<1> HIDE DEF k, tx, ty, tm
<1>13. waited + spent <= ty + (k + (Ticks - 1))
  BY <1>3, <1>11, <1>12
<1> QED
  BY <1>2, <1>10, <1>13 DEF Bound, y, ty, k

(* What rcv_timeout() does with a message keeps the bound. *)
LEMMA AfterRcvTime ==
  ASSUME CountInv, TimeInv, at \in {"rcv", "parsing"}, NEW r, AfterRcv(r), UNCHANGED mode
  PROVE  TimeInv'
<1>1. CASE mode = "net"
  BY <1>1 DEF AfterRcv, TimeInv
<1>2. CASE mode # "net" /\ r = 1 /\ timeout > 0
  BY <1>2 DEF AfterRcv, TimeInv, Bound
<1>3. CASE mode # "net" /\ ~(r = 1 /\ timeout > 0)
  <2>1. at' = "poll" => StartWait
    BY <1>3 DEF AfterRcv, WaitOver
  <2>2. at' \in {"poll", "next", "close"}
    BY <1>3 DEF AfterRcv, WaitOver
  <2> QED
    BY <1>3, <2>1, <2>2, StartWaitBound DEF TimeInv
<1> QED
  BY <1>1, <1>2, <1>3

(* Every action keeps the bound. *)
LEMMA TimeStep == CountInv /\ TimeInv /\ [ToolNext]_allVars => TimeInv'
<1> SUFFICES ASSUME CountInv, TimeInv, [ToolNext]_allVars PROVE TimeInv'
  OBVIOUS
<1>1. UNCHANGED mode
  BY OnlySendSends
<1>2. CASE at' \in {"next", "send", "close", "exited"}
  BY <1>2 DEF TimeInv
<1>3. CASE UNCHANGED <<at, timeout, waited, ignored, setBack>>
  BY <1>1, <1>3 DEF TimeInv, Bound
<1>4. CASE BatchLine \/ UdsLine \/ NetLine
  BY <1>2, <1>4 DEF BatchLine, UdsLine, NetLine, FgetsLine, FgetsEof, RunLine
<1>5. CASE BatchWait \/ Send \/ PollTimeout
  <2>1. (at' = "poll" /\ StartWait /\ mode # "net") \/ at' \in {"next", "close"}
    BY <1>5 DEF BatchWait, Send, PollTimeout, WaitOver, batch
  <2> QED
    BY <1>1, <1>2, <2>1, StartWaitBound DEF TimeInv
<1>6. CASE NetRcv
  BY <1>1, <1>6 DEF NetRcv, TimeInv
<1>7. CASE PollReady
  BY <1>1, <1>7, PollReadyBound DEF PollReady, TimeInv
<1>8. CASE Rcv
  <2>1. \/ \E r : AfterRcv(r)
        \/ at' = "parsing" /\ UNCHANGED waitVars
    BY <1>8 DEF Rcv
  <2>2. at = "rcv"
    BY <1>8 DEF Rcv
  <2> QED
    BY <1>1, <2>1, <2>2, AfterRcvTime DEF TimeInv, Bound, waitVars
<1>9. CASE ParseMore
  <2>1. \/ \E r : AfterRcv(r)
        \/ UNCHANGED <<at, waitVars>>
    BY <1>9 DEF ParseMore
  <2>2. at = "parsing"
    BY <1>9 DEF ParseMore
  <2> QED
    BY <1>1, <1>3, <2>1, <2>2, AfterRcvTime DEF waitVars
<1>10. CASE CloseStep \/ Signal
  BY <1>2, <1>10 DEF CloseStep, Signal
<1>11. ASSUME NEW w \in Wire, NEW fromPeer \in BOOLEAN, Deliver(w, fromPeer) PROVE TimeInv'
  BY <1>3, <1>11 DEF Deliver, waitVars
<1>12. CASE Type \/ EndInput \/ Tick \/ Exited \/ UNCHANGED allVars
  BY <1>3, <1>12 DEF Type, EndInput, Tick, Exited, allVars, toolVars, waitVars
<1> QED
  BY <1>4, <1>5, <1>6, <1>7, <1>8, <1>9, <1>10, <1>11, <1>12
     DEF ToolNext, ToolStep, Environment

(***************************************************************************)
(* One rcv_timeout() waits for its timeout and no longer, but for a part   *)
(* of a millisecond for each message it ignores and for what the wall      *)
(* clock was set back: for every timeout, every resolution of the clock,   *)
(* every stream of messages and every step of the clock.                   *)
(***************************************************************************)
THEOREM WaitsNoLonger == ToolSpec => []WaitIsBounded
<1>1. ToolInit => TimeInv
  BY DEF ToolInit, TimeInv
<1>2. TimeInv => WaitIsBounded
  BY DEF TimeInv, Bound, WaitIsBounded
<1> QED
  BY <1>1, <1>2, TimeStep, Counts, PTL DEF ToolSpec
=============================================================================
