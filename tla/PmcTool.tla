------------------------------ MODULE PmcTool ------------------------------
(***************************************************************************)
(* The pmc tool of pmc.cpp, from the moment main() has set its parameters  *)
(* and installed its signal handlers: its three modes, run_line(),         *)
(* sendAction(), rcv(), rcv_timeout() with tpoll() of sock.cpp, and the    *)
(* end of the process.  The requests and the replies go through one        *)
(* Message object, whose actions are used as they are.                     *)
(*                                                                         *)
(* Around the tool: the clocks and the network, which lose, repeat, delay  *)
(* and reorder replies and add messages of others; the time that passes in *)
(* select(); the standard input; and signals, at any moment.               *)
(***************************************************************************)
EXTENDS Message

CONSTANTS
  Modes,        \* modes under study, of {"batch_uds", "batch_net", "uds", "net"}
  Scripts,      \* the sequences of commands the user may give
  Wait,         \* wait of pmc.cpp, in milliseconds
  Ticks,        \* ticks of real time per millisecond
  ClockSteps,   \* steps of the wall clock, in milliseconds
  MaxDeliver,   \* bound on the messages that arrive
  SeqMod        \* a sequenceId has 16 bits: 65536

ASSUME ToolAssumption ==
  /\ Modes \subseteq {"batch_uds", "batch_net", "uds", "net"}
  /\ Wait \in Nat \ {0} /\ Ticks \in Nat \ {0} /\ ClockSteps \subseteq Int
  /\ MaxDeliver \in Nat /\ SeqMod \in Nat \ {0}

bufSize == 2000

(* The buffer of the tool is one an application builds in. *)
ASSUME BufAssumption == bufSize \in BufSizes

(***************************************************************************)
(* A command is a line run_line() rejects or that only sets the target     *)
(* ("none"), or a request with a structure (d) or without one (id).        *)
(***************************************************************************)
Command == [op : {"none"}] \cup [op : {"plain"}, action : SendActions, id : Ids]
                           \cup [op : {"data"}, action : SendActions, d : Structs]

(* run_line() only makes a structure where one is needed. *)
ASSUME ScriptsAssumption ==
  /\ Scripts \subseteq Seq(Command)
  /\ \A s \in Scripts : \A i \in DOMAIN s :
       /\ s[i].op = "plain" => s[i].action = "GET" \/ s[i].id \in EmptyIds
       /\ s[i].op = "data" => s[i].action # "GET"

VARIABLES
  mode,
  at,         \* where the tool is
  script,     \* commands the user has not given yet
  stdin,      \* what the standard input holds: its kind, the pipe or
              \*   terminal, the buffer of stdio, and whether it was closed
  seq,        \* static counter of sendAction()
  pkts,       \* replies batch mode still waits for
  timeout,    \* static timeout, in milliseconds
  rx,         \* messages in the receive queue of the socket
  delivered,  \* bound: messages that arrived so far
  sock,       \* the socket: m_fd, m_isInit, and the file of a Unix socket
  dataLive,   \* the structure of call_data() for the command at hand exists
  spent,      \* history: ticks since select() was entered
  waited,     \* history: ticks of this rcv_timeout() before that
  ignored,    \* history: messages this rcv_timeout() did not count
  setBack,    \* history: milliseconds the wall clock was set back under it
  sent,       \* history: the requests on the wire
  counted     \* history: messages that ended a wait

toolVars == <<mode, at, script, stdin, seq, pkts, timeout, rx, delivered, sock, dataLive,
              spent, waited, ignored, setBack, sent, counted>>
allVars == <<vars, toolVars>>
waitVars == <<timeout, spent, waited, ignored, setBack>>

use_uds == mode \in {"uds", "batch_uds"}
batch == mode \in {"batch_uds", "batch_net"}
running == at # "exited"

-----------------------------------------------------------------------------
(* run_line() and sendAction() *)

(* Mutant: the result of setAction() is ignored. *)
RunLineUnchecked(c) ==
  \/ /\ c.op = "none"
     /\ at' = "next"
     /\ UNCHANGED <<vars, dataLive>>
  \/ /\ c.op = "plain"
     /\ SetAction(c.action, c.id)
     /\ at' = "send"
     /\ UNCHANGED dataLive
  \/ /\ c.op = "data"
     /\ SetActionData(c.action, c.d)
     /\ at' = "send"
     /\ dataLive' = TRUE

(* The tool turns to a command line. *)
RunLine(c) ==
  \/ /\ c.op = "none"
     /\ at' = "next"
     /\ UNCHANGED <<vars, dataLive>>
  \/ /\ c.op = "plain"
     /\ SetAction(c.action, c.id)
     /\ at' = IF ret' = "true" THEN "send" ELSE "next"
     /\ UNCHANGED dataLive
  \/ /\ c.op = "data"
     /\ SetActionData(c.action, c.d)
     /\ at' = IF ret' = "true" THEN "send" ELSE "next"
     /\ dataLive' = (ret' = "true")

(* Mutant: the timeout is not set again. *)
StartWaitUnset ==
  /\ timeout' = 0
  /\ spent' = 0 /\ waited' = 0 /\ ignored' = 0 /\ setBack' = 0

(* rcv_timeout() starts over. *)
StartWait ==
  /\ timeout' = Wait
  /\ spent' = 0 /\ waited' = 0 /\ ignored' = 0 /\ setBack' = 0

(* Mutant: every request is sent with the same sequence number. *)
SendSameSeq ==
  /\ at = "send"
  /\ Build(bufSize)
  /\ sent' = Append(sent, [seq |-> seq % SeqMod, id |-> m_tlv_id])
  /\ at' = "next"
  /\ UNCHANGED <<dataLive, seq, pkts, waitVars>>
  /\ UNCHANGED <<mode, script, stdin, rx, delivered, sock, counted>>

(* build() and send(); the structure is then freed, or forgotten on failure. *)
Send ==
  /\ at = "send"
  /\ Build(bufSize)
  /\ \E onWire \in BOOLEAN :
       IF ret' = "OK" /\ onWire
       THEN /\ sent' = Append(sent, [seq |-> seq % SeqMod, id |-> m_tlv_id])
            /\ seq' = seq + 1
            /\ pkts' = IF batch THEN pkts + 1 ELSE pkts
            /\ IF mode = "uds" THEN at' = "poll" /\ StartWait
               ELSE at' = "next" /\ UNCHANGED waitVars
       ELSE /\ at' = "next"
            /\ UNCHANGED <<sent, seq, pkts, waitVars>>
  /\ dataLive' = FALSE
  /\ UNCHANGED <<mode, script, stdin, rx, delivered, sock, counted>>

-----------------------------------------------------------------------------
(* The main loops *)

(* Batch mode: first all commands, then as many waits as were sent. *)
BatchLine ==
  /\ at = "next" /\ batch /\ script # << >>
  /\ RunLine(Head(script))
  /\ script' = Tail(script)
  /\ UNCHANGED <<mode, stdin, seq, pkts, waitVars, rx, delivered, sock, sent, counted>>

BatchWait ==
  /\ at = "next" /\ batch /\ script = << >>
  /\ IF pkts > 0 THEN at' = "poll" /\ StartWait
     ELSE at' = "close" /\ UNCHANGED waitVars
  /\ UNCHANGED <<vars, mode, script, stdin, seq, pkts, rx, delivered, sock, dataLive, sent, counted>>

(* fgets(): a terminal hands over one line at a time, a pipe all it has. *)
Fetched ==
  IF stdin.buffer # << >> THEN stdin
  ELSE IF stdin.tty /\ stdin.queue # << >>
  THEN [stdin EXCEPT !.buffer = <<Head(stdin.queue)>>, !.queue = Tail(stdin.queue)]
  ELSE [stdin EXCEPT !.buffer = stdin.queue, !.queue = << >>]

FgetsLine ==
  /\ Fetched.buffer # << >>
  /\ stdin' = [Fetched EXCEPT !.buffer = Tail(@)]
  /\ RunLine(Head(Fetched.buffer))

FgetsEof ==
  /\ Fetched.buffer = << >> /\ stdin.closed
  /\ at' = "close"
  /\ UNCHANGED <<vars, stdin, dataLive>>

(* Interactive mode on the Unix socket: fgets() blocks for a line. *)
UdsLine ==
  /\ at = "next" /\ mode = "uds"
  /\ FgetsLine \/ FgetsEof
  /\ UNCHANGED <<mode, script, seq, pkts, waitVars, rx, delivered, sock, sent, counted>>

(***************************************************************************)
(* Interactive mode on a network: poll() on the socket and on the standard *)
(* input, the socket first.  poll() reports a terminal at its end and a    *)
(* pipe with data as readable; a pipe at its end only as hung up, for      *)
(* which the loop has no branch: it polls again.  What stdio has buffered  *)
(* poll() does not see.                                                    *)
(***************************************************************************)
StdinReadable == stdin.queue # << >> \/ (stdin.closed /\ stdin.tty)

NetRcv ==
  /\ at = "next" /\ mode = "net" /\ rx # << >>
  /\ at' = "rcv"
  /\ UNCHANGED <<vars, mode, script, stdin, seq, pkts, waitVars, rx, delivered, sock,
                 dataLive, sent, counted>>

NetLine ==
  /\ at = "next" /\ mode = "net" /\ rx = << >>
  /\ StdinReadable
  /\ FgetsLine \/ FgetsEof
  /\ UNCHANGED <<mode, script, seq, pkts, waitVars, rx, delivered, sock, sent, counted>>

-----------------------------------------------------------------------------
(* rcv_timeout(), tpoll() and rcv() *)

(* Mutant: every poll starts with the whole timeout. *)
ReducedNever(step) == timeout

(***************************************************************************)
(* tpoll() takes the milliseconds that passed off the timeout.  They come  *)
(* from the wall clock, are cut to whole ones, and a negative difference   *)
(* becomes a huge unsigned one.                                            *)
(***************************************************************************)
Reduced(step) ==
  LET pass == (spent \div Ticks) + step
  IN IF 0 <= pass /\ pass < timeout THEN timeout - pass ELSE 0

(* Mutant: one wait too many. *)
WaitOverOnceMore ==
  IF batch
  THEN /\ pkts' = pkts - 1
       /\ IF pkts >= 0 THEN at' = "poll" /\ StartWait
          ELSE at' = "close" /\ UNCHANGED waitVars
  ELSE at' = "next" /\ UNCHANGED <<pkts, waitVars>>

(* Mutant: the packet is not counted. *)
WaitOverUncounted ==
  /\ at' = IF batch THEN "poll" ELSE "next"
  /\ UNCHANGED <<pkts, waitVars>>

(* A wait ended: the next packet of the batch, or the next command. *)
WaitOver ==
  IF batch
  THEN /\ pkts' = pkts - 1
       /\ IF pkts > 1 THEN at' = "poll" /\ StartWait
          ELSE at' = "close" /\ UNCHANGED waitVars
  ELSE at' = "next" /\ UNCHANGED <<pkts, waitVars>>

(* select() returns a packet, at the latest one tick after the timeout. *)
PollReady ==
  /\ at = "poll" /\ rx # << >>
  /\ \E step \in ClockSteps :
       /\ timeout' = Reduced(step)
       /\ setBack' = IF step < 0 THEN setBack - step ELSE setBack
  /\ at' = "rcv"
  /\ waited' = waited + spent /\ spent' = 0
  /\ UNCHANGED <<vars, mode, script, stdin, seq, pkts, ignored, rx, delivered, sock,
                 dataLive, sent, counted>>

(* select() times out; a timeout of 0 would have meant to wait forever. *)
PollTimeout ==
  /\ at = "poll" /\ rx = << >>
  /\ timeout > 0 /\ spent >= timeout * Ticks
  /\ WaitOver
  /\ UNCHANGED <<vars, mode, script, stdin, seq, rx, delivered, sock, dataLive, sent, counted>>

(* What rcv() makes of the result of parse(). *)
RcvResult(err) ==
  CASE err = "OK" -> 0
    [] err = "SIG" -> 1
    [] err \in {"ACTION", "HEADER"} /\ ~use_uds -> 1
    [] OTHER -> -1

(* Mutant: rcv_timeout() polls again without looking at the timeout. *)
AfterRcvForever(r) ==
  IF mode = "net" THEN at' = "next" /\ UNCHANGED <<pkts, waitVars, counted>>
  ELSE IF r = 1
  THEN /\ at' = "poll"
       /\ ignored' = ignored + 1
       /\ UNCHANGED <<pkts, timeout, spent, waited, setBack, counted>>
  ELSE WaitOver /\ counted' = counted + 1

(* rcv() returned r: rcv_timeout() polls again, or its wait is over. *)
AfterRcv(r) ==
  IF mode = "net" THEN at' = "next" /\ UNCHANGED <<pkts, waitVars, counted>>
  ELSE IF r = 1 /\ timeout > 0
  THEN /\ at' = "poll"
       /\ ignored' = ignored + 1
       /\ UNCHANGED <<pkts, timeout, spent, waited, setBack, counted>>
  ELSE WaitOver /\ counted' = counted + 1

(* recv(), which on a Unix socket only accepts the peer, and parse(). *)
Rcv ==
  /\ at = "rcv" /\ rx # << >>
  /\ rx' = Tail(rx)
  /\ IF use_uds /\ ~Head(rx).fromPeer
     THEN AfterRcv(-1) /\ UNCHANGED vars
     ELSE /\ Parse(Head(rx).w)
          /\ IF pc' = "sig" THEN at' = "parsing" /\ UNCHANGED <<pkts, waitVars, counted>>
             ELSE AfterRcv(RcvResult(ret'))
  /\ UNCHANGED <<mode, script, stdin, seq, delivered, sock, dataLive, sent>>

(* The rest of parse() on a signaling message. *)
ParseMore ==
  /\ at = "parsing"
  /\ ParseSigStep
  /\ IF pc' = "sig" THEN UNCHANGED <<at, pkts, waitVars, counted>>
     ELSE AfterRcv(RcvResult(ret'))
  /\ UNCHANGED <<mode, script, stdin, seq, rx, delivered, sock, dataLive, sent>>

-----------------------------------------------------------------------------
(* The end of the process *)

(* Mutant: m_isInit is reset before the file is unlinked. *)
CloseStepForgetsFirst ==
  /\ at = "close"
  /\ \/ sock.fd = "open" /\ sock' = [sock EXCEPT !.fd = "none"] /\ UNCHANGED at
     \/ /\ sock.fd = "none" /\ sock.isInit
        /\ sock' = [sock EXCEPT !.isInit = FALSE] /\ UNCHANGED at
     \/ /\ sock.fd = "none" /\ ~sock.isInit
        /\ sock' = [sock EXCEPT !.file = FALSE] /\ at' = "exited"
  /\ UNCHANGED <<vars, mode, script, stdin, seq, pkts, waitVars, rx, delivered, dataLive,
                 sent, counted>>

(***************************************************************************)
(* close() at the end of main(), statement by statement, as a signal may   *)
(* come in between: close the descriptor, forget it, unlink the file of a  *)
(* Unix socket, forget that.                                               *)
(***************************************************************************)
CloseStep ==
  /\ at = "close"
  /\ \/ sock.fd = "open" /\ sock' = [sock EXCEPT !.fd = "stale"] /\ UNCHANGED at
     \/ sock.fd = "stale" /\ sock' = [sock EXCEPT !.fd = "none"] /\ UNCHANGED at
     \/ /\ sock.fd = "none" /\ use_uds /\ sock.isInit /\ sock.file
        /\ sock' = [sock EXCEPT !.file = FALSE] /\ UNCHANGED at
     \/ /\ sock.fd = "none" /\ use_uds /\ sock.isInit /\ ~sock.file
        /\ sock' = [sock EXCEPT !.isInit = FALSE] /\ UNCHANGED at
     \/ /\ sock.fd = "none" /\ (use_uds => ~sock.isInit)
        /\ at' = "exited" /\ UNCHANGED sock
  /\ UNCHANGED <<vars, mode, script, stdin, seq, pkts, waitVars, rx, delivered, dataLive,
                 sent, counted>>

(* handle_sig(): close() as a whole, then exit(). *)
Signal ==
  /\ running
  /\ at' = "exited"
  /\ sock' = IF use_uds /\ sock.isInit
             THEN [fd |-> "none", isInit |-> FALSE, file |-> FALSE]
             ELSE [sock EXCEPT !.fd = "none"]
  /\ UNCHANGED <<vars, mode, script, stdin, seq, pkts, waitVars, rx, delivered, dataLive,
                 sent, counted>>

-----------------------------------------------------------------------------
(* The environment *)

(***************************************************************************)
(* A message arrives: one of others at any time, a reply once a request    *)
(* with its id was sent, however often and in whatever order.              *)
(***************************************************************************)
Deliver(w, fromPeer) ==
  /\ running /\ delivered < MaxDeliver
  /\ IsManagement(w) /\ w.action \in ReplyActions =>
       \E i \in DOMAIN sent : sent[i].id = w.id
  /\ rx' = Append(rx, [w |-> w, fromPeer |-> fromPeer])
  /\ delivered' = delivered + 1
  /\ UNCHANGED <<vars, mode, at, script, stdin, seq, pkts, waitVars, sock, dataLive, sent, counted>>

(* The user types the next command, or ends the input. *)
Type ==
  /\ running /\ ~batch /\ script # << >>
  /\ stdin' = [stdin EXCEPT !.queue = Append(@, Head(script))]
  /\ script' = Tail(script)
  /\ UNCHANGED <<vars, mode, at, seq, pkts, waitVars, rx, delivered, sock, dataLive, sent, counted>>

EndInput ==
  /\ running /\ ~batch /\ script = << >> /\ ~stdin.closed
  /\ stdin' = [stdin EXCEPT !.closed = TRUE]
  /\ UNCHANGED <<vars, mode, at, script, seq, pkts, waitVars, rx, delivered, sock, dataLive,
                 sent, counted>>

(* Time passes in select(), which may return late by a tick. *)
Tick ==
  /\ at = "poll" /\ spent <= timeout * Ticks
  /\ spent' = spent + 1
  /\ UNCHANGED <<vars, mode, at, script, stdin, seq, pkts, timeout, waited, ignored,
                 setBack, rx, delivered, sock, dataLive, sent, counted>>

-----------------------------------------------------------------------------
(***************************************************************************)
(* main() has set up the socket and the parameters.  The Message is a      *)
(* static object, so what its constructor leaves out is 0.  Only the       *)
(* interactive network mode asks for signaling messages, in vain if        *)
(* updateParams() refused the parameters: main() ignores its result.       *)
(***************************************************************************)
ToolInit ==
  /\ Init
  /\ m_type = "Other" /\ m_mngType = "PAD" /\ m_errorId = 0
  /\ mode \in Modes
  /\ m_prms.rcvSignaling => mode = "net"
  /\ at = "next"
  /\ script \in Scripts
  /\ stdin \in [tty : BOOLEAN, queue : {<< >>}, buffer : {<< >>}, closed : {FALSE}]
  /\ seq = 0 /\ pkts = 0 /\ timeout = 0
  /\ rx = << >> /\ delivered = 0
  /\ sock = [fd |-> "open", isInit |-> TRUE, file |-> use_uds]
  /\ dataLive = FALSE
  /\ spent = 0 /\ waited = 0 /\ ignored = 0 /\ setBack = 0
  /\ sent = << >> /\ counted = 0

ToolStep ==
  \/ BatchLine \/ BatchWait \/ UdsLine \/ NetRcv \/ NetLine \/ Send
  \/ PollReady \/ PollTimeout \/ Rcv \/ ParseMore \/ CloseStep

Environment ==
  \/ \E w \in Wire, fromPeer \in BOOLEAN : Deliver(w, fromPeer)
  \/ Type \/ EndInput \/ Tick \/ Signal

Exited == ~running /\ UNCHANGED allVars

ToolNext == ToolStep \/ Environment \/ Exited

ToolSpec == ToolInit /\ [][ToolNext]_allVars

(* The process is scheduled, time passes, and the user ends the input. *)
Fairness ==
  WF_allVars(ToolStep) /\ WF_allVars(Tick) /\ WF_allVars(Type) /\ WF_allVars(EndInput)

FairToolSpec == ToolSpec /\ Fairness

-----------------------------------------------------------------------------
(* The values the variables range over. *)
ToolTypeOK ==
  /\ at \in {"next", "send", "poll", "rcv", "parsing", "close", "exited"}
  /\ seq \in Nat /\ pkts \in Nat /\ timeout \in 0 .. Wait
  /\ sock \in [fd : {"open", "stale", "none"}, isInit : BOOLEAN, file : BOOLEAN]
  /\ dataLive \in BOOLEAN
  /\ spent \in Nat /\ waited \in Nat /\ ignored \in Nat
  /\ setBack \in Nat /\ counted \in Nat

(***************************************************************************)
(* rcv_timeout() never polls with a timeout of 0, which to poll() means to *)
(* block until a packet arrives (sock.h:127): not when a packet arrives on *)
(* the last millisecond, not when select() is late, not when the wall      *)
(* clock is stepped while it waits.                                        *)
(***************************************************************************)
NeverPollsForever == at = "poll" => timeout > 0

(***************************************************************************)
(* The timeout covers the whole of rcv_timeout(): however many messages    *)
(* are ignored, the time waited exceeds it by less than a millisecond for  *)
(* each of them, the part that tpoll() cuts off, and by no more than the   *)
(* wall clock was set back meanwhile.                                      *)
(***************************************************************************)
WaitIsBounded ==
  at = "poll" =>
    waited <= Ticks * (Wait - timeout + setBack) + (Ticks - 1) * ignored

(***************************************************************************)
(* What build() reads in the tool is always the live structure of the      *)
(* command, cast to its own type, although the Message still points to     *)
(* the freed structure of the previous command and its id was replaced by  *)
(* the replies in between.                                                 *)
(***************************************************************************)
BuildReadsLiveData ==
  at = "send" =>
    /\ m_tlv_id = pend.id /\ m_sendAction = pend.action
    /\ m_dataSend # NoStruct => dataLive /\ m_dataSend.id = m_tlv_id

(***************************************************************************)
(* Each request is waited for once: however many replies are repeated or   *)
(* come from other clocks, no more messages are taken for its replies than *)
(* requests are on the wire.                                               *)
(***************************************************************************)
OneReplyPerRequest == mode # "net" => counted + pkts <= Len(sent)

(***************************************************************************)
(* The sequence numbers on the wire tell the requests apart (msg.h:795),   *)
(* over any window shorter than the 16 bits of the field, whatever failed  *)
(* to be built or sent in between.                                         *)
(***************************************************************************)
SequenceTellsApart ==
  \A i, j \in DOMAIN sent : i < j /\ j - i < SeqMod => sent[i].seq # sent[j].seq

(***************************************************************************)
(* However the process ends once its signal handlers are installed and its *)
(* loops begin, and wherever in close() a signal hits it, the file of its  *)
(* Unix socket is gone. (main() before that is in Startup.)                *)
(***************************************************************************)
ExitLeavesNoFile == at = "exited" => ~sock.file /\ sock.fd = "none"

(***************************************************************************)
(* Batch mode ends, if no reply arrives at all and if messages it does not *)
(* count keep arriving for a while.                                        *)
(***************************************************************************)
BatchEnds == batch ~> at = "exited"

(* The interactive modes end when their input does (pmc.cpp:516). *)
EndsWithInput == ~batch /\ stdin.closed ~> at = "exited"
=============================================================================
