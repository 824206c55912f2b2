------------------------------ MODULE Startup ------------------------------
(***************************************************************************)
(* main() of pmc.cpp from its arguments to its loops: the options, the     *)
(* configuration file, the interface, the parameters of the Message and    *)
(* the socket. An application that uses a ConfigFile alone is the other    *)
(* user of ConfigFile.                                                     *)
(*                                                                         *)
(* Networks are "u" (Unix socket), "4", "6" (UDP) and "2" (raw). An option *)
(* is a record of opt, the letter, and its argument: name for the ones of  *)
(* -f, -i and -n, else val, what atoi() or strtol() makes of it.           *)
(* Interfaces are sections.                                                *)
(***************************************************************************)
EXTENDS ConfigFile, Sequences

CONSTANTS
  Options,    \* the options users may give
  MaxOptions  \* bound on their number

Networks == {"u", "4", "6", "2"}
WithValue == {"f", "b", "d", "s", "t", "i", "M", "S", "T", "P"}

(* The letter of a network the file may name. *)
NetOf(v) == CHOOSE n \in {"2", "4", "6"} : v = (CASE n = "2" -> 2 [] n = "4" -> 4 [] n = "6" -> 6)

ASSUME OptionsAssumption ==
  /\ \A o \in Options : /\ o.opt \in WithValue \cup Networks \cup {"n", "z", "v", "?"}
                        /\ o.opt = "i" => o.name \in Sections \cup {NoSection}
  /\ {"domainNumber", "transportSpecific", "udp_ttl", "udp6_scope", "socket_priority",
      "network_transport"} \subseteq NumKeys
  /\ {"uds_address", "ptp_dst_mac"} \subseteq StrKeys
  /\ Legal["udp6_scope"] \cup {Def["udp6_scope"]} \subseteq 0 .. 15
  /\ MaxOptions \in Nat

VARIABLES
  at,          \* where main() is, "lib" for an application, "exit" after main()
  code,        \* what main() returned
  options,     \* the value of each option, Unset if it was not given
  net_select, zero_get,
  count,       \* bound: options read
  prms,        \* the parameters main() collects
  m_prms,      \* those of the Message
  sock         \* the network of the socket, and what was set on it

mainVars == <<at, code, options, net_select, zero_get, count, prms, m_prms, sock>>
startVars == <<cfgVars, mainVars>>

NoNet == "0"
NoSock == [net |-> NoNet, ttl |-> Unset, scope |-> Unset, priority |-> Unset,
           mac |-> Unset, peer |-> Unset]

(* The Message as its constructor leaves it. *)
NewParams ==
  [boundaryHops |-> 1, domainNumber |-> 0, transportSpecific |-> 0,
   rcvSignaling |-> FALSE, useZeroGet |-> FALSE, portNumber |-> "none"]

StartInit ==
  /\ ConfigInit
  /\ at \in {"options", "lib"} /\ code = "none"
  /\ options = [o \in WithValue |-> Unset]
  /\ net_select = NoNet /\ zero_get = FALSE /\ count = 0
  /\ prms = NewParams /\ m_prms = NewParams
  /\ sock = NoSock

Exit(c) == at' = "exit" /\ code' = c
Given(o) == options[o] # Unset

-----------------------------------------------------------------------------
(* The loop over getopt_long() *)

GetOption(o) ==
  /\ at = "options" /\ count < MaxOptions
  /\ count' = count + 1
  /\ \/ /\ o.opt = "v" /\ Exit("0")
        /\ UNCHANGED <<options, net_select, zero_get>>
     \/ /\ o.opt = "z" /\ zero_get' = TRUE
        /\ UNCHANGED <<at, code, options, net_select>>
     \/ /\ o.opt = "n"
        /\ IF o.name \in Networks \ {"u"}
           THEN net_select' = o.name /\ UNCHANGED <<at, code>>
           ELSE Exit("-1") /\ UNCHANGED net_select
        /\ UNCHANGED <<options, zero_get>>
     \/ /\ o.opt \in Networks /\ net_select' = o.opt
        /\ UNCHANGED <<at, code, options, zero_get>>
     \/ /\ o.opt \in WithValue
        /\ options' = [options EXCEPT ![o.opt] = IF o.opt \in {"f", "i"} THEN o.name ELSE o.val]
        /\ UNCHANGED <<at, code, net_select, zero_get>>
     \/ /\ o.opt = "?" /\ Exit("-1")
        /\ UNCHANGED <<options, net_select, zero_get>>
  /\ UNCHANGED <<cfgVars, prms, m_prms, sock>>

(* No option is left. *)
EndOfOptions ==
  /\ at = "options"
  /\ at' = IF Given("f") THEN "open" ELSE "params"
  /\ UNCHANGED <<cfgVars, code, options, net_select, zero_get, count, prms, m_prms, sock>>

(* read_cfg() of the file of -f *)
OpenFile ==
  /\ at = "open"
  /\ \/ ReadCfgFails /\ Exit("-1")
     \/ ReadCfgBegin /\ at' = "read" /\ code' = code
  /\ UNCHANGED <<options, net_select, zero_get, count, prms, m_prms, sock>>

ReadFile ==
  /\ at = "read"
  /\ EndOfFile \/ \E l \in Lines : ReadLine(l)
  /\ IF reading' THEN UNCHANGED <<at, code>>
     ELSE IF cfgRet' THEN at' = "params" /\ code' = code
     ELSE Exit("-1")
  /\ UNCHANGED <<options, net_select, zero_get, count, prms, m_prms, sock>>

-----------------------------------------------------------------------------
(* The parameters and the socket *)

Net == IF net_select # NoNet THEN net_select ELSE NetOf(get("network_transport", NoSection))
interface == IF Given("i") THEN options["i"] ELSE NoSection

(* The octet an int is cut to. *)
Octet8(v) == v % 256

(* Mutant: the sections of the file are not looked at. *)
ParamsGlobal ==
  [boundaryHops |-> IF Given("b") THEN Octet8(options["b"]) ELSE 1,
   domainNumber |->
     IF Given("d") THEN (IF Given("b") THEN Octet8(options["b"]) ELSE 0)
     ELSE get("domainNumber", NoSection),
   transportSpecific |->
     IF Given("t") THEN Octet8(options["t"]) ELSE get("transportSpecific", NoSection),
   rcvSignaling |-> FALSE, useZeroGet |-> FALSE,
   portNumber |-> IF Net = "u" THEN "none" ELSE "one"]

(* What main() sets in prms; the argument of -d is not used. *)
Params ==
  [boundaryHops |-> IF Given("b") THEN Octet8(options["b"]) ELSE 1,
   domainNumber |->
     IF Given("d") THEN (IF Given("b") THEN Octet8(options["b"]) ELSE 0)
     ELSE get("domainNumber", interface),
   transportSpecific |->
     IF Given("t") THEN Octet8(options["t"]) ELSE get("transportSpecific", interface),
   rcvSignaling |-> FALSE, useZeroGet |-> FALSE,
   portNumber |-> IF Net = "u" THEN "none" ELSE "one"]

(* The interface is needed, and may not exist, unless the network is a Unix socket. *)
Parameters ==
  /\ at = "params"
  /\ net_select' = Net
  /\ \/ /\ Net = "u" \/ interface # NoSection
        /\ prms' = Params /\ at' = "socket" /\ code' = code
     \/ Net # "u" /\ Exit("-1") /\ prms' = prms
  /\ UNCHANGED <<cfgVars, options, zero_get, count, m_prms, sock>>

(* setAll(), and the setters of the options, which cut to an octet and may refuse. *)
SetSocket ==
  LET fromCfg(k) == get(k, interface)
      orOption(o, k) == IF Given(o) THEN Octet8(options[o]) ELSE fromCfg(k)
  IN  [net |-> net_select,
       ttl |-> IF net_select \in {"4", "6"} THEN orOption("T", "udp_ttl") ELSE Unset,
       scope |-> IF net_select = "6" THEN orOption("S", "udp6_scope") ELSE Unset,
       priority |-> IF net_select = "2" THEN orOption("P", "socket_priority") ELSE Unset,
       mac |-> IF net_select # "2" THEN Unset
               ELSE IF Given("M") THEN options["M"] ELSE fromCfg("ptp_dst_mac"),
       peer |-> IF net_select # "u" THEN Unset
                ELSE IF Given("s") THEN options["s"] ELSE fromCfg("uds_address")]
Refused ==
  \/ net_select = "6" /\ Given("S") /\ Octet8(options["S"]) > 15
  \/ net_select = "2" /\ Given("P") /\ Octet8(options["P"]) > 15
  \/ net_select = "2" /\ Given("M") /\ options["M"] = Junk

OpenSocket ==
  /\ at = "socket"
  /\ \/ /\ ~Refused
        /\ sock' = SetSocket
        /\ prms' = [prms EXCEPT !.portNumber = IF net_select = "u" THEN "pid" ELSE @]
        /\ at' = "update" /\ code' = code
     \/ Exit("-1") /\ UNCHANGED <<prms, sock>>
  /\ UNCHANGED <<cfgVars, options, net_select, zero_get, count, m_prms>>

(* The mode, and updateParams(), whose result is not looked at. *)
UpdateParams ==
  /\ at = "update" /\ at' = "run"
  /\ \E batch \in BOOLEAN :
       prms' = [prms EXCEPT !.rcvSignaling = ~batch /\ net_select # "u", !.useZeroGet = zero_get]
  /\ m_prms' = IF prms'.transportSpecific > 15 THEN m_prms ELSE prms'
  /\ UNCHANGED <<cfgVars, code, options, net_select, zero_get, count, sock>>

(* main() has returned, or is in one of its loops (PmcTool). *)
MainIsOver == at \in {"exit", "run"} /\ UNCHANGED startVars

StartNext ==
  \/ \E o \in Options : GetOption(o)
  \/ EndOfOptions \/ OpenFile \/ ReadFile \/ Parameters \/ OpenSocket \/ UpdateParams
  \/ at = "lib" /\ ConfigNext /\ UNCHANGED mainVars
  \/ MainIsOver

StartSpec == StartInit /\ [][StartNext]_startVars

-----------------------------------------------------------------------------
(* The network that is asked for: by the options, else by the file. *)
AskedFor(o, k) == IF Given(o) THEN options[o] ELSE FileSays(k, interface)
Fit == \A o \in {"b", "t", "T", "S", "P"} : Given(o) => options[o] \in 0 .. 255

(***************************************************************************)
(* When pmc runs, the Message and the socket have what the command line    *)
(* and the file ask for: an option before the file, the section of the     *)
(* interface before "global", and that before the default. Left out are    *)
(* the option -d, of which main() takes nothing, options that are no       *)
(* octets, and a transportSpecific that updateParams() refuses silently.   *)
(***************************************************************************)
StartsAsAsked ==
  at = "run" /\ ~Given("d") /\ Fit /\ AskedFor("t", "transportSpecific") <= 15 =>
    /\ m_prms.boundaryHops = (IF Given("b") THEN options["b"] ELSE 1)
    /\ m_prms.domainNumber = FileSays("domainNumber", interface)
    /\ m_prms.transportSpecific = AskedFor("t", "transportSpecific")
    /\ m_prms.useZeroGet = zero_get
    /\ m_prms.rcvSignaling => sock.net # "u"
    /\ m_prms.portNumber = (IF sock.net = "u" THEN "pid" ELSE "one")
    /\ sock.net \in {"4", "6"} => sock.ttl = AskedFor("T", "udp_ttl")
    /\ sock.net = "6" => sock.scope = AskedFor("S", "udp6_scope") /\ sock.scope <= 15
    /\ sock.net = "2" => /\ sock.priority = AskedFor("P", "socket_priority")
                         /\ sock.mac = AskedFor("M", "ptp_dst_mac")
    /\ sock.net = "u" => sock.peer = AskedFor("s", "uds_address")
=============================================================================
