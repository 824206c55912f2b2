---------------------------- MODULE MCStartup ----------------------------
(***************************************************************************)
(* An instance of Startup: two sections, files of at most three lines, two *)
(* files for an application, up to three options.                          *)
(***************************************************************************)
EXTENDS Startup, TLC

(* The keys of numbers: default, and the values tried of those in range. *)
MCNum ==
  [transportSpecific |-> [def |-> 0, legal |-> {0, 15}],
   domainNumber      |-> [def |-> 0, legal |-> {0, 5, 239}],
   udp6_scope        |-> [def |-> 14, legal |-> {0, 14, 15}],
   udp_ttl           |-> [def |-> 1, legal |-> {1, 255}],
   socket_priority   |-> [def |-> 0, legal |-> {0, 15}],
   network_transport |-> [def |-> 4, legal |-> {2, 4, 6}]]

(* Paths and addresses: 100 is the default of each. *)
MCStr ==
  [uds_address |-> [def |-> 100, legal |-> {100, 101}],
   ptp_dst_mac |-> [def |-> 100, legal |-> {100, 102}]]

MCNumKeys == DOMAIN MCNum
MCStrKeys == DOMAIN MCStr
MCRanges == MCNum @@ MCStr
MCLegal == [k \in MCNumKeys \cup MCStrKeys |-> MCRanges[k].legal]
MCDef == [k \in MCNumKeys \cup MCStrKeys |-> MCRanges[k].def]

MCSet(k, v) == [op |-> "set", key |-> k, val |-> v]
MCLines ==
  {[op |-> "section", section |-> "eth0"], [op |-> "section", section |-> "global"],
   [op |-> "broken"], [op |-> "other"], [op |-> "bare", key |-> "udp_ttl"],
   MCSet("domainNumber", 5), MCSet("domainNumber", 239), MCSet("domainNumber", 240),
   MCSet("network_transport", 6), MCSet("transportSpecific", 15), MCSet("uds_address", 101)}

MCOpt(o, v) == [opt |-> o, val |-> v]
MCNamed(o, n) == [opt |-> o, name |-> n]
MCOptions ==
  {MCNamed("f", "file"), MCNamed("i", "eth0"), MCNamed("i", NoSection),
   MCOpt("b", 3), MCOpt("d", 5), MCOpt("t", 1), MCOpt("t", 16), MCOpt("s", 103),
   MCOpt("T", 7), MCOpt("T", 300), MCOpt("S", 3), MCOpt("S", 20),
   MCOpt("P", 3), MCOpt("P", 99), MCOpt("M", 104), MCOpt("M", Junk),
   MCNamed("n", "6"), MCNamed("n", "L3")}
  \cup {[opt |-> o] : o \in {"u", "4", "2", "z", "v", "?"}}

MCSymmetry == Permutations(Chunks)
=============================================================================
