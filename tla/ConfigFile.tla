----------------------------- MODULE ConfigFile -----------------------------
(***************************************************************************)
(* ConfigFile of cfg.cpp: the map of sections a configuration file is read *)
(* into, line by line, and the getters, which fall back to the section     *)
(* "global".                                                               *)
(*                                                                         *)
(* The nodes of the map are chunks of memory: the member cfgGlobal is a    *)
(* reference into the node of "global" that the constructor made, and goes *)
(* on naming its chunk when read_cfg() has cleared the map. A chunk keeps  *)
(* its content when it is freed, and the allocator hands out a freed chunk *)
(* before a new one, as the nodes all have one size.                       *)
(***************************************************************************)
EXTENDS Integers

CONSTANTS
  Sections,   \* names of sections, "global" among them
  NumKeys,    \* the keys of m_vals
  StrKeys,    \* the keys of m_str_vals and m_bin_vals
  Legal,      \* the values set_val() takes for a key
  Def,        \* the default of a key, which setGlobal() sets
  Chunks,     \* addresses of nodes
  Lines,      \* the lines of files
  MaxReads,   \* bound on the calls of read_cfg()
  MaxLines,   \* bound on the lines of all files
  Null,       \* no chunk
  Unset,      \* a value that no line gave
  Junk,       \* an uninitialised value
  Empty       \* an empty string or address

globalSection == "global"
NoSection == ""
Keys == NumKeys \cup StrKeys

(* Strings and addresses are numbered. *)
Stored == UNION {Legal[k] : k \in Keys}
Values == Stored \cup {Def[k] : k \in Keys} \cup {Junk, Empty}

ASSUME ConfigAssumption ==
  /\ globalSection \in Sections /\ NoSection \notin Sections
  /\ NumKeys \cap StrKeys = {}
  /\ Null \notin Chunks /\ Chunks # {}
  /\ \A k \in Keys : Unset \notin Legal[k]
  /\ \A k \in NumKeys : Legal[k] \cup {Def[k]} \subseteq Int
  /\ MaxReads \in Nat /\ MaxLines \in Nat

(***************************************************************************)
(* A line is a header of a section, a header without its bracket, a key    *)
(* with the value strtol() or the like makes of it, a key that is not in   *)
(* ranges, or a key alone, ended by the end of the file and not by a line  *)
(* break. Comments and empty lines are left out.                           *)
(***************************************************************************)
ASSUME LinesAssumption ==
  \A l \in Lines :
    /\ l.op \in {"section", "broken", "other", "set", "bare"}
    /\ l.op = "section" => l.section \in Sections
    /\ l.op \in {"set", "bare"} => l.key \in Keys

VARIABLES
  cfgSec,      \* the chunk of each section in the map, or Null
  cfgGlobal,   \* the chunk the reference names
  used,        \* the chunks handed out so far, freed ones too
  m_set,       \* for each chunk, the keys that are set
  m_vals,      \* for each chunk, the value of each key
  reading,     \* read_cfg() is in its loop
  curSection,
  cfgRet,      \* what the last read_cfg() returned
  reads,       \* bound and history: files read, or begun
  lines,       \* bound: lines read so far
  given        \* history: what the lines of this file set in each section

cfgVars == <<cfgSec, cfgGlobal, used, m_set, m_vals, reading, curSection, cfgRet,
             reads, lines, given>>

NothingGiven == [s \in Sections |-> [k \in Keys |-> Unset]]
OnlyGlobal(c) == [s \in Sections |-> IF s = globalSection THEN c ELSE Null]

(***************************************************************************)
(* The constructor of a ConfigSection: nothing is set, strings are empty,  *)
(* numbers are what the memory held.                                       *)
(***************************************************************************)
Constructed(v) == [k \in Keys |-> IF k \in StrKeys THEN Empty ELSE v[k]]

(* setGlobal() *)
Defaults == [k \in Keys |-> Def[k]]

(* ConfigFile() *)
ConfigInit ==
  /\ cfgGlobal \in Chunks
  /\ cfgSec = OnlyGlobal(cfgGlobal)
  /\ used = {cfgGlobal}
  /\ m_set = [c \in Chunks |-> {}]
  /\ m_vals = [c \in Chunks |-> IF c = cfgGlobal THEN Defaults ELSE [k \in Keys |-> Junk]]
  /\ reading = FALSE /\ curSection = globalSection
  /\ cfgRet = TRUE
  /\ reads = 0 /\ lines = 0
  /\ given = NothingGiven

-----------------------------------------------------------------------------
(* read_cfg() *)

(* read_cfg() of a file that can not be opened *)
ReadCfgFails ==
  /\ ~reading
  /\ cfgRet' = FALSE
  /\ UNCHANGED <<cfgSec, cfgGlobal, used, m_set, m_vals, reading, curSection, reads,
                 lines, given>>

(* Mutant: the defaults are not set again. *)
ReadCfgBeginKeeps ==
  /\ ~reading /\ reads < MaxReads
  /\ \E c \in used :
       /\ cfgSec' = OnlyGlobal(c)
       /\ m_set' = [m_set EXCEPT ![c] = {}, ![cfgGlobal] = {}]
       /\ m_vals' = [m_vals EXCEPT ![c] = Constructed(m_vals[c]),
                                   ![cfgGlobal] = Constructed(m_vals[c])]
  /\ reading' = TRUE /\ curSection' = globalSection
  /\ reads' = reads + 1
  /\ given' = NothingGiven
  /\ UNCHANGED <<cfgGlobal, used, cfgRet, lines>>

(***************************************************************************)
(* The map is cleared, which frees every node, and gets a new node for     *)
(* "global". It is copied to where cfgGlobal refers to, and the defaults   *)
(* are set there.                                                          *)
(***************************************************************************)
ReadCfgBegin ==
  /\ ~reading /\ reads < MaxReads
  /\ \E c \in used :
       /\ cfgSec' = OnlyGlobal(c)
       /\ m_set' = [m_set EXCEPT ![c] = {}, ![cfgGlobal] = {}]
       /\ m_vals' = [m_vals EXCEPT ![c] = Constructed(m_vals[c]), ![cfgGlobal] = Defaults]
  /\ reading' = TRUE /\ curSection' = globalSection
  /\ reads' = reads + 1
  /\ given' = NothingGiven
  /\ UNCHANGED <<cfgGlobal, used, cfgRet, lines>>

ReadCfgReturns(r) == reading' = FALSE /\ cfgRet' = r

NextLine == reading /\ lines < MaxLines /\ lines' = lines + 1

Header(section) ==
  /\ NextLine
  /\ curSection' = section
  /\ UNCHANGED <<cfgSec, cfgGlobal, used, m_set, m_vals, reading, cfgRet, reads, given>>

BrokenHeader ==
  /\ NextLine
  /\ ReadCfgReturns(FALSE)
  /\ UNCHANGED <<cfgSec, cfgGlobal, used, m_set, m_vals, curSection, reads, given>>

(* The chunks the node of curSection is in, or that malloc() may give it. *)
InMap == {cfgSec[s] : s \in Sections} \ {Null}
Found == cfgSec[curSection] # Null
Places ==
  IF Found THEN {cfgSec[curSection]}
  ELSE IF used # InMap THEN used \ InMap ELSE Chunks \ used

(* cfgSec[curSection], which makes the section if there is none. *)
Place(c) ==
  /\ c \in Places
  /\ cfgSec' = [cfgSec EXCEPT ![curSection] = c]
  /\ used' = used \cup {c}
SetAt(c) == IF Found THEN m_set[c] ELSE {}
ValsAt(c) == IF Found THEN m_vals[c] ELSE Constructed(m_vals[c])

(* A key that is not in ranges is passed over, its section made. *)
OtherKey ==
  /\ NextLine
  /\ \E c \in Chunks :
       /\ Place(c)
       /\ m_set' = [m_set EXCEPT ![c] = SetAt(c)]
       /\ m_vals' = [m_vals EXCEPT ![c] = ValsAt(c)]
  /\ UNCHANGED <<cfgGlobal, reading, curSection, cfgRet, reads, given>>

(* set_val() has a value in range. *)
Store(c, k, v) ==
  /\ m_set' = [m_set EXCEPT ![c] = SetAt(c) \cup {k}]
  /\ m_vals' = [m_vals EXCEPT ![c] = [ValsAt(c) EXCEPT ![k] = v]]
  /\ given' = [given EXCEPT ![curSection][k] = v]

(* set_val() refuses the value, and read_cfg() the file. *)
Reject(c) ==
  /\ m_set' = [m_set EXCEPT ![c] = SetAt(c)]
  /\ m_vals' = [m_vals EXCEPT ![c] = ValsAt(c)]
  /\ given' = given

KeyLine(k, v) ==
  /\ NextLine
  /\ \E c \in Chunks :
       /\ Place(c)
       /\ IF v \in Legal[k]
          THEN Store(c, k, v) /\ UNCHANGED <<reading, cfgRet>>
          ELSE Reject(c) /\ ReadCfgReturns(FALSE)
  /\ UNCHANGED <<cfgGlobal, curSection, reads>>

(***************************************************************************)
(* A key that ends the file: set_val() looks for the space behind it, and  *)
(* takes for its value what earlier lines left there in the buffer.        *)
(***************************************************************************)
BareKey(k) ==
  /\ NextLine
  /\ \E c \in Chunks :
       /\ Place(c)
       /\ \/ \E v \in Legal[k] : Store(c, k, v) /\ ReadCfgReturns(TRUE)
          \/ Reject(c) /\ ReadCfgReturns(FALSE)
  /\ UNCHANGED <<cfgGlobal, curSection, reads>>

EndOfFile ==
  /\ reading
  /\ ReadCfgReturns(TRUE)
  /\ UNCHANGED <<cfgSec, cfgGlobal, used, m_set, m_vals, curSection, reads, lines, given>>

ReadLine(l) ==
  \/ l.op = "section" /\ Header(l.section)
  \/ l.op = "broken" /\ BrokenHeader
  \/ l.op = "other" /\ OtherKey
  \/ l.op = "set" /\ KeyLine(l.key, l.val)
  \/ l.op = "bare" /\ BareKey(l.key)

ConfigNext ==
  \/ ReadCfgFails
  \/ ReadCfgBegin
  \/ \E l \in Lines : ReadLine(l)
  \/ EndOfFile

ConfigSpec == ConfigInit /\ [][ConfigNext]_cfgVars

-----------------------------------------------------------------------------
(* The getters *)

is_global(k, section) ==
  \/ section = NoSection
  \/ cfgSec[section] = Null
  \/ k \notin m_set[cfgSec[section]]

get(k, section) ==
  IF is_global(k, section) THEN m_vals[cfgGlobal][k] ELSE m_vals[cfgSec[section]][k]

-----------------------------------------------------------------------------
(* What the file says of a key in a section, or without one. *)
FileSays(k, section) ==
  IF section # NoSection /\ given[section][k] # Unset THEN given[section][k]
  ELSE IF given[globalSection][k] # Unset THEN given[globalSection][k]
  ELSE Def[k]

(***************************************************************************)
(* The getters of cfg.cpp return what the file read last says: the value   *)
(* of the section, else that of "global", else the default, and nothing of *)
(* an earlier file.                                                        *)
(***************************************************************************)
FollowsFile ==
  \A k \in Keys : \A s \in Sections \cup {NoSection} : get(k, s) = FileSays(k, s)

(* cfgGlobal refers to the section "global" that is in the map. *)
Aliased == cfgGlobal = cfgSec[globalSection]

(***************************************************************************)
(* The getters follow the file for the first file an object reads, and for *)
(* later ones as long as the allocator puts the section "global" back into *)
(* the chunk cfgGlobal refers to.                                          *)
(***************************************************************************)
GettersFollowFile == reads <= 1 \/ Aliased => FollowsFile

(* The values the variables range over. *)
ConfigTypeOK ==
  /\ cfgSec \in [Sections -> Chunks \cup {Null}]
  /\ cfgGlobal \in Chunks
  /\ used \subseteq Chunks /\ cfgGlobal \in used
  /\ m_set \in [Chunks -> SUBSET Keys]
  /\ m_vals \in [Chunks -> [Keys -> Values]]
  /\ reading \in BOOLEAN /\ cfgRet \in BOOLEAN
  /\ curSection \in Sections
  /\ reads \in Nat /\ lines \in Nat
  /\ given \in [Sections -> [Keys -> Stored \cup {Unset}]]
=============================================================================
