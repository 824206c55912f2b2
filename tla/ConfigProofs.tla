---------------------------- MODULE ConfigProofs ----------------------------
(***************************************************************************)
(* Proofs about ConfigFile, for any sections, keys, ranges, files and      *)
(* number of reads, in an application and in main() of pmc.cpp.            *)
(*                                                                         *)
(* GettersFollowFile is not inductive: that a section shows what its lines *)
(* gave needs that no two sections share a node, which needs that malloc() *)
(* hands out no node of the map; and that the getters of the first file    *)
(* are right needs that its node of "global" can only be the one cfgGlobal *)
(* refers to, as no other was ever handed out.                             *)
(***************************************************************************)
EXTENDS Startup, TLAPS

(* The nodes of the map are in use, "global" is there, no two share a chunk. *)
NodesApart ==
  /\ cfgSec[globalSection] # Null
  /\ \A s \in Sections : cfgSec[s] # Null => cfgSec[s] \in used
  /\ \A s, t \in Sections : s # t /\ cfgSec[s] # Null => cfgSec[s] # cfgSec[t]

(* Before the first file there is one chunk, and cfgGlobal keeps it through that file. *)
FirstAliased ==
  /\ reads = 0 => used = {cfgGlobal} /\ ~reading
  /\ reads <= 1 => Aliased

(* A node has what the lines of its section gave, and "global" the defaults below that. *)
NodeFaithful(s) ==
  \A k \in Keys :
    /\ cfgSec[s] = Null => given[s][k] = Unset
    /\ cfgSec[s] # Null => (k \in m_set[cfgSec[s]] <=> given[s][k] # Unset)
    /\ given[s][k] # Unset => m_vals[cfgSec[s]][k] = given[s][k]
DefaultsBelow ==
  \A k \in Keys : given[globalSection][k] = Unset => m_vals[cfgGlobal][k] = Def[k]
Faithful == (\A s \in Sections : NodeFaithful(s)) /\ DefaultsBelow

ConfigInv ==
  /\ ConfigTypeOK
  /\ NodesApart
  /\ FirstAliased
  /\ Aliased => Faithful

-----------------------------------------------------------------------------
(* Defaults and values in range are values of m_vals. *)
LEMMA ValuesThere ==
  /\ Stored \subseteq Values /\ Junk \in Values /\ Empty \in Values
  /\ \A k \in Keys : Def[k] \in Values /\ Legal[k] \subseteq Stored
BY Zenon DEF Values, Stored

(* The constructor ConfigFile() establishes the invariant. *)
LEMMA ConfigInitial == ConfigInit => ConfigInv
<1> SUFFICES ASSUME ConfigInit PROVE ConfigInv
  OBVIOUS
<1>1. Defaults \in [Keys -> Values] /\ [k \in Keys |-> Junk] \in [Keys -> Values]
  BY ValuesThere DEF Defaults
<1>2. cfgSec \in [Sections -> Chunks \cup {Null}] /\ cfgSec[globalSection] = cfgGlobal
  BY ConfigAssumption DEF ConfigInit, OnlyGlobal
<1>3. m_vals \in [Chunks -> [Keys -> Values]]
  BY <1>1 DEF ConfigInit
<1>4. given \in [Sections -> [Keys -> Stored \cup {Unset}]]
  BY DEF ConfigInit, NothingGiven
<1>5. ConfigTypeOK
  BY <1>2, <1>3, <1>4, ConfigAssumption DEF ConfigInit, ConfigTypeOK
<1>6. NodesApart
  BY ConfigAssumption DEF ConfigInit, NodesApart, OnlyGlobal
<1>7. FirstAliased
  BY <1>2 DEF ConfigInit, FirstAliased, Aliased
<1>8. Faithful
  BY <1>2, ConfigAssumption
  DEF ConfigInit, Faithful, NodeFaithful, DefaultsBelow, NothingGiven, OnlyGlobal, Defaults
<1> QED
  BY <1>5, <1>6, <1>7, <1>8 DEF ConfigInv

-----------------------------------------------------------------------------
(***************************************************************************)
(* What cfgSec[curSection] of read_cfg() does to the map: the section has  *)
(* a chunk that no other section has, and cfgGlobal stays what it was.     *)
(***************************************************************************)
LEMMA PlacedApart ==
  ASSUME ConfigInv, NEW c \in Chunks, Place(c), cfgGlobal' = cfgGlobal
  PROVE  /\ cfgSec' \in [Sections -> Chunks \cup {Null}]
         /\ used' \subseteq Chunks /\ cfgGlobal \in used'
         /\ NodesApart'
         /\ cfgSec'[curSection] = c
         /\ \A s \in Sections \ {curSection} : cfgSec'[s] = cfgSec[s] /\ cfgSec[s] # c
         /\ Aliased' <=> Aliased
<1>1. /\ cfgSec \in [Sections -> Chunks \cup {Null}] /\ curSection \in Sections
      /\ used \subseteq Chunks /\ cfgGlobal \in used /\ c # Null
      /\ globalSection \in Sections
  BY ConfigAssumption DEF ConfigInv, ConfigTypeOK
<1>2. cfgSec' = [cfgSec EXCEPT ![curSection] = c] /\ used' = used \cup {c}
  BY DEF Place
<1>3. cfgSec'[curSection] = c /\ \A s \in Sections \ {curSection} : cfgSec'[s] = cfgSec[s]
  BY <1>1, <1>2
<1>4. \A s \in Sections \ {curSection} : cfgSec[s] # c
  <2>1. CASE Found
    BY <2>1, <1>1 DEF Place, Places, Found, ConfigInv, NodesApart
  <2>2. CASE ~Found
    <3>1. c \notin InMap
      BY <2>2, <1>1 DEF Place, Places, ConfigInv, NodesApart, InMap
    <3> QED
      BY <3>1, <1>1 DEF InMap
  <2> QED
    BY <2>1, <2>2
<1>5. Found => cfgSec' = cfgSec
  BY <1>1, <1>2 DEF Place, Places, Found
<1>6. Aliased' <=> Aliased
  <2>1. cfgSec'[globalSection] = cfgSec[globalSection]
    BY <1>1, <1>3, <1>5 DEF Found, ConfigInv, NodesApart
  <2> QED
    BY <2>1 DEF Aliased
<1>7. NodesApart'
  BY <1>1, <1>2, <1>3, <1>4 DEF ConfigInv, NodesApart
<1> QED
  BY <1>1, <1>2, <1>3, <1>4, <1>6, <1>7

(* The keys S and values V of a node are those of g, with the defaults below. *)
Shows(S, V, g) ==
  \A k \in Keys : /\ k \in S <=> g[k] # Unset
                  /\ g[k] # Unset => V[k] = g[k]
ShowsDefaults(V, g) == \A k \in Keys : g[k] = Unset => V[k] = Def[k]

(***************************************************************************)
(* A line of a section that leaves its node with the keys S and values V,  *)
(* which are those the file gave, keeps all nodes faithful to the file.    *)
(***************************************************************************)
LEMMA NodeWritten ==
  ASSUME ConfigInv, reading, NEW c \in Chunks, Place(c),
         NEW S \in SUBSET Keys, NEW V \in [Keys -> Values],
         NEW g \in [Keys -> Stored \cup {Unset}],
         m_set' = [m_set EXCEPT ![c] = S],
         m_vals' = [m_vals EXCEPT ![c] = V],
         given' = [given EXCEPT ![curSection] = g],
         UNCHANGED <<cfgGlobal, reads, curSection>>,
         reading' \in BOOLEAN, cfgRet' \in BOOLEAN, lines' \in Nat,
         Aliased => Shows(S, V, g),
         Aliased /\ curSection = globalSection => ShowsDefaults(V, g)
  PROVE  ConfigInv'
<1>1. /\ cfgSec \in [Sections -> Chunks \cup {Null}] /\ curSection \in Sections
      /\ m_set \in [Chunks -> SUBSET Keys] /\ m_vals \in [Chunks -> [Keys -> Values]]
      /\ given \in [Sections -> [Keys -> Stored \cup {Unset}]]
      /\ globalSection \in Sections /\ Null \notin Chunks
      /\ cfgGlobal \in Chunks /\ reads \in Nat
  BY ConfigAssumption DEF ConfigInv, ConfigTypeOK
<1>2. /\ cfgSec' \in [Sections -> Chunks \cup {Null}]
      /\ used' \subseteq Chunks /\ cfgGlobal \in used'
      /\ NodesApart'
      /\ cfgSec'[curSection] = c
      /\ \A s \in Sections \ {curSection} : cfgSec'[s] = cfgSec[s] /\ cfgSec[s] # c
      /\ Aliased' <=> Aliased
  BY PlacedApart
<1>3. /\ m_set' \in [Chunks -> SUBSET Keys] /\ m_vals' \in [Chunks -> [Keys -> Values]]
      /\ given' \in [Sections -> [Keys -> Stored \cup {Unset}]]
  BY <1>1
<1>4. ConfigTypeOK'
  BY <1>1, <1>2, <1>3 DEF ConfigTypeOK
<1>5. FirstAliased'
  BY <1>2 DEF FirstAliased, ConfigInv
<1>6. ASSUME Aliased' PROVE Faithful'
  <2>1. Aliased /\ Faithful /\ Aliased'
    BY <1>2, <1>6 DEF ConfigInv
  <2>2. ASSUME NEW s \in Sections PROVE NodeFaithful(s)'
    <3>1. CASE s = curSection
      <4>1. /\ given'[s] = g /\ cfgSec'[s] = c /\ c # Null
            /\ m_set'[c] = S /\ m_vals'[c] = V
        BY <3>1, <1>1, <1>2
      <4> QED
        BY <4>1, <2>1 DEF NodeFaithful, Shows
    <3>2. CASE s # curSection
      <4>1. given'[s] = given[s] /\ cfgSec'[s] = cfgSec[s] /\ cfgSec[s] # c
        BY <3>2, <1>1, <1>2
      <4>2. cfgSec[s] # Null => /\ m_set'[cfgSec[s]] = m_set[cfgSec[s]]
                                /\ m_vals'[cfgSec[s]] = m_vals[cfgSec[s]]
        BY <4>1, <1>1
      <4>3. NodeFaithful(s)
        BY <2>1 DEF Faithful
      <4> QED
        BY <4>1, <4>2, <4>3 DEF NodeFaithful
    <3> QED
      BY <3>1, <3>2
  <2>3. DefaultsBelow'
    <3>1. CASE curSection = globalSection
      <4>1. given'[globalSection] = g /\ c = cfgGlobal /\ m_vals'[cfgGlobal] = V
        BY <3>1, <2>1, <1>1, <1>2 DEF Aliased
      <4> QED
        BY <4>1, <3>1, <2>1 DEF DefaultsBelow, ShowsDefaults
    <3>2. CASE curSection # globalSection
      <4>1. given'[globalSection] = given[globalSection] /\ c # cfgGlobal
        BY <3>2, <2>1, <1>1, <1>2 DEF Aliased
      <4>2. m_vals'[cfgGlobal] = m_vals[cfgGlobal]
        BY <4>1, <1>1
      <4> QED
        BY <4>1, <4>2, <2>1 DEF DefaultsBelow, Faithful
    <3> QED
      BY <3>1, <3>2
  <2> QED
    BY <2>2, <2>3 DEF Faithful
<1> QED
  BY <1>2, <1>4, <1>5, <1>6 DEF ConfigInv

-----------------------------------------------------------------------------
(* read_cfg() starts a file: whichever chunk "global" gets, cfgGlobal has the defaults. *)
LEMMA BeginKeeps == ConfigInv /\ ReadCfgBegin => ConfigInv'
<1> SUFFICES ASSUME ConfigInv, ReadCfgBegin PROVE ConfigInv'
  OBVIOUS
<1>1. /\ m_set \in [Chunks -> SUBSET Keys] /\ m_vals \in [Chunks -> [Keys -> Values]]
      /\ used \subseteq Chunks /\ cfgGlobal \in used /\ reads \in Nat
      /\ globalSection \in Sections /\ Null \notin Chunks
  BY ConfigAssumption DEF ConfigInv, ConfigTypeOK
<1>2. PICK c \in used :
        /\ cfgSec' = OnlyGlobal(c)
        /\ m_set' = [m_set EXCEPT ![c] = {}, ![cfgGlobal] = {}]
        /\ m_vals' = [m_vals EXCEPT ![c] = Constructed(m_vals[c]), ![cfgGlobal] = Defaults]
  BY DEF ReadCfgBegin
<1>3. /\ cfgGlobal' = cfgGlobal /\ used' = used /\ cfgRet' = cfgRet /\ lines' = lines
      /\ reading' = TRUE /\ curSection' = globalSection /\ reads' = reads + 1
      /\ given' = NothingGiven
  BY DEF ReadCfgBegin
<1>4. Constructed(m_vals[c]) \in [Keys -> Values] /\ Defaults \in [Keys -> Values]
  BY <1>1, ValuesThere DEF Constructed, Defaults
<1>5. m_set' \in [Chunks -> SUBSET Keys] /\ m_vals' \in [Chunks -> [Keys -> Values]]
  BY <1>1, <1>2, <1>4
<1>6. cfgSec' \in [Sections -> Chunks \cup {Null}] /\ cfgSec'[globalSection] = c
  BY <1>1, <1>2 DEF OnlyGlobal
<1>7. given' \in [Sections -> [Keys -> Stored \cup {Unset}]]
  BY <1>3 DEF NothingGiven
<1>8. ConfigTypeOK'
  BY <1>1, <1>3, <1>5, <1>6, <1>7 DEF ConfigTypeOK, ConfigInv
<1>9. NodesApart'
  BY <1>1, <1>2, <1>3 DEF NodesApart, OnlyGlobal
<1>10. FirstAliased'
  BY <1>1, <1>3, <1>6 DEF ConfigInv, FirstAliased, Aliased
<1>11. ASSUME Aliased' PROVE Faithful'
  <2>1. c = cfgGlobal
    BY <1>3, <1>6, <1>11 DEF Aliased
  <2>2. m_set'[cfgGlobal] = {} /\ m_vals'[cfgGlobal] = Defaults
    BY <2>1, <1>1, <1>2
  <2>3. \A s \in Sections : \A k \in Keys : given'[s][k] = Unset
    BY <1>3 DEF NothingGiven
  <2>4. \A s \in Sections : cfgSec'[s] = Null \/ cfgSec'[s] = cfgGlobal
    BY <2>1, <1>2 DEF OnlyGlobal
  <2>5. \A s \in Sections : NodeFaithful(s)'
    BY <2>2, <2>3, <2>4 DEF NodeFaithful
  <2>6. DefaultsBelow'
    BY <2>2, <1>3 DEF DefaultsBelow, Defaults
  <2> QED
    BY <2>5, <2>6 DEF Faithful
<1> QED
  BY <1>8, <1>9, <1>10, <1>11 DEF ConfigInv

(* A step that leaves the map, its nodes and the history alone keeps the invariant. *)
LEMMA NodesKept ==
  ASSUME ConfigInv,
         UNCHANGED <<cfgSec, cfgGlobal, used, m_set, m_vals, reads, given>>,
         reading' => reading, reading' \in BOOLEAN, curSection' \in Sections, cfgRet' \in BOOLEAN,
         lines' \in Nat
  PROVE  ConfigInv'
<1>1. ConfigTypeOK'
  BY DEF ConfigInv, ConfigTypeOK
<1>2. NodesApart' /\ FirstAliased'
  BY DEF ConfigInv, NodesApart, FirstAliased, Aliased
<1>3. Aliased' => Faithful'
  BY DEF ConfigInv, Aliased, Faithful, NodeFaithful, DefaultsBelow
<1> QED
  BY <1>1, <1>2, <1>3 DEF ConfigInv

-----------------------------------------------------------------------------
(***************************************************************************)
(* The node curSection has or gets holds what the lines so far gave: the   *)
(* constructor of a section sets nothing.                                  *)
(***************************************************************************)
LEMMA NodeBefore ==
  ASSUME ConfigInv, NEW c \in Chunks, Place(c)
  PROVE  /\ SetAt(c) \in SUBSET Keys /\ ValsAt(c) \in [Keys -> Values]
         /\ given[curSection] \in [Keys -> Stored \cup {Unset}]
         /\ Aliased => Shows(SetAt(c), ValsAt(c), given[curSection])
         /\ Aliased /\ curSection = globalSection => ShowsDefaults(ValsAt(c), given[curSection])
<1>1. /\ m_set \in [Chunks -> SUBSET Keys] /\ m_vals \in [Chunks -> [Keys -> Values]]
      /\ given \in [Sections -> [Keys -> Stored \cup {Unset}]]
      /\ curSection \in Sections
  BY DEF ConfigInv, ConfigTypeOK
<1>2. Constructed(m_vals[c]) \in [Keys -> Values]
  BY <1>1, ValuesThere DEF Constructed
<1>3. Aliased => NodeFaithful(curSection) /\ DefaultsBelow
  BY <1>1 DEF ConfigInv, Faithful
<1>4. CASE Found
  <2>1. c = cfgSec[curSection] /\ SetAt(c) = m_set[c] /\ ValsAt(c) = m_vals[c]
    BY <1>4 DEF Place, Places, SetAt, ValsAt
  <2> QED
    BY <2>1, <1>1, <1>3, <1>4
    DEF NodeFaithful, DefaultsBelow, Found, Aliased, Shows, ShowsDefaults
<1>5. CASE ~Found
  <2>1. SetAt(c) = {} /\ ValsAt(c) = Constructed(m_vals[c]) /\ curSection # globalSection
    BY <1>5 DEF SetAt, ValsAt, Found, ConfigInv, NodesApart
  <2> QED
    BY <2>1, <1>1, <1>2, <1>3, <1>5 DEF NodeFaithful, Found, Shows, ShowsDefaults
<1> QED
  BY <1>4, <1>5

(* set_val() that stores a value keeps the invariant. *)
LEMMA StoreKeeps ==
  ASSUME ConfigInv, reading, NEW c \in Chunks, Place(c),
         NEW k \in Keys, NEW v \in Legal[k], Store(c, k, v),
         UNCHANGED <<cfgGlobal, reads, curSection>>,
         reading' \in BOOLEAN, cfgRet' \in BOOLEAN, lines' \in Nat
  PROVE  ConfigInv'
<1> DEFINE S == SetAt(c) \cup {k}
           V == [ValsAt(c) EXCEPT ![k] = v]
           g == [given[curSection] EXCEPT ![k] = v]
<1>1. v \in Stored /\ v \in Values /\ v # Unset
  BY ValuesThere, ConfigAssumption
<1>2. /\ SetAt(c) \in SUBSET Keys /\ ValsAt(c) \in [Keys -> Values]
      /\ given[curSection] \in [Keys -> Stored \cup {Unset}]
      /\ Aliased => Shows(SetAt(c), ValsAt(c), given[curSection])
      /\ Aliased /\ curSection = globalSection => ShowsDefaults(ValsAt(c), given[curSection])
  BY NodeBefore
<1>3. S \in SUBSET Keys /\ V \in [Keys -> Values] /\ g \in [Keys -> Stored \cup {Unset}]
  BY <1>1, <1>2
<1>4. \A j \in Keys : /\ g[j] = IF j = k THEN v ELSE given[curSection][j]
                      /\ V[j] = IF j = k THEN v ELSE ValsAt(c)[j]
  BY <1>2
<1>5. Aliased => Shows(S, V, g)
  BY <1>1, <1>2, <1>4 DEF Shows
<1>6. Aliased /\ curSection = globalSection => ShowsDefaults(V, g)
  BY <1>1, <1>2, <1>4 DEF ShowsDefaults
<1>7. /\ m_set' = [m_set EXCEPT ![c] = S] /\ m_vals' = [m_vals EXCEPT ![c] = V]
      /\ given' = [given EXCEPT ![curSection] = g]
  BY DEF Store
<1> HIDE DEF S, V, g
<1> QED
  BY <1>3, <1>5, <1>6, <1>7, NodeWritten, Zenon

(* A line that sets nothing, but makes its section, keeps the invariant. *)
LEMMA RejectKeeps ==
  ASSUME ConfigInv, reading, NEW c \in Chunks, Place(c), Reject(c),
         UNCHANGED <<cfgGlobal, reads, curSection>>,
         reading' \in BOOLEAN, cfgRet' \in BOOLEAN, lines' \in Nat
  PROVE  ConfigInv'
<1> DEFINE S == SetAt(c)
           V == ValsAt(c)
           g == given[curSection]
<1>1. /\ S \in SUBSET Keys /\ V \in [Keys -> Values] /\ g \in [Keys -> Stored \cup {Unset}]
      /\ Aliased => Shows(S, V, g)
      /\ Aliased /\ curSection = globalSection => ShowsDefaults(V, g)
  BY NodeBefore
<1>2. /\ m_set' = [m_set EXCEPT ![c] = S] /\ m_vals' = [m_vals EXCEPT ![c] = V]
      /\ given' = [given EXCEPT ![curSection] = g]
  BY DEF Reject, ConfigInv, ConfigTypeOK
<1> HIDE DEF S, V, g
<1> QED
  BY <1>1, <1>2, NodeWritten, Zenon

-----------------------------------------------------------------------------
(* Each step of ConfigFile keeps the invariant. *)
LEMMA ConfigStep == ConfigInv /\ [ConfigNext]_cfgVars => ConfigInv'
<1> SUFFICES ASSUME ConfigInv, [ConfigNext]_cfgVars PROVE ConfigInv'
  OBVIOUS
<1>1. /\ reading \in BOOLEAN /\ cfgRet \in BOOLEAN /\ curSection \in Sections /\ lines \in Nat
      /\ globalSection \in Sections
  BY ConfigAssumption DEF ConfigInv, ConfigTypeOK
<1>2. CASE ReadCfgFails
  BY <1>1, <1>2, NodesKept DEF ReadCfgFails
<1>3. CASE ReadCfgBegin
  BY <1>3, BeginKeeps
<1>4. ASSUME NEW l \in Lines, ReadLine(l) PROVE ConfigInv'
  <2>1. CASE l.op = "section" /\ Header(l.section)
    <3>1. l.section \in Sections
      BY <2>1, LinesAssumption
    <3> QED
      BY <2>1, <3>1, <1>1, NodesKept DEF Header, NextLine
  <2>2. CASE l.op = "broken" /\ BrokenHeader
    <3>1. /\ UNCHANGED <<cfgSec, cfgGlobal, used, m_set, m_vals, reads, given, curSection>>
          /\ reading' = FALSE /\ cfgRet' = FALSE /\ lines' \in Nat
      BY <2>2, <1>1 DEF BrokenHeader, NextLine, ReadCfgReturns
    <3> QED
      BY <3>1, <1>1, NodesKept
  <2>3. CASE l.op = "other" /\ OtherKey
    <3>1. PICK c \in Chunks : Place(c) /\ Reject(c)
      BY <2>3 DEF OtherKey, Reject
    <3>2. /\ reading /\ UNCHANGED <<cfgGlobal, reads, curSection>>
          /\ reading' \in BOOLEAN /\ cfgRet' \in BOOLEAN /\ lines' \in Nat
      BY <2>3, <1>1 DEF OtherKey, NextLine
    <3> QED
      BY <3>1, <3>2, RejectKeeps
  <2>4. CASE l.op = "set" /\ KeyLine(l.key, l.val)
    <3>1. l.key \in Keys
      BY <2>4, LinesAssumption
    <3>2. PICK c \in Chunks :
            /\ Place(c)
            /\ IF l.val \in Legal[l.key]
               THEN Store(c, l.key, l.val) /\ UNCHANGED <<reading, cfgRet>>
               ELSE Reject(c) /\ ReadCfgReturns(FALSE)
      BY <2>4 DEF KeyLine
    <3>3. /\ reading /\ UNCHANGED <<cfgGlobal, reads, curSection>>
          /\ reading' \in BOOLEAN /\ cfgRet' \in BOOLEAN /\ lines' \in Nat
      <4>1. reading /\ UNCHANGED <<cfgGlobal, reads, curSection>> /\ lines' \in Nat
        BY <2>4, <1>1 DEF KeyLine, NextLine
      <4>2. reading' \in BOOLEAN /\ cfgRet' \in BOOLEAN
        BY <3>2, <1>1, Zenon DEF ReadCfgReturns
      <4> QED
        BY <4>1, <4>2
    <3>4. CASE l.val \in Legal[l.key]
      BY <3>1, <3>2, <3>3, <3>4, StoreKeeps
    <3>5. CASE l.val \notin Legal[l.key]
      BY <3>2, <3>3, <3>5, RejectKeeps
    <3> QED
      BY <3>4, <3>5
  <2>5. CASE l.op = "bare" /\ BareKey(l.key)
    <3>1. l.key \in Keys
      BY <2>5, LinesAssumption
    <3>2. PICK c \in Chunks :
            /\ Place(c)
            /\ \/ \E v \in Legal[l.key] : Store(c, l.key, v) /\ ReadCfgReturns(TRUE)
               \/ Reject(c) /\ ReadCfgReturns(FALSE)
      BY <2>5 DEF BareKey
    <3>3. /\ reading /\ UNCHANGED <<cfgGlobal, reads, curSection>>
          /\ reading' \in BOOLEAN /\ cfgRet' \in BOOLEAN /\ lines' \in Nat
      <4>1. reading /\ UNCHANGED <<cfgGlobal, reads, curSection>> /\ lines' \in Nat
        BY <2>5, <1>1 DEF BareKey, NextLine
      <4>2. reading' \in BOOLEAN /\ cfgRet' \in BOOLEAN
        BY <3>2, <1>1, Zenon DEF ReadCfgReturns
      <4> QED
        BY <4>1, <4>2
    <3>4. CASE Reject(c)
      BY <3>2, <3>3, <3>4, RejectKeeps
    <3>5. CASE \E v \in Legal[l.key] : Store(c, l.key, v)
      <4>1. PICK v \in Legal[l.key] : Store(c, l.key, v)
        BY <3>5
      <4> QED
        BY <4>1, <3>1, <3>2, <3>3, StoreKeeps
    <3> QED
      BY <3>2, <3>4, <3>5
  <2> QED
    BY <1>4, <2>1, <2>2, <2>3, <2>4, <2>5 DEF ReadLine
<1>5. CASE EndOfFile
  BY <1>1, <1>5, NodesKept DEF EndOfFile, ReadCfgReturns
<1>6. CASE UNCHANGED cfgVars
  BY <1>1, <1>6, NodesKept DEF cfgVars
<1> QED
  BY <1>2, <1>3, <1>4, <1>5, <1>6 DEF ConfigNext

(* A faithful map makes get(), get_str() and get_bin() return what the file says. *)
LEMMA InvFollows == ConfigInv => GettersFollowFile
<1> SUFFICES ASSUME ConfigInv, reads <= 1 \/ Aliased PROVE FollowsFile
  BY DEF GettersFollowFile
<1>1. Aliased /\ Faithful
  BY DEF ConfigInv, FirstAliased
<1>2. globalSection \in Sections /\ NoSection \notin Sections
  BY ConfigAssumption
<1>3. cfgSec[globalSection] = cfgGlobal /\ cfgGlobal # Null
  BY <1>1 DEF Aliased, ConfigInv, NodesApart
<1>4. SUFFICES ASSUME NEW k \in Keys, NEW s \in Sections \cup {NoSection}
      PROVE  get(k, s) = FileSays(k, s)
  BY DEF FollowsFile
<1>5. m_vals[cfgGlobal][k] =
        IF given[globalSection][k] # Unset THEN given[globalSection][k] ELSE Def[k]
  BY <1>1, <1>2, <1>3 DEF Faithful, NodeFaithful, DefaultsBelow
<1>6. CASE s = NoSection
  BY <1>5, <1>6 DEF get, is_global, FileSays
<1>7. CASE s # NoSection
  <2>1. s \in Sections /\ NodeFaithful(s)
    BY <1>1, <1>7 DEF Faithful
  <2>2. is_global(k, s) <=> given[s][k] = Unset
    BY <2>1, <1>7 DEF NodeFaithful, is_global
  <2> QED
    BY <2>1, <2>2, <1>5, <1>7 DEF get, FileSays, NodeFaithful
<1> QED
  BY <1>6, <1>7

-----------------------------------------------------------------------------
(* The variables of ConfigFile keep their types through any files. *)
THEOREM ConfigTypes == ConfigSpec => []ConfigTypeOK
<1>1. ConfigInv => ConfigTypeOK
  BY DEF ConfigInv
<1> QED
  BY <1>1, ConfigInitial, ConfigStep, PTL DEF ConfigSpec

(***************************************************************************)
(* The getters of cfg.cpp return what the file says, for the first file    *)
(* and for each later one that finds "global" where cfgGlobal refers to.   *)
(***************************************************************************)
THEOREM ConfigFollows == ConfigSpec => []GettersFollowFile
BY ConfigInitial, ConfigStep, InvFollows, PTL DEF ConfigSpec

(* Every step of main() is one of its ConfigFile, or none. *)
LEMMA StartIsConfig == [StartNext]_startVars => [ConfigNext]_cfgVars
<1> SUFFICES ASSUME [StartNext]_startVars PROVE [ConfigNext]_cfgVars
  OBVIOUS
<1>1. ASSUME NEW o \in Options, GetOption(o) PROVE UNCHANGED cfgVars
  BY <1>1 DEF GetOption
<1>2. CASE EndOfOptions \/ Parameters \/ OpenSocket \/ UpdateParams
  BY <1>2 DEF EndOfOptions, Parameters, OpenSocket, UpdateParams
<1>3. CASE OpenFile
  BY <1>3 DEF OpenFile, ConfigNext
<1>4. CASE ReadFile
  BY <1>4 DEF ReadFile, ConfigNext
<1>5. CASE MainIsOver \/ UNCHANGED startVars
  BY <1>5 DEF MainIsOver, startVars
<1> QED
  BY <1>1, <1>2, <1>3, <1>4, <1>5 DEF StartNext

(* The invariant of ConfigFile holds in main(). *)
LEMMA StartConfigInv == StartSpec => []ConfigInv
<1>1. StartInit => ConfigInv
  BY ConfigInitial DEF StartInit
<1> QED
  BY <1>1, StartIsConfig, ConfigStep, PTL DEF StartSpec

(***************************************************************************)
(* main() of pmc.cpp, which reads at most one file, uses ConfigFile the    *)
(* way ConfigSpec says: its getters return what the file of -f says.       *)
(***************************************************************************)
THEOREM StartFollows == StartSpec => []GettersFollowFile
BY StartConfigInv, InvFollows, PTL
-----------------------------------------------------------------------------
(* What lines gave is in the range of its key. *)
GivenLegal == \A s \in Sections : \A k \in Keys : given[s][k] \in Legal[k] \cup {Unset}

(* set_val() only stores values in range. *)
LEMMA StoreLegal ==
  ASSUME ConfigTypeOK, GivenLegal, NEW c, NEW k \in Keys, NEW v \in Legal[k], Store(c, k, v)
  PROVE  GivenLegal'
<1>1. given' = [given EXCEPT ![curSection][k] = v] /\ curSection \in Sections
  BY DEF Store, ConfigTypeOK
<1> QED
  BY <1>1 DEF GivenLegal, ConfigTypeOK

(* Every step of ConfigFile keeps to the ranges. *)
LEMMA GivenStep == ConfigTypeOK /\ GivenLegal /\ [ConfigNext]_cfgVars => GivenLegal'
<1> SUFFICES ASSUME ConfigTypeOK, GivenLegal, [ConfigNext]_cfgVars PROVE GivenLegal'
  OBVIOUS
<1>1. CASE UNCHANGED given
  BY <1>1 DEF GivenLegal
<1>2. CASE given' = NothingGiven
  BY <1>2 DEF GivenLegal, NothingGiven
<1>3. ASSUME NEW l \in Lines, ReadLine(l) PROVE GivenLegal'
  <2>1. \/ UNCHANGED given
        \/ \E c \in Chunks : \E v \in Legal[l.key] :
             l.op \in {"set", "bare"} /\ Store(c, l.key, v)
    BY <1>3 DEF ReadLine, Header, BrokenHeader, OtherKey, KeyLine, BareKey, Reject
  <2>2. l.op \in {"set", "bare"} => l.key \in Keys
    BY LinesAssumption
  <2> QED
    BY <1>1, <2>1, <2>2, StoreLegal
<1>4. CASE ReadCfgFails \/ EndOfFile \/ UNCHANGED cfgVars
  BY <1>1, <1>4 DEF ReadCfgFails, EndOfFile, cfgVars
<1>5. CASE ReadCfgBegin
  BY <1>2, <1>5 DEF ReadCfgBegin
<1> QED
  BY <1>3, <1>4, <1>5 DEF ConfigNext

(* What main() collects, for a port number and the two flags set last. *)
Collected(port, sig, zero) ==
  [boundaryHops |-> IF Given("b") THEN Octet8(options["b"]) ELSE 1,
   domainNumber |->
     IF Given("d") THEN (IF Given("b") THEN Octet8(options["b"]) ELSE 0)
     ELSE get("domainNumber", interface),
   transportSpecific |->
     IF Given("t") THEN Octet8(options["t"]) ELSE get("transportSpecific", interface),
   rcvSignaling |-> sig, useZeroGet |-> zero, portNumber |-> port]

(***************************************************************************)
(* main() reads one file at most, and none before its options are over.    *)
(* From then on each stage has what the stages before it collected, while  *)
(* the options and the file stay as they are.                              *)
(***************************************************************************)
StartInv ==
  /\ DOMAIN options = WithValue
  /\ interface \in Sections \cup {NoSection}
  /\ at \in {"options", "open"} => reads = 0
  /\ at # "lib" => reads <= 1
  /\ at = "socket" =>
       prms = Collected(IF net_select = "u" THEN "none" ELSE "one", FALSE, FALSE)
  /\ at = "update" =>
       /\ prms = Collected(IF net_select = "u" THEN "pid" ELSE "one", FALSE, FALSE)
       /\ sock = SetSocket /\ ~Refused
  /\ at = "run" =>
       /\ sock = SetSocket /\ ~Refused
       /\ \E sig \in BOOLEAN :
            LET p == Collected(IF net_select = "u" THEN "pid" ELSE "one", sig, zero_get)
            IN  (p.transportSpecific > 15 \/ m_prms = p) /\ (sig => net_select # "u")

(* The getters read the file and nothing else of main(). *)
LEMMA GetKept ==
  ASSUME UNCHANGED cfgVars PROVE \A k, s : get(k, s)' = get(k, s)
  BY DEF cfgVars, get, is_global

(* What main() collected stays, as long as the file and the options do. *)
LEMMA CollectedKept ==
  ASSUME UNCHANGED <<cfgVars, options>>
  PROVE  /\ \A port, sig, zero : Collected(port, sig, zero)' = Collected(port, sig, zero)
         /\ UNCHANGED interface
         /\ UNCHANGED net_select => SetSocket' = SetSocket /\ (Refused' <=> Refused)
<1>1. UNCHANGED <<interface, options>> /\ \A o : Given(o)' <=> Given(o)
  BY DEF interface, Given
<1>2. \A k : get(k, interface)' = get(k, interface)
  BY <1>1, GetKept
<1>3. \A port, sig, zero : Collected(port, sig, zero)' = Collected(port, sig, zero)
  BY <1>1, <1>2 DEF Collected
<1>4. UNCHANGED net_select => SetSocket' = SetSocket
  BY <1>1, <1>2 DEF SetSocket
<1>5. UNCHANGED net_select => (Refused' <=> Refused)
  BY <1>1 DEF Refused
<1> QED
  BY <1>1, <1>3, <1>4, <1>5

(* An option replaces its value and nothing else. *)
LEMMA OptionKeeps ==
  ASSUME StartInv, NEW o \in Options, GetOption(o)
  PROVE  StartInv'
<1>1. at = "options" /\ at' \in {"options", "exit"} /\ UNCHANGED <<reads>>
  BY DEF GetOption, Exit, cfgVars
<1>2. CASE UNCHANGED options
  <2>1. UNCHANGED interface
    BY <1>2 DEF interface, Given
  <2> QED
    BY <1>1, <1>2, <2>1 DEF StartInv
<1>3. CASE /\ o.opt \in WithValue
           /\ options' = [options EXCEPT ![o.opt] = IF o.opt \in {"f", "i"} THEN o.name ELSE o.val]
  <2>1. DOMAIN options' = WithValue
    BY <1>3 DEF StartInv
  <2>2. interface' \in Sections \cup {NoSection}
    <3>1. CASE o.opt = "i"
      <4>1. options'["i"] = o.name /\ o.name \in Sections \cup {NoSection}
        BY <1>3, <3>1, OptionsAssumption DEF StartInv
      <4> QED
        BY <4>1 DEF interface
    <3>2. CASE o.opt # "i"
      <4>1. options'["i"] = options["i"]
        BY <1>3, <3>2 DEF StartInv, WithValue
      <4> QED
        BY <4>1 DEF interface, Given, StartInv
    <3> QED
      BY <3>1, <3>2
  <2> QED
    BY <1>1, <2>1, <2>2 DEF StartInv
<1> QED
  BY <1>2, <1>3 DEF GetOption

(* Each stage of main() hands on what it collected. *)
LEMMA StartStep == ConfigInv /\ StartInv /\ [StartNext]_startVars => StartInv'
<1> SUFFICES ASSUME ConfigInv, StartInv, [StartNext]_startVars PROVE StartInv'
  OBVIOUS
<1>1. reads \in Nat
  BY DEF ConfigInv, ConfigTypeOK
<1>2. UNCHANGED options => UNCHANGED interface
  BY DEF interface, Given
<1>3. ASSUME UNCHANGED options, at' \in {"open", "read", "params", "exit", "lib"},
             at' = "open" => reads' = 0, at' # "lib" => reads' <= 1
      PROVE  StartInv'
  BY <1>2, <1>3 DEF StartInv
<1>4. ASSUME NEW o \in Options, GetOption(o) PROVE StartInv'
  BY <1>4, OptionKeeps
<1>5. CASE EndOfOptions
  BY <1>1, <1>3, <1>5 DEF EndOfOptions, StartInv, cfgVars
<1>6. CASE OpenFile
  <2>1. reads = 0 /\ UNCHANGED options
    BY <1>6 DEF OpenFile, StartInv
  <2>2. (at' = "exit" /\ reads' = reads) \/ (at' = "read" /\ reads' = reads + 1)
    BY <1>6 DEF OpenFile, ReadCfgFails, ReadCfgBegin, Exit
  <2> QED
    BY <1>3, <2>1, <2>2
<1>7. CASE ReadFile
  <2>1. UNCHANGED reads
    BY <1>7 DEF ReadFile, EndOfFile, ReadLine, Header, BrokenHeader, OtherKey, KeyLine, BareKey
  <2> QED
    BY <1>3, <1>7, <2>1 DEF ReadFile, Exit, StartInv
<1>8. CASE Parameters
  <2>1. UNCHANGED <<cfgVars, options>> /\ at = "params" /\ net_select' = Net
    BY <1>8 DEF Parameters
  <2>2. reads' <= 1
    BY <2>1 DEF StartInv, cfgVars
  <2>3. CASE at' = "exit"
    BY <1>3, <2>1, <2>2, <2>3
  <2>4. CASE at' = "socket" /\ prms' = Params
    <3>1. Params = Collected(IF net_select' = "u" THEN "none" ELSE "one", FALSE, FALSE)
      BY <2>1 DEF Params, Collected
    <3>2. prms' = Collected(IF net_select = "u" THEN "none" ELSE "one", FALSE, FALSE)'
      BY <2>1, <2>4, <3>1, CollectedKept
    <3> QED
      BY <1>2, <2>1, <2>2, <2>4, <3>2 DEF StartInv
  <2> QED
    BY <1>8, <2>3, <2>4 DEF Parameters, Exit
<1>9. CASE OpenSocket
  <2>1. UNCHANGED <<cfgVars, options, net_select>> /\ at = "socket"
    BY <1>9 DEF OpenSocket
  <2>2. reads' <= 1
    BY <2>1 DEF StartInv, cfgVars
  <2>3. CASE at' = "exit"
    BY <1>3, <2>1, <2>2, <2>3
  <2>4. CASE /\ ~Refused /\ sock' = SetSocket /\ at' = "update"
             /\ prms' = [prms EXCEPT !.portNumber = IF net_select = "u" THEN "pid" ELSE @]
    <3>1. prms = Collected(IF net_select = "u" THEN "none" ELSE "one", FALSE, FALSE)
      BY <2>1 DEF StartInv
    <3>2. prms' = Collected(IF net_select = "u" THEN "pid" ELSE "one", FALSE, FALSE)
      BY <2>4, <3>1 DEF Collected
    <3>3. prms' = Collected(IF net_select = "u" THEN "pid" ELSE "one", FALSE, FALSE)'
      BY <2>1, <3>2, CollectedKept
    <3>4. sock' = SetSocket' /\ ~Refused'
      BY <2>1, <2>4, CollectedKept
    <3> QED
      BY <1>2, <2>1, <2>2, <2>4, <3>3, <3>4 DEF StartInv
  <2> QED
    BY <1>9, <2>3, <2>4 DEF OpenSocket, Exit
<1>10. CASE UpdateParams
  <2>1. UNCHANGED <<cfgVars, options, net_select, zero_get, sock>> /\ at = "update" /\ at' = "run"
    BY <1>10 DEF UpdateParams
  <2>2. reads' <= 1
    BY <2>1 DEF StartInv, cfgVars
  <2>3. PICK batch \in BOOLEAN :
          prms' = [prms EXCEPT !.rcvSignaling = ~batch /\ net_select # "u", !.useZeroGet = zero_get]
    BY <1>10 DEF UpdateParams
  <2> DEFINE sig == ~batch /\ net_select # "u"
             port == IF net_select = "u" THEN "pid" ELSE "one"
  <2>4. sig \in BOOLEAN /\ (sig => net_select # "u")
    OBVIOUS
  <2>5. prms' = Collected(port, sig, zero_get)
    <3>1. prms = Collected(port, FALSE, FALSE)
      BY <2>1 DEF StartInv
    <3>2. prms' = [prms EXCEPT !.rcvSignaling = sig, !.useZeroGet = zero_get]
      BY <2>3
    <3> HIDE DEF port, sig
    <3> QED
      BY <3>1, <3>2 DEF Collected
  <2>6. prms'.transportSpecific > 15 \/ m_prms' = prms'
    BY <1>10 DEF UpdateParams
  <2>7. Collected(port, sig, zero_get)' = Collected(port, sig, zero_get)
    <3> HIDE DEF port, sig
    <3>1. UNCHANGED <<port, sig, zero_get>>
      BY <2>1 DEF port, sig
    <3> QED
      BY <2>1, <3>1, CollectedKept
  <2>8. sock' = SetSocket' /\ ~Refused'
    BY <2>1, CollectedKept DEF StartInv
  <2> QED
    BY <1>2, <2>1, <2>2, <2>4, <2>5, <2>6, <2>7, <2>8 DEF StartInv
<1>11. CASE at = "lib" /\ UNCHANGED mainVars
  BY <1>3, <1>11 DEF mainVars
<1>12. CASE UNCHANGED startVars
  <2>1. UNCHANGED <<cfgVars, options, net_select, zero_get, sock, at, prms, m_prms, reads>>
    BY <1>12 DEF startVars, mainVars, cfgVars
  <2>2. /\ \A port, sig, zero : Collected(port, sig, zero)' = Collected(port, sig, zero)
        /\ UNCHANGED interface /\ SetSocket' = SetSocket /\ (Refused' <=> Refused)
    BY <2>1, CollectedKept
  <2> QED
    BY <2>1, <2>2 DEF StartInv
<1> QED
  BY <1>4, <1>5, <1>6, <1>7, <1>8, <1>9, <1>10, <1>11, <1>12 DEF StartNext, MainIsOver

(* What the file says of a number is a number in the range of its key. *)
LEMMA FileSaysLegal ==
  ASSUME GivenLegal, NEW k \in Keys, NEW s \in Sections \cup {NoSection}
  PROVE  FileSays(k, s) \in Legal[k] \cup {Def[k]}
  BY ConfigAssumption DEF GivenLegal, FileSays

(* An option that is an octet is not changed by the cut. *)
LEMMA FitIsKept ==
  ASSUME Fit, NEW o \in {"b", "t", "T", "S", "P"}, Given(o)
  PROVE  Octet8(options[o]) = options[o] /\ options[o] \in Int
  BY DEF Fit, Octet8

(* In "run", every parameter and every property of the socket is the one asked for. *)
LEMMA RunsAsAsked ==
  ASSUME ConfigInv, GivenLegal, StartInv PROVE StartsAsAsked
<1> SUFFICES ASSUME at = "run", ~Given("d"), Fit, AskedFor("t", "transportSpecific") <= 15
             PROVE  /\ m_prms.boundaryHops = (IF Given("b") THEN options["b"] ELSE 1)
                    /\ m_prms.domainNumber = FileSays("domainNumber", interface)
                    /\ m_prms.transportSpecific = AskedFor("t", "transportSpecific")
                    /\ m_prms.useZeroGet = zero_get
                    /\ m_prms.rcvSignaling => sock.net # "u"
                    /\ m_prms.portNumber = (IF sock.net = "u" THEN "pid" ELSE "one")
                    /\ sock.net \in {"4", "6"} => sock.ttl = AskedFor("T", "udp_ttl")
                    /\ sock.net = "6" => /\ sock.scope = AskedFor("S", "udp6_scope")
                                         /\ sock.scope <= 15
                    /\ sock.net = "2" => /\ sock.priority = AskedFor("P", "socket_priority")
                                         /\ sock.mac = AskedFor("M", "ptp_dst_mac")
                    /\ sock.net = "u" => sock.peer = AskedFor("s", "uds_address")
  BY DEF StartsAsAsked
<1>1. /\ interface \in Sections \cup {NoSection} /\ sock = SetSocket /\ ~Refused /\ reads <= 1
  BY DEF StartInv
<1>2. \A k \in Keys : get(k, interface) = FileSays(k, interface)
  BY <1>1, InvFollows DEF GettersFollowFile, FollowsFile
<1>3. /\ {"domainNumber", "transportSpecific", "udp_ttl", "udp6_scope", "socket_priority"}
           \subseteq NumKeys
      /\ {"uds_address", "ptp_dst_mac"} \subseteq StrKeys
      /\ NumKeys \subseteq Keys /\ StrKeys \subseteq Keys
  BY OptionsAssumption DEF Keys
<1>4. PICK sig \in BOOLEAN :
        LET p == Collected(IF net_select = "u" THEN "pid" ELSE "one", sig, zero_get)
        IN  (p.transportSpecific > 15 \/ m_prms = p) /\ (sig => net_select # "u")
  BY DEF StartInv
<1> DEFINE p == Collected(IF net_select = "u" THEN "pid" ELSE "one", sig, zero_get)
<1>5. p.transportSpecific = AskedFor("t", "transportSpecific")
  BY <1>2, <1>3, FitIsKept DEF Collected, AskedFor
<1>6. AskedFor("t", "transportSpecific") \in Int
  <2>1. FileSays("transportSpecific", interface) \in Int
    BY <1>1, <1>3, FileSaysLegal, ConfigAssumption
  <2> QED
    BY <2>1, FitIsKept DEF AskedFor
<1>7. m_prms = p
  BY <1>4, <1>5, <1>6
<1>8. /\ p.boundaryHops = (IF Given("b") THEN options["b"] ELSE 1)
      /\ p.domainNumber = FileSays("domainNumber", interface)
      /\ p.useZeroGet = zero_get
      /\ p.rcvSignaling => net_select # "u"
      /\ p.portNumber = (IF net_select = "u" THEN "pid" ELSE "one")
  BY <1>2, <1>3, <1>4, FitIsKept DEF Collected
<1>9. sock.net = net_select
  BY <1>1 DEF SetSocket
<1>10. net_select \in {"4", "6"} => sock.ttl = AskedFor("T", "udp_ttl")
  BY <1>1, <1>2, <1>3, FitIsKept DEF SetSocket, AskedFor
<1>11. net_select = "6" => sock.scope = AskedFor("S", "udp6_scope")
  BY <1>1, <1>2, <1>3, FitIsKept DEF SetSocket, AskedFor
<1>12. net_select = "6" => AskedFor("S", "udp6_scope") <= 15
  <2>1. FileSays("udp6_scope", interface) \in 0 .. 15
    BY <1>1, <1>3, FileSaysLegal, OptionsAssumption
  <2>2. net_select = "6" /\ Given("S") => options["S"] <= 15
    BY <1>1, FitIsKept DEF Refused
  <2> QED
    BY <2>1, <2>2 DEF AskedFor
<1>13. net_select = "2" => /\ sock.priority = AskedFor("P", "socket_priority")
                           /\ sock.mac = AskedFor("M", "ptp_dst_mac")
  BY <1>1, <1>2, <1>3, FitIsKept DEF SetSocket, AskedFor
<1>14. net_select = "u" => sock.peer = AskedFor("s", "uds_address")
  BY <1>1, <1>2, <1>3 DEF SetSocket, AskedFor
<1> HIDE DEF p
<1> QED
  BY <1>5, <1>7, <1>8, <1>9, <1>10, <1>11, <1>12, <1>13, <1>14

(***************************************************************************)
(* For every command line and every configuration file: when pmc runs, its *)
(* Message and its socket have what the options ask for, else what the     *)
(* section of the interface says, else "global", else the default.         *)
(***************************************************************************)
THEOREM RunsWithWhatWasAsked == StartSpec => []StartsAsAsked
<1>1. StartInit => StartInv /\ GivenLegal
  <2> SUFFICES ASSUME StartInit PROVE StartInv /\ GivenLegal
    OBVIOUS
  <2>1. interface = NoSection
    BY DEF StartInit, interface, Given, WithValue
  <2>2. /\ at \in {"options", "lib"} /\ reads = 0 /\ DOMAIN options = WithValue
    BY DEF StartInit, ConfigInit
  <2>3. StartInv
    <3>1. interface \in Sections \cup {NoSection} /\ reads <= 1
      BY <2>1, <2>2
    <3>2. at # "socket" /\ at # "update" /\ at # "run"
      BY <2>2
    <3> QED
      BY <2>2, <3>1, <3>2, Zenon DEF StartInv
  <2>4. GivenLegal
    BY DEF StartInit, ConfigInit, GivenLegal, NothingGiven
  <2> QED
    BY <2>3, <2>4
<1>2. ConfigInv /\ GivenLegal /\ [StartNext]_startVars => GivenLegal'
  BY StartIsConfig, GivenStep DEF ConfigInv
<1>3. ConfigInv /\ GivenLegal /\ StartInv => StartsAsAsked
  BY RunsAsAsked
<1> QED
  BY <1>1, <1>2, <1>3, StartStep, StartConfigInv, PTL DEF StartSpec
=============================================================================
