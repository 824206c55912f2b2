---------------------------- MODULE SocketProofs ----------------------------
(***************************************************************************)
(* Proofs about the life cycle of the socket classes, for any number of    *)
(* descriptors and any values of the parameters.                           *)
(*                                                                         *)
(* The invariants are proved together: TypeOK alone is not inductive, as   *)
(* an object that is destroyed leaves the file of its self address, which  *)
(* is a valid address only because of FileOfLiveSocket.                    *)
(***************************************************************************)
EXTENDS Socket, TLAPS

SockInv == TypeOK /\ OwnsItsFd /\ NoFdLeak /\ FileOfLiveSocket

(* An object never changes its class. *)
LEMMA KindIsFixed == [Next]_vars => kind' = kind
  BY DEF Next, SockInit, Set, InitRefused, InitNoSocket, InitHalfWay, InitDone, Close,
         Renew, OthersOpen, OthersClose, vars

(* The self address of an initialized SockUnix is a valid one. *)
LEMMA SelfIsValid ==
  ASSUME TypeOK, FileOfLiveSocket, kind = "unix", m_isInit
  PROVE  conf["self"] \in Valid
  BY DEF TypeOK, FileOfLiveSocket

(* Closing what m_fd names leaves a function on the same descriptors. *)
LEMMA CloseOwnerType ==
  ASSUME TypeOK
  PROVE  /\ BaseCloseOwner(owner) \in [Fds -> {"free", "sock", "others"}]
         /\ OwnerBeforeSocket \in [Fds -> {"free", "sock", "others"}]
  BY DEF TypeOK, BaseCloseOwner, OwnerBeforeSocket

(* Once m_fd is closed, a class other than SockRaw has no socket left. *)
LEMMA CloseOwnerFrees ==
  ASSUME TypeOK, NoFdLeak, kind # "raw"
  PROVE  /\ \A fd \in Fds : BaseCloseOwner(owner)[fd] # "sock"
         /\ OwnerBeforeSocket = BaseCloseOwner(owner)
  BY SocketAssumption DEF TypeOK, NoFdLeak, BaseCloseOwner, OwnerBeforeSocket

(* The values of the variables after each call. *)
LEMMA TypeStep == SockInv /\ [Next]_vars => TypeOK'
<1> SUFFICES ASSUME TypeOK, FileOfLiveSocket, [Next]_vars PROVE TypeOK'
  BY DEF SockInv
<1> USE SocketAssumption
<1>1. ASSUME NEW p \in AllParams, NEW v \in Values, Set(p, v) PROVE TypeOK'
  BY <1>1 DEF TypeOK, Set, Called
<1>2. CASE InitRefused
  BY <1>2 DEF TypeOK, InitRefused, Returns, Called
<1>3. CASE InitNoSocket
  BY <1>3, CloseOwnerType DEF TypeOK, InitNoSocket, Returns, Called
<1>4. ASSUME NEW fd \in Fds, InitHalfWay(fd) PROVE TypeOK'
  BY <1>4, CloseOwnerType DEF TypeOK, InitHalfWay, Returns, Called
<1>5. ASSUME NEW fd \in Fds, InitDone(fd) PROVE TypeOK'
  <2>1. files' \subseteq Valid
    BY <1>5 DEF TypeOK, InitDone, Complete, ParamsOf
  <2> QED
    BY <1>5, <2>1, CloseOwnerType DEF TypeOK, InitDone, Returns, Called
<1>6. CASE Close
  BY <1>6, CloseOwnerType DEF TypeOK, Close, Returns, Called
<1>7. CASE Renew
  <2>1. abandoned' \subseteq Valid
    BY <1>7, SelfIsValid DEF TypeOK, Renew
  <2> QED
    BY <1>7, <2>1, CloseOwnerType DEF TypeOK, Renew, Returns, Called
<1>8. ASSUME NEW fd \in Fds, OthersOpen(fd) PROVE TypeOK'
  BY <1>8 DEF TypeOK, OthersOpen
<1>9. ASSUME NEW fd \in Fds, OthersClose(fd) PROVE TypeOK'
  BY <1>9 DEF TypeOK, OthersClose
<1>10. CASE UNCHANGED vars
  BY <1>10 DEF TypeOK, vars
<1> QED
  BY <1>1, <1>2, <1>3, <1>4, <1>5, <1>6, <1>7, <1>8, <1>9, <1>10 DEF Next, SockInit

(* After each call m_fd names a socket of this object, or none. *)
LEMMA OwnsStep == SockInv /\ [Next]_vars => OwnsItsFd'
<1> SUFFICES ASSUME TypeOK, OwnsItsFd, [Next]_vars PROVE OwnsItsFd'
  BY DEF SockInv
<1> USE SocketAssumption
<1>1. ASSUME NEW p \in AllParams, NEW v \in Values, Set(p, v) PROVE OwnsItsFd'
  BY <1>1 DEF OwnsItsFd, Set
<1>2. CASE InitRefused
  BY <1>2 DEF OwnsItsFd, InitRefused
<1>3. CASE InitNoSocket
  BY <1>3 DEF OwnsItsFd, InitNoSocket
<1>4. ASSUME NEW fd \in Fds, InitHalfWay(fd) PROVE OwnsItsFd'
  BY <1>4, CloseOwnerType DEF OwnsItsFd, InitHalfWay
<1>5. ASSUME NEW fd \in Fds, InitDone(fd) PROVE OwnsItsFd'
  BY <1>5, CloseOwnerType DEF OwnsItsFd, InitDone
<1>6. CASE Close
  BY <1>6 DEF OwnsItsFd, Close
<1>7. CASE Renew
  BY <1>7 DEF OwnsItsFd, Renew
<1>8. ASSUME NEW fd \in Fds, OthersOpen(fd) PROVE OwnsItsFd'
  BY <1>8 DEF TypeOK, OwnsItsFd, OthersOpen
<1>9. ASSUME NEW fd \in Fds, OthersClose(fd) PROVE OwnsItsFd'
  BY <1>9 DEF TypeOK, OwnsItsFd, OthersClose
<1>10. CASE UNCHANGED vars
  BY <1>10 DEF OwnsItsFd, vars
<1> QED
  BY <1>1, <1>2, <1>3, <1>4, <1>5, <1>6, <1>7, <1>8, <1>9, <1>10 DEF Next, SockInit

(* No call of a class other than SockRaw loses a socket. *)
LEMMA NoLeakStep == SockInv /\ [Next]_vars => NoFdLeak'
<1> SUFFICES ASSUME TypeOK, NoFdLeak, [Next]_vars, kind # "raw" PROVE NoFdLeak'
  BY KindIsFixed DEF SockInv, NoFdLeak
<1> USE SocketAssumption
<1>1. ASSUME NEW p \in AllParams, NEW v \in Values, Set(p, v) PROVE NoFdLeak'
  BY <1>1 DEF NoFdLeak, Set
<1>2. CASE InitRefused
  BY <1>2 DEF NoFdLeak, InitRefused
<1>3. CASE InitNoSocket
  BY <1>3, CloseOwnerFrees DEF NoFdLeak, InitNoSocket
<1>4. ASSUME NEW fd \in Fds, InitHalfWay(fd) PROVE NoFdLeak'
  BY <1>4, CloseOwnerFrees, CloseOwnerType DEF NoFdLeak, InitHalfWay
<1>5. ASSUME NEW fd \in Fds, InitDone(fd) PROVE NoFdLeak'
  BY <1>5, CloseOwnerFrees, CloseOwnerType DEF NoFdLeak, InitDone
<1>6. CASE Close
  BY <1>6, CloseOwnerFrees DEF NoFdLeak, Close
<1>7. CASE Renew
  BY <1>7, CloseOwnerFrees DEF NoFdLeak, Renew
<1>8. ASSUME NEW fd \in Fds, OthersOpen(fd) PROVE NoFdLeak'
  BY <1>8 DEF TypeOK, NoFdLeak, OthersOpen
<1>9. ASSUME NEW fd \in Fds, OthersClose(fd) PROVE NoFdLeak'
  BY <1>9 DEF TypeOK, NoFdLeak, OthersClose
<1>10. CASE UNCHANGED vars
  BY <1>10 DEF NoFdLeak, vars
<1> QED
  BY <1>1, <1>2, <1>3, <1>4, <1>5, <1>6, <1>7, <1>8, <1>9, <1>10 DEF Next, SockInit

(* Each call of a SockUnix keeps its file and its flag together. *)
LEMMA FileStep == SockInv /\ [Next]_vars => FileOfLiveSocket'
<1> SUFFICES ASSUME TypeOK, FileOfLiveSocket, [Next]_vars, kind = "unix"
             PROVE  FileOfLiveSocket'
  BY KindIsFixed DEF SockInv, FileOfLiveSocket
<1> USE SocketAssumption
<1>1. ASSUME NEW p \in AllParams, NEW v \in Values, Set(p, v) PROVE FileOfLiveSocket'
  BY <1>1 DEF TypeOK, FileOfLiveSocket, Set
<1>2. CASE InitRefused
  BY <1>2 DEF FileOfLiveSocket, InitRefused
<1>3. CASE InitNoSocket
  BY <1>3 DEF FileOfLiveSocket, InitNoSocket
<1>4. ASSUME NEW fd \in Fds, InitHalfWay(fd) PROVE FileOfLiveSocket'
  BY <1>4 DEF FileOfLiveSocket, InitHalfWay
<1>5. ASSUME NEW fd \in Fds, InitDone(fd) PROVE FileOfLiveSocket'
  BY <1>5 DEF FileOfLiveSocket, InitDone
<1>6. CASE Close
  BY <1>6 DEF FileOfLiveSocket, Close
<1>7. CASE Renew
  BY <1>7 DEF FileOfLiveSocket, Renew
<1>8. ASSUME NEW fd \in Fds, OthersOpen(fd) PROVE FileOfLiveSocket'
  BY <1>8 DEF FileOfLiveSocket, OthersOpen
<1>9. ASSUME NEW fd \in Fds, OthersClose(fd) PROVE FileOfLiveSocket'
  BY <1>9 DEF FileOfLiveSocket, OthersClose
<1>10. CASE UNCHANGED vars
  BY <1>10 DEF FileOfLiveSocket, vars
<1> QED
  BY <1>1, <1>2, <1>3, <1>4, <1>5, <1>6, <1>7, <1>8, <1>9, <1>10 DEF Next, SockInit

(* The conjunction of the invariants is inductive. *)
LEMMA SockInvariant == Spec => []SockInv
<1>1. Init => SockInv
  <2> SUFFICES ASSUME Init PROVE SockInv
    OBVIOUS
  <2>1. TypeOK
    BY DEF Init, TypeOK
  <2>2. OwnsItsFd /\ NoFdLeak /\ FileOfLiveSocket
    BY DEF Init, OwnsItsFd, NoFdLeak, FileOfLiveSocket
  <2> QED
    BY <2>1, <2>2 DEF SockInv
<1>2. SockInv /\ [Next]_vars => SockInv'
  BY TypeStep, OwnsStep, NoLeakStep, FileStep DEF SockInv
<1> QED
  BY <1>1, <1>2, PTL DEF Spec

(* The values of the variables of every socket object. *)
THEOREM SocketTypeCorrect == Spec => []TypeOK
<1>1. SockInv => TypeOK
  BY DEF SockInv
<1> QED
  BY <1>1, SockInvariant, PTL

(***************************************************************************)
(* No class ever closes a descriptor of somebody else: what m_fd names is  *)
(* its own open socket, however many descriptors come and go around it.    *)
(***************************************************************************)
THEOREM ClosesOnlyItsOwn == Spec => []OwnsItsFd
<1>1. SockInv => OwnsItsFd
  BY DEF SockInv
<1> QED
  BY <1>1, SockInvariant, PTL

(***************************************************************************)
(* SockUnix and SockIp never lose an open socket, whatever system call     *)
(* failed in init() and however often it is tried again.                   *)
(***************************************************************************)
THEOREM NeverLeaks == Spec => []NoFdLeak
<1>1. SockInv => NoFdLeak
  BY DEF SockInv
<1> QED
  BY <1>1, SockInvariant, PTL

(***************************************************************************)
(* The files of Unix sockets are those of initialized objects, and of      *)
(* objects destroyed without close().                                      *)
(***************************************************************************)
THEOREM FilesAreOwned == Spec => []FileOfLiveSocket
<1>1. SockInv => FileOfLiveSocket
  BY DEF SockInv
<1> QED
  BY <1>1, SockInvariant, PTL
-----------------------------------------------------------------------------
(* A SockUnix is never dead: while m_isInit holds it has a descriptor. *)
LEMMA StatusOf ==
  ASSUME TypeOK, FileOfLiveSocket
  PROVE  /\ ~m_isInit <=> Status = "closed"
         /\ m_isInit /\ m_fd # NoFd <=> Status = "open"
         /\ Status \in {"closed", "open", "dead"}
         /\ kind = "unix" => Status # "dead"
  BY DEF TypeOK, FileOfLiveSocket, Status

(* Every step of a socket object is a step its contract allows, or a stutter. *)
LEMMA StepAllowed ==
  ASSUME SockInv, SockInv', [Next]_vars
  PROVE  [Contract!CNext]_(Contract!contractVars)
<1> USE SocketAssumption
<1>1. kind' = kind /\ (kind' = "unix") = (kind = "unix") /\ DOMAIN conf = ParamsOf(kind)
  BY KindIsFixed DEF SockInv, TypeOK
<1>2. ~m_isInit <=> Status = "closed"
  BY StatusOf DEF SockInv
<1>3. ASSUME NEW p \in AllParams, NEW v \in Values, Set(p, v)
      PROVE  Contract!CNext
  <2>1. Status' = Status
    BY <1>3 DEF Set, Status
  <2>2. Contract!CSet(p, v)
    BY <1>1, <1>2, <1>3, <2>1 DEF Set, Called, Contract!CSet
  <2>3. p \in DOMAIN conf
    BY <1>1, <1>3 DEF Set
  <2> QED
    BY <2>2, <2>3 DEF Contract!CNext
<1>4. ASSUME InitRefused \/ InitNoSocket \/ \E fd \in Fds : InitHalfWay(fd)
      PROVE  Contract!CNext
  <2>1. conf' = conf /\ ok' = FALSE /\ call' = [op |-> "init", val |-> Unset]
    BY <1>4 DEF InitRefused, InitNoSocket, InitHalfWay, Returns, Called
  <2>2. (m_isInit' = m_isInit /\ m_fd' = m_fd) \/ (~m_isInit /\ m_isInit' = m_isInit)
    BY <1>4 DEF InitRefused, InitNoSocket, InitHalfWay
  <2>3. Status' = Status
    BY <2>2 DEF Status
  <2> QED
    BY <1>1, <2>1, <2>3 DEF Contract!COpen, Contract!CNext
<1>5. ASSUME NEW fd \in Fds, InitDone(fd) PROVE Contract!CNext
  <2>1. /\ conf' = conf /\ ok' = TRUE /\ call' = [op |-> "init", val |-> Unset]
        /\ \A p \in DOMAIN conf : conf[p] # Unset
    BY <1>1, <1>5 DEF InitDone, Complete, Returns, Called
  <2>2. Status = "closed" /\ Status' = "open"
    BY <1>5 DEF InitDone, Status
  <2> QED
    BY <1>1, <2>1, <2>2 DEF Contract!COpen, Contract!CNext
<1>6. ASSUME Close PROVE Contract!CNext
  <2>1. conf' = conf /\ ok' = TRUE /\ call' = [op |-> "close", val |-> Unset]
    BY <1>6 DEF Close, Returns, Called
  <2>2. Status' = IF Status = "open" /\ kind = "unix" THEN "closed"
                  ELSE IF Status = "open" THEN "dead" ELSE Status
    <3>1. CASE kind = "unix"
      BY <1>6, <3>1, StatusOf DEF SockInv, TypeOK, FileOfLiveSocket, Close, Status
    <3>2. CASE kind # "unix"
      BY <1>6, <3>2, StatusOf DEF SockInv, TypeOK, Close, Status
    <3> QED
      BY <3>1, <3>2
  <2> QED
    BY <1>1, <2>1, <2>2 DEF Contract!CClose, Contract!CNext
<1>7. ASSUME Renew PROVE Contract!CNext
  <2>1. /\ conf' = [p \in DOMAIN conf |-> Unset] /\ ok' = TRUE
        /\ call' = [op |-> "renew", val |-> Unset]
    BY <1>1, <1>7 DEF Renew, Returns, Called
  <2>2. Status' = "closed"
    BY <1>7 DEF Renew, Status
  <2> QED
    BY <1>1, <2>1, <2>2 DEF Contract!CRenew, Contract!CNext
<1>8. ASSUME UNCHANGED vars \/ \E fd \in Fds : OthersOpen(fd) \/ OthersClose(fd)
      PROVE  UNCHANGED Contract!contractVars
  BY <1>1, <1>8 DEF OthersOpen, OthersClose, vars, Status, Contract!contractVars
<1> QED
  BY <1>3, <1>4, <1>5, <1>6, <1>7, <1>8 DEF Next, SockInit

(***************************************************************************)
(* Every socket class implements the contract of its life cycle: parameters*)
(* are fixed while it is open, a SockUnix can be changed and initialized   *)
(* anew after close(), and an object of another class has one life.        *)
(***************************************************************************)
THEOREM ImplementsContract == Spec => KeepsContract
<1>1. Init => Contract!CInit
  <2> SUFFICES ASSUME Init PROVE Contract!CInit
    OBVIOUS
  <2>1. Status = "closed"
    BY DEF Init, Status
  <2>2. \A p \in DOMAIN conf : conf[p] = Unset
    BY DEF Init
  <2> QED
    BY <2>1, <2>2 DEF Init, Contract!CInit
<1>2. SockInv /\ SockInv' /\ [Next]_vars => [Contract!CNext]_(Contract!contractVars)
  BY StepAllowed
<1> QED
  BY <1>1, <1>2, SockInvariant, PTL DEF Spec, KeepsContract, Contract!CSpec
=============================================================================
