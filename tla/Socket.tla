------------------------------- MODULE Socket -------------------------------
(***************************************************************************)
(* The life cycle of the socket classes of sock.cpp: SockUnix, SockIp4,    *)
(* SockIp6 and SockRaw.  One object is configured, initialized, closed and *)
(* destroyed, in any order and any number of times, while the rest of the  *)
(* process opens and closes descriptors of its own.                        *)
(*                                                                         *)
(* The kernel is modelled by who owns each file descriptor and by the Unix *)
(* socket files that exist.  Any of its calls may fail.                    *)
(***************************************************************************)
EXTENDS Integers, FiniteSets

CONSTANTS
  Kinds,    \* classes under study, of {"unix", "ip4", "ip6", "raw"}
  Fds,      \* descriptors the process may have
  NoFd,     \* m_fd = -1
  Values,   \* values a setter may be called with
  Valid,    \* values inside the range that the setter checks
  Unset     \* a parameter nobody has set yet

ASSUME SocketAssumption ==
  /\ Kinds \subseteq {"unix", "ip4", "ip6", "raw"}
  /\ NoFd \notin Fds
  /\ Valid \subseteq Values
  /\ Unset \notin Values

AllParams == {"self", "if", "ttl", "scope", "mac", "priority"}

(* The parameters a class has to be given. *)
ParamsOf(k) ==
  CASE k = "unix" -> {"self"}
    [] k = "ip4" -> {"if", "ttl"}
    [] k = "ip6" -> {"if", "ttl", "scope"}
    [] k = "raw" -> {"if", "mac", "priority"}

VARIABLES
  kind,       \* class of the object
  m_fd, m_isInit,
  conf,       \* m_me, m_have_if, m_udp_ttl, m_udp6_scope, ...
  owner,      \* who owns a descriptor: nobody, this object, or others
  files,      \* socket files that exist, by self address
  abandoned,  \* history: addresses of objects destroyed while initialized
  call, ok    \* history: the last call, with a setter's value, and its result

vars == <<kind, m_fd, m_isInit, conf, owner, files, abandoned, call, ok>>

Called(op, val, result) == call' = [op |-> op, val |-> val] /\ ok' = result
Returns(op, result) == Called(op, Unset, result)

-----------------------------------------------------------------------------
(* Mutant: a setter does not ask whether the socket is initialized. *)
SetAnyTime(p, v) ==
  /\ p \in ParamsOf(kind) /\ (p = "ttl" => v \in Valid)
  /\ conf' = IF v \in Valid THEN [conf EXCEPT ![p] = v] ELSE conf
  /\ Called("set", v, v \in Valid)
  /\ UNCHANGED <<kind, m_fd, m_isInit, owner, files, abandoned>>

(* Every setter: refused once initialized, or out of range, which no ttl is. *)
Set(p, v) ==
  /\ p \in ParamsOf(kind) /\ (p = "ttl" => v \in Valid)
  /\ LET accepted == ~m_isInit /\ v \in Valid IN
     /\ conf' = IF accepted THEN [conf EXCEPT ![p] = v] ELSE conf
     /\ Called("set", v, accepted)
  /\ UNCHANGED <<kind, m_fd, m_isInit, owner, files, abandoned>>

(* SockBase::closeBase(): closes whatever m_fd names. *)
BaseCloseOwner(own) == IF m_fd # NoFd THEN [own EXCEPT ![m_fd] = "free"] ELSE own

(***************************************************************************)
(* initBase() checks these before its first system call; SockIp6 only      *)
(* finds out that its scope is missing in init2().                         *)
(***************************************************************************)
Ready == \A p \in ParamsOf(kind) \ {"scope"} : conf[p] # Unset
Complete == \A p \in ParamsOf(kind) : conf[p] # Unset

(* Mutant: no class closes the socket of an earlier attempt. *)
OwnerKept == owner

(* SockRaw does not close the socket of an earlier attempt. *)
OwnerBeforeSocket == IF kind = "raw" THEN owner ELSE BaseCloseOwner(owner)

InitRefused ==
  /\ m_isInit \/ ~Ready
  /\ Returns("init", FALSE)
  /\ UNCHANGED <<kind, m_fd, m_isInit, conf, owner, files, abandoned>>

(* socket() fails. *)
InitNoSocket ==
  /\ ~m_isInit /\ Ready
  /\ m_fd' = NoFd
  /\ owner' = OwnerBeforeSocket
  /\ Returns("init", FALSE)
  /\ UNCHANGED <<kind, m_isInit, conf, files, abandoned>>

(* bind() of a Unix socket creates its file, and fails when it exists. *)
CanBind == kind = "unix" => conf["self"] \notin files

(* socket() succeeds and a later call, or init2(), fails. *)
InitHalfWay(fd) ==
  /\ ~m_isInit /\ Ready
  /\ OwnerBeforeSocket[fd] = "free"
  /\ m_fd' = fd
  /\ owner' = [OwnerBeforeSocket EXCEPT ![fd] = "sock"]
  /\ Returns("init", FALSE)
  /\ UNCHANGED <<kind, m_isInit, conf, files, abandoned>>

InitDone(fd) ==
  /\ ~m_isInit /\ Ready
  /\ OwnerBeforeSocket[fd] = "free"
  /\ CanBind /\ Complete
  /\ m_fd' = fd
  /\ owner' = [OwnerBeforeSocket EXCEPT ![fd] = "sock"]
  /\ files' = IF kind = "unix" THEN files \cup {conf["self"]} ELSE files
  /\ m_isInit' = TRUE
  /\ Returns("init", TRUE)
  /\ UNCHANGED <<kind, conf, abandoned>>

(* Mutant: the descriptor is closed but not forgotten. *)
CloseKeepsFd ==
  /\ owner' = BaseCloseOwner(owner)
  /\ IF kind = "unix" /\ m_isInit
     THEN files' = files \ {conf["self"]} /\ m_isInit' = FALSE
     ELSE UNCHANGED <<files, m_isInit>>
  /\ Returns("close", TRUE)
  /\ UNCHANGED <<kind, m_fd, conf, abandoned>>

(* Mutant: the file is left behind. *)
CloseKeepsFile ==
  /\ m_fd' = NoFd
  /\ owner' = BaseCloseOwner(owner)
  /\ m_isInit' = (kind # "unix" /\ m_isInit)
  /\ Returns("close", TRUE)
  /\ UNCHANGED <<kind, conf, files, abandoned>>

(* close(): only SockUnix removes its file and becomes uninitialized. *)
Close ==
  /\ m_fd' = NoFd
  /\ owner' = BaseCloseOwner(owner)
  /\ IF kind = "unix" /\ m_isInit
     THEN files' = files \ {conf["self"]} /\ m_isInit' = FALSE
     ELSE UNCHANGED <<files, m_isInit>>
  /\ Returns("close", TRUE)
  /\ UNCHANGED <<kind, conf, abandoned>>

(***************************************************************************)
(* The destructor of SockBase calls closeBase() of SockBase, the derived   *)
(* part being gone.  The application then makes a new object.              *)
(***************************************************************************)
Renew ==
  /\ owner' = BaseCloseOwner(owner)
  /\ abandoned' = IF kind = "unix" /\ m_isInit
                  THEN abandoned \cup {conf["self"]} ELSE abandoned
  /\ m_fd' = NoFd /\ m_isInit' = FALSE
  /\ conf' = [p \in ParamsOf(kind) |-> Unset]
  /\ Returns("renew", TRUE)
  /\ UNCHANGED <<kind, files>>

(* The rest of the process. *)
OthersOpen(fd) ==
  /\ owner[fd] = "free"
  /\ owner' = [owner EXCEPT ![fd] = "others"]
  /\ UNCHANGED <<kind, m_fd, m_isInit, conf, files, abandoned, call, ok>>

OthersClose(fd) ==
  /\ owner[fd] = "others"
  /\ owner' = [owner EXCEPT ![fd] = "free"]
  /\ UNCHANGED <<kind, m_fd, m_isInit, conf, files, abandoned, call, ok>>

-----------------------------------------------------------------------------
Init ==
  /\ kind \in Kinds
  /\ m_fd = NoFd /\ m_isInit = FALSE
  /\ conf = [p \in ParamsOf(kind) |-> Unset]
  /\ owner = [fd \in Fds |-> "free"]
  /\ files = {} /\ abandoned = {}
  /\ call = [op |-> "none", val |-> Unset] /\ ok = TRUE

SockInit == InitRefused \/ InitNoSocket \/ \E fd \in Fds : InitHalfWay(fd) \/ InitDone(fd)

Next ==
  \/ \E p \in AllParams, v \in Values : Set(p, v)
  \/ SockInit
  \/ Close
  \/ Renew
  \/ \E fd \in Fds : OthersOpen(fd) \/ OthersClose(fd)

Spec == Init /\ [][Next]_vars

-----------------------------------------------------------------------------
(* The values the variables range over. *)
TypeOK ==
  /\ kind \in Kinds
  /\ m_fd \in Fds \cup {NoFd}
  /\ m_isInit \in BOOLEAN
  /\ conf \in [ParamsOf(kind) -> Valid \cup {Unset}]
  /\ owner \in [Fds -> {"free", "sock", "others"}]
  /\ files \subseteq Valid /\ abandoned \subseteq Valid
  /\ call \in [op : {"none", "set", "init", "close", "renew"}, val : Values \cup {Unset}]
  /\ ok \in BOOLEAN

(***************************************************************************)
(* A descriptor number the object keeps is always its own open socket, so  *)
(* that closeBase(), which runs again on every init(), close() and in the  *)
(* destructor, never closes a descriptor of somebody else.                 *)
(***************************************************************************)
OwnsItsFd == m_fd # NoFd => owner[m_fd] = "sock"

(***************************************************************************)
(* No socket of a SockUnix or SockIp is lost, not even by a second init()  *)
(* after one that failed half way: it is closed, or the one in m_fd.       *)
(***************************************************************************)
NoFdLeak == kind # "raw" => \A fd \in Fds : owner[fd] = "sock" => fd = m_fd

(***************************************************************************)
(* A Unix socket file exists exactly as long as its object is initialized, *)
(* under the address that object will unlink; only an object destroyed     *)
(* without close() leaves its file behind.                                 *)
(***************************************************************************)
FileOfLiveSocket ==
  kind = "unix" =>
    /\ m_isInit => m_fd # NoFd /\ conf["self"] \in files
    /\ \A a \in files : (m_isInit /\ conf["self"] = a) \/ a \in abandoned

(* What the user of the object sees of its life cycle. *)
Status ==
  IF ~m_isInit THEN "closed" ELSE IF m_fd = NoFd THEN "dead" ELSE "open"

Contract == INSTANCE SocketContract WITH status <- Status, reopens <- kind = "unix"

(***************************************************************************)
(* Each class keeps the contract: a setter never fails while the socket is *)
(* closed and never changes an open one, and init() opens only what is     *)
(* closed and complete.  A SockUnix can be reopened (sock.cpp:128-135);    *)
(* close() of the other classes leaves m_isInit and with it a dead object. *)
(***************************************************************************)
KeepsContract == Contract!CSpec

Promise == INSTANCE SocketContract
  WITH status <- IF m_isInit /\ m_fd # NoFd THEN "open" ELSE "closed", reopens <- TRUE

(***************************************************************************)
(* What sock.h says of every class (sock.h:330-332, 416-418): after        *)
(* close() its parameters can be changed and it can be initialized anew.   *)
(***************************************************************************)
KeepsPromise == Promise!CSpec
=============================================================================
