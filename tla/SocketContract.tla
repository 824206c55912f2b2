--------------------------- MODULE SocketContract ---------------------------
(***************************************************************************)
(* The life cycle of a socket object as its user sees it, without          *)
(* descriptors, files or system calls.                                     *)
(*                                                                         *)
(* sock.h promises of every class, at each setter: a parameter "can not be *)
(* changed after initializing.  User can close the socket, change this     *)
(* value, and initialize a new socket."  That is the contract with reopens *)
(* TRUE.  With reopens FALSE an object has one life: once closed it is     *)
(* dead, until another object takes its place.                             *)
(*                                                                         *)
(* The operating system may refuse to initialize a socket at any time; a   *)
(* setter has no such excuse.                                              *)
(***************************************************************************)
CONSTANTS
  Values,   \* values a setter may be called with
  Valid,    \* those it has to accept
  Unset     \* a parameter nobody has set yet

VARIABLES
  status,   \* "closed", "open" or "dead"
  reopens,  \* the class can be used again after close()
  conf,     \* value of each parameter of the socket
  call,     \* the last call, with the value a setter was given
  ok        \* and its return value

contractVars == <<status, reopens, conf, call, ok>>

CInit ==
  /\ status = "closed"
  /\ \A p \in DOMAIN conf : conf[p] = Unset
  /\ call = [op |-> "none", val |-> Unset]
  /\ ok = TRUE

(* A setter succeeds exactly when the socket is closed and the value is valid. *)
CSet(p, v) ==
  /\ call' = [op |-> "set", val |-> v]
  /\ ok' = (status = "closed" /\ v \in Valid)
  /\ conf' = IF ok' THEN [conf EXCEPT ![p] = v] ELSE conf
  /\ UNCHANGED <<status, reopens>>

(* init() opens a closed socket that has all its parameters. *)
COpen ==
  /\ call' = [op |-> "init", val |-> Unset]
  /\ ok' \in BOOLEAN
  /\ ok' => status = "closed" /\ \A p \in DOMAIN conf : conf[p] # Unset
  /\ status' = IF ok' THEN "open" ELSE status
  /\ UNCHANGED <<reopens, conf>>

CClose ==
  /\ call' = [op |-> "close", val |-> Unset]
  /\ ok' = TRUE
  /\ status' = IF status = "open" /\ reopens THEN "closed"
               ELSE IF status = "open" THEN "dead" ELSE status
  /\ UNCHANGED <<reopens, conf>>

(* The object is destroyed and another one takes its place. *)
CRenew ==
  /\ call' = [op |-> "renew", val |-> Unset]
  /\ ok' = TRUE
  /\ status' = "closed"
  /\ conf' = [p \in DOMAIN conf |-> Unset]
  /\ UNCHANGED reopens

CNext ==
  \/ \E p \in DOMAIN conf, v \in Values : CSet(p, v)
  \/ COpen
  \/ CClose
  \/ CRenew

CSpec == CInit /\ [][CNext]_contractVars
=============================================================================
