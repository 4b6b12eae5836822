---------------------------- MODULE TcpTransport ----------------------------
(***************************************************************************)
(* Opening a connection (tcptransport.c): tcptrans_connect asks lwIP for   *)
(* the address of a host, waits on a binary semaphore for the callback,    *)
(* and connects to whatever xHost then holds.  The callback runs in lwIP's *)
(* thread: copying the address and giving the semaphore are two steps.     *)
(*                                                                         *)
(* A host stands for the address it resolves to.  Garbage is any other     *)
(* content of xHost: the uninitialised one, and what a callback with a     *)
(* null address (a failed lookup) copies from location zero.               *)
(*                                                                         *)
(* Send, read and status leave this state alone.                           *)
(***************************************************************************)
EXTENDS Integers

CONSTANTS
  Hosts,        \* the hosts connect is called with
  Garbage,      \* an address that is no host's
  MaxSockets,   \* sockets the TCP/IP stack has
  MaxLookups    \* lookups of one host that lwIP keeps pending

ASSUME GarbageAssumption == Garbage \notin Hosts
ASSUME BoundsAssumption == MaxSockets \in Nat \ {0} /\ MaxLookups \in Nat \ {0}

Sockets == 0 .. (MaxSockets - 1)

(* The content of xHost.                                                   *)
Addresses == Hosts \cup {Garbage}

Closed == "closed"

VARIABLES
  pc,           \* where the agent task is in tcptrans_connect
  host,         \* the argument of the call, xHostName
  res,          \* what dns_gethostbyname returned
  xHost,        \* the address to connect to
  found,        \* xHostDNSFound is given
  xSock,        \* the socket; -1 if socket() failed
  peer,         \* for each socket, closed or the address it connects to
  lookups,      \* lwIP: pending lookups of each host
  callback,     \* lwIP's thread in tcptrans_dnsFound: about to give, or not
  unanswered    \* history: a wait got no address from its lookup

vars == <<pc, host, res, xHost, found, xSock, peer, lookups, callback, unanswered>>

agentVars == <<pc, host, res, xSock, peer>>

Init ==
  /\ pc = "idle"
  /\ host \in Hosts
  /\ res = "ok"
  /\ xHost = Garbage
  /\ found = FALSE
  /\ xSock = 0
  /\ peer = [s \in Sockets |-> Closed]
  /\ lookups = [h \in Hosts |-> 0]
  /\ callback = "idle"
  /\ unanswered = FALSE

-----------------------------------------------------------------------------
(* dns_gethostbyname: a literal or cached address is stored at once and    *)
(* the callback is never called; a lookup is started; or lwIP refuses.     *)
GetHostByName(h) ==
  \/ res' = "ok" /\ xHost' = h /\ UNCHANGED lookups
  \/ /\ lookups[h] < MaxLookups
     /\ res' = "inProgress"
     /\ lookups' = [lookups EXCEPT ![h] = @ + 1]
     /\ UNCHANGED xHost
  \/ res' = "error" /\ UNCHANGED <<xHost, lookups>>

(* tcptrans_connect up to its wait, whatever dns_gethostbyname returned.   *)
Connect(h) ==
  /\ pc = "idle"
  /\ host' = h
  /\ GetHostByName(h)
  /\ pc' = "wait"
  /\ UNCHANGED <<found, xSock, peer, callback, unanswered>>

(* Mutant: wait without a time limit.                                      *)
Wait_Forever ==
  /\ pc = "wait"
  /\ found
  /\ found' = FALSE
  /\ pc' = "open"
  /\ UNCHANGED <<host, res, xHost, xSock, peer, lookups, callback, unanswered>>

(* Mutant: a signal that the wait does not consume.                        *)
Wait_KeepsSignal ==
  /\ pc = "wait"
  /\ unanswered' = (unanswered \/ (~found /\ res # "ok"))
  /\ pc' = "open"
  /\ UNCHANGED <<host, res, xHost, found, xSock, peer, lookups, callback>>

(* The semaphore is taken, or the wait times out, which is only logged.    *)
Wait ==
  /\ pc = "wait"
  /\ \/ found /\ found' = FALSE /\ UNCHANGED unanswered
     \/ /\ ~found
        /\ unanswered' = (unanswered \/ res # "ok")
        /\ UNCHANGED found
  /\ pc' = "open"
  /\ UNCHANGED <<host, res, xHost, xSock, peer, lookups, callback>>

FreeSockets == {s \in Sockets : peer[s] = Closed}

(* tcptrans_doConnect: a socket, and the address copied from xHost.        *)
OpenSocket ==
  /\ pc = "open"
  /\ \E s \in FreeSockets :
       /\ \A r \in FreeSockets : s <= r
       /\ xSock' = s
       /\ peer' = [peer EXCEPT ![s] = xHost]
  /\ pc' = "connect"
  /\ UNCHANGED <<host, res, xHost, found, lookups, callback, unanswered>>

(* Mutant: the error number is stored as the socket.                       *)
NoSocket_StoresError ==
  /\ pc = "open"
  /\ FreeSockets = {}
  /\ xSock' = -12
  /\ pc' = "idle"
  /\ UNCHANGED <<host, res, xHost, found, peer, lookups, callback, unanswered>>

(* socket() fails, and connect() is not tried.                             *)
NoSocket ==
  /\ pc = "open"
  /\ FreeSockets = {}
  /\ xSock' = -1
  /\ pc' = "idle"
  /\ UNCHANGED <<host, res, xHost, found, peer, lookups, callback, unanswered>>

(* connect() returns.  Success or failure, the socket stays open.          *)
ConnectEnds ==
  /\ pc = "connect"
  /\ pc' = "idle"
  /\ UNCHANGED <<host, res, xHost, found, xSock, peer, lookups, callback, unanswered>>

(* tcptrans_close, by the agent task or by the task that uses the agent.   *)
Close ==
  /\ peer' = [s \in Sockets |-> IF s = xSock THEN Closed ELSE peer[s]]
  /\ UNCHANGED <<pc, host, res, xHost, found, xSock, lookups, callback, unanswered>>

-----------------------------------------------------------------------------
(* lwIP's thread: tcptrans_dnsCB and tcptrans_dnsFound.                    *)

(* The address is copied, if there is one.                                 *)
DnsFound(h) ==
  /\ callback = "idle"
  /\ lookups[h] > 0
  /\ lookups' = [lookups EXCEPT ![h] = @ - 1]
  /\ \E a \in {h, Garbage} :
       /\ xHost' = a
       /\ unanswered' = (unanswered \/ a = Garbage)
  /\ callback' = "give"
  /\ UNCHANGED <<agentVars, found>>

GiveFound ==
  /\ callback = "give"
  /\ found' = TRUE
  /\ callback' = "idle"
  /\ UNCHANGED <<agentVars, xHost, lookups, unanswered>>

Agent == Wait \/ OpenSocket \/ NoSocket \/ ConnectEnds

Next ==
  \/ \E h \in Hosts : Connect(h) \/ DnsFound(h)
  \/ Agent
  \/ Close
  \/ GiveFound

Spec == Init /\ [][Next]_vars

(* The agent task is scheduled, its wait is timed, and lwIP's connect()    *)
(* returns.  The resolver owes nothing.                                    *)
FairSpec == Spec /\ WF_vars(Agent)

-----------------------------------------------------------------------------
TypeOK ==
  /\ pc \in {"idle", "wait", "open", "connect"}
  /\ host \in Hosts
  /\ res \in {"ok", "inProgress", "error"}
  /\ xHost \in Addresses
  /\ found \in BOOLEAN
  /\ xSock \in Sockets \cup {-1}
  /\ peer \in [Sockets -> Addresses \cup {Closed}]
  /\ lookups \in [Hosts -> 0 .. MaxLookups]
  /\ callback \in {"idle", "give"}
  /\ unanswered \in BOOLEAN

(* As long as every wait got the address its lookup was for, a connection  *)
(* is made to the host the call names: an answer is complete when the      *)
(* semaphore says so, serves the call that asked, and is overwritten by no *)
(* other.  After one missed answer this is over: the late callback gives   *)
(* the semaphore, and the next call connects to the host before.           *)
ConnectsToHost ==
  pc = "connect" /\ ~unanswered => peer[xSock] \in {host, Closed}

(* A call of tcptrans_connect returns, although for a literal or cached    *)
(* address, and for a refused lookup, nobody ever gives the semaphore.     *)
ConnectReturns == pc # "idle" ~> pc = "idle"

(* Strengthens ConnectsToHost for induction: unless a wait has gone        *)
(* unanswered, lwIP owes an answer only to the call that waits for it, and *)
(* the answer is pending, being given, or given.                           *)
NothingOwed ==
  /\ \A h \in Hosts : lookups[h] = 0
  /\ callback = "idle"
  /\ ~found

AnswerOnItsWay ==
  \/ /\ lookups[host] = 1 /\ \A h \in Hosts \ {host} : lookups[h] = 0
     /\ callback = "idle" /\ ~found
  \/ /\ xHost = host
     /\ \A h \in Hosts : lookups[h] = 0
     /\ (callback = "give") # found

OneAnswerPerCall ==
  ~unanswered =>
    /\ pc = "wait" /\ res = "inProgress" => AnswerOnItsWay
    /\ ~(pc = "wait" /\ res = "inProgress") => NothingOwed
    /\ pc = "wait" /\ res = "ok" => xHost = host
    /\ pc \in {"open", "connect"} => xHost = host
    /\ pc = "connect" => xSock \in Sockets /\ peer[xSock] \in {xHost, Closed}
=============================================================================
