------------------------- MODULE TcpTransportProofs -------------------------
(***************************************************************************)
(* The address of a connection is the one its call asked for, for any set  *)
(* of hosts and any number of sockets and pending lookups.                 *)
(***************************************************************************)
EXTENDS TcpTransport, TLAPS

(* The inductive invariant.                                                *)
Inv == TypeOK /\ OneAnswerPerCall

(* Initially nothing was asked and nothing is owed.                        *)
LEMMA InitInv == Init => Inv
  <1> SUFFICES ASSUME Init PROVE Inv
    OBVIOUS
  <1>1. TypeOK
    <2>1. 0 \in Sockets /\ 0 \in 0 .. MaxLookups
      BY BoundsAssumption DEF Sockets
    <2>2. /\ peer \in [Sockets -> Addresses \cup {Closed}]
          /\ lookups \in [Hosts -> 0 .. MaxLookups]
      BY <2>1 DEF Init
    <2> QED BY <2>1, <2>2 DEF Init, TypeOK, Addresses
  <1>2. NothingOwed /\ pc = "idle"
    BY DEF Init, NothingOwed
  <1> QED BY <1>1, <1>2 DEF Inv, OneAnswerPerCall

(* Every step keeps the variables in their types.                          *)
LEMMA NextTypeOK ==
  ASSUME TypeOK, [Next]_vars
  PROVE  TypeOK'
  <1> USE BoundsAssumption, GarbageAssumption DEF TypeOK, Addresses, Sockets
  <1>1. CASE UNCHANGED vars
    BY <1>1 DEF vars
  <1>2. ASSUME NEW h \in Hosts, Connect(h) PROVE TypeOK'
    BY <1>2 DEF Connect, GetHostByName
  <1>3. ASSUME NEW h \in Hosts, DnsFound(h) PROVE TypeOK'
    BY <1>3 DEF DnsFound, agentVars
  <1>4. CASE Wait
    BY <1>4 DEF Wait
  <1>5. CASE OpenSocket
    BY <1>5 DEF OpenSocket, FreeSockets
  <1>6. CASE NoSocket \/ ConnectEnds
    BY <1>6 DEF NoSocket, ConnectEnds
  <1>7. CASE Close
    BY <1>7 DEF Close
  <1>8. CASE GiveFound
    BY <1>8 DEF GiveFound, agentVars
  <1> QED BY <1>1, <1>2, <1>3, <1>4, <1>5, <1>6, <1>7, <1>8 DEF Next, Agent

(* A call begins with nothing owed, so the lookup it starts is the only    *)
(* one; its wait ends with the answer in place, or counts as unanswered.   *)
LEMMA AgentKeepsOneAnswer ==
  ASSUME Inv, (\E h \in Hosts : Connect(h)) \/ Agent \/ Close
  PROVE  OneAnswerPerCall'
  <1> USE BoundsAssumption, GarbageAssumption
  <1> USE DEF Inv, TypeOK, OneAnswerPerCall, NothingOwed, AnswerOnItsWay
  <1>1. ASSUME NEW h \in Hosts, Connect(h) PROVE OneAnswerPerCall'
    BY <1>1 DEF Connect, GetHostByName
  <1>2. CASE Wait
    BY <1>2 DEF Wait
  <1>3. CASE OpenSocket
    BY <1>3 DEF OpenSocket, FreeSockets
  <1>4. CASE NoSocket \/ ConnectEnds
    BY <1>4 DEF NoSocket, ConnectEnds
  <1>5. CASE Close
    <2>1. \A s \in Sockets : peer'[s] \in {peer[s], Closed}
      BY <1>5 DEF Close
    <2>2. peer[xSock] \in {xHost, Closed} /\ xSock \in Sockets => peer'[xSock] \in {xHost, Closed}
      BY <2>1
    <2> QED BY <1>5, <2>2 DEF Close
  <1> QED BY <1>1, <1>2, <1>3, <1>4, <1>5 DEF Agent

(* An answer is to the call that waits, and is given once.                 *)
LEMMA ResolverKeepsOneAnswer ==
  ASSUME Inv, (\E h \in Hosts : DnsFound(h)) \/ GiveFound
  PROVE  OneAnswerPerCall'
  <1> USE BoundsAssumption, GarbageAssumption
  <1> USE DEF Inv, TypeOK, OneAnswerPerCall, NothingOwed, AnswerOnItsWay, agentVars
  <1>1. ASSUME NEW h \in Hosts, DnsFound(h) PROVE OneAnswerPerCall'
    <2>1. ~unanswered => pc = "wait" /\ res = "inProgress" /\ h = host /\ lookups[h] = 1
      BY <1>1 DEF DnsFound
    <2>2. ~unanswered' => xHost' = host
      BY <1>1, <2>1 DEF DnsFound
    <2> QED BY <1>1, <2>1, <2>2 DEF DnsFound
  <1>2. CASE GiveFound
    BY <1>2 DEF GiveFound
  <1> QED BY <1>1, <1>2

(* The invariant is inductive.                                             *)
LEMMA NextInv == Inv /\ [Next]_vars => Inv'
  <1> SUFFICES ASSUME Inv, [Next]_vars PROVE Inv'
    OBVIOUS
  <1>1. TypeOK'
    BY NextTypeOK DEF Inv
  <1>2. CASE UNCHANGED vars
    BY <1>1, <1>2 DEF vars, Inv, OneAnswerPerCall, NothingOwed, AnswerOnItsWay
  <1>3. CASE Next
    BY <1>1, <1>3, AgentKeepsOneAnswer, ResolverKeepsOneAnswer DEF Next, Inv
  <1> QED BY <1>2, <1>3

(* The inductive invariant holds in every reachable state.                 *)
THEOREM Invariance == Spec => []Inv
  BY InitInv, NextInv, PTL DEF Spec

(* Unless a wait has gone unanswered, lwIP owes an answer only to the call *)
(* that waits for it, and the semaphore is up for no other reason.         *)
THEOREM OneAnswer == Spec => []OneAnswerPerCall
  <1>1. Inv => OneAnswerPerCall
    BY DEF Inv
  <1> QED BY <1>1, Invariance, PTL

(* tcptrans_connect connects to the host it was called with, unless a wait *)
(* has gone unanswered.                                                    *)
THEOREM ConnectionIsToHost == Spec => []ConnectsToHost
  <1>1. Inv => ConnectsToHost
    BY DEF Inv, OneAnswerPerCall, ConnectsToHost
  <1> QED BY <1>1, Invariance, PTL

(* Every variable keeps its type: no host has more lookups than counted.   *)
THEOREM TypeCorrect == Spec => []TypeOK
  <1>1. Inv => TypeOK
    BY DEF Inv
  <1> QED BY <1>1, Invariance, PTL
=============================================================================
