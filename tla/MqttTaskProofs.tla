--------------------------- MODULE MqttTaskProofs ---------------------------
(***************************************************************************)
(* The frames and copies of mqtttask.c stay alive, for any number of       *)
(* callers and any amount of memory.                                       *)
(***************************************************************************)
EXTENDS MqttTask, TLAPS

(* The inductive invariant: beside the two properties, a notification is   *)
(* pending only for a parent that waits for it.                            *)
Inv ==
  /\ TypeOK
  /\ ParamsAlive
  /\ CopiesAlive
  /\ \A p \in Parents : notif[p] # NULL => parent[p] = "wait"

(* Initially there is no child and no notification.                        *)
LEMMA InitInv == Init => Inv
  BY DEF Init, Inv, TypeOK, ParamsAlive, CopiesAlive, UsesParams, ChildPlaces

(* A step of a parent: it has no child when it creates one, and when it    *)
(* returns, its child does not use its frame any more.                     *)
LEMMA ParentInv ==
  ASSUME Inv, NEW p \in Parents, Call(p) \/ Parent(p)
  PROVE  Inv'
  <1> USE NullIsNoParent, NullIsNoStatus
  <1> USE DEF Inv, TypeOK, ParamsAlive, CopiesAlive, UsesParams, ChildPlaces
  <1>1. CASE Call(p)
    BY <1>1 DEF Call
  <1>2. CASE CreateChild(p)
    <2>1. PICK k \in Children :
            /\ child[k] = "none"
            /\ child' = [child EXCEPT ![k] = "copy"]
            /\ of' = [of EXCEPT ![k] = p]
      BY <1>2 DEF CreateChild
    <2>2. /\ parent[p] = "create" /\ parent' = [parent EXCEPT ![p] = "wait"]
          /\ UNCHANGED <<notif, status, command, given>>
      BY <1>2 DEF CreateChild
    <2>3. notif[p] = NULL /\ \A j \in Children : UsesParams(j) => of[j] # p
      BY <2>2
    <2>4. ParamsAlive'
      BY <2>1, <2>2, <2>3
    <2>5. TypeOK' /\ CopiesAlive'
      BY <2>1, <2>2
    <2> QED BY <2>2, <2>4, <2>5
  <1>3. CASE CreateFails(p)
    BY <1>3 DEF CreateFails
  <1>4. CASE Return(p)
    <2>1. \A j \in Children : UsesParams(j) => of[j] # p
      BY <1>4 DEF Return
    <2> QED BY <1>4, <2>1 DEF Return
  <1> QED BY <1>1, <1>2, <1>3, <1>4 DEF Parent

(* A step of a child: only its report lets the parent go, and with it the  *)
(* child is done with the parent's frame.                                  *)
LEMMA ChildInv ==
  ASSUME Inv, NEW k \in Children, Child(k)
  PROVE  Inv'
  <1> USE NullIsNoParent, NullIsNoStatus
  <1> USE DEF Inv, TypeOK, ParamsAlive, CopiesAlive, UsesParams, ChildPlaces
  <1>1. CASE CopyParams(k)
    BY <1>1 DEF CopyParams
  <1>2. CASE SendCommand(k)
    <2>1. PICK s \in Statuses :
            /\ status' = [status EXCEPT ![k] = s]
            /\ command' = IF s = "MQTTSuccess" THEN [command EXCEPT ![k] = "out"]
                                               ELSE command
      BY <1>2 DEF SendCommand
    <2>2. /\ child[k] = "call" /\ child' = [child EXCEPT ![k] = "report"]
          /\ UNCHANGED <<parent, notif, of, given>>
      BY <1>2 DEF SendCommand
    <2>3. ~given[k]
      BY <2>2
    <2> QED BY <2>1, <2>2, <2>3
  <1>3. CASE Report(k)
    <2>1. /\ child[k] = "report" /\ child' = [child EXCEPT ![k] = "wait"]
          /\ notif' = [notif EXCEPT ![of[k]] = status[k]]
          /\ UNCHANGED <<parent, of, status, command, given>>
      BY <1>3 DEF Report
    <2>2. /\ of[k] \in Parents /\ parent[of[k]] = "wait"
          /\ \A j \in Children : UsesParams(j) /\ j # k => of[j] # of[k]
      BY <2>1
    <2> QED BY <2>1, <2>2
  <1>4. CASE Finish(k)
    BY <1>4 DEF Finish
  <1> QED BY <1>1, <1>2, <1>3, <1>4 DEF Child

(* The agent calls back, or never will.                                    *)
LEMMA AgentInv ==
  ASSUME Inv, NEW k \in Children, Callback(k) \/ AckLost(k)
  PROVE  Inv'
  <1> USE DEF Inv, TypeOK, ParamsAlive, CopiesAlive, UsesParams, ChildPlaces
  <1>1. ~given[k] /\ child[k] \in {"report", "wait"}
    BY DEF Callback, AckLost
  <1>2. CASE Callback(k)
    BY <1>1, <1>2 DEF Callback
  <1>3. CASE AckLost(k)
    BY <1>1, <1>3 DEF AckLost
  <1> QED BY <1>2, <1>3

(* The invariant is inductive.                                             *)
LEMMA NextInv == Inv /\ [Next]_vars => Inv'
  <1> SUFFICES ASSUME Inv, [Next]_vars PROVE Inv'
    OBVIOUS
  <1>1. CASE UNCHANGED vars
    BY <1>1 DEF vars, Inv, TypeOK, ParamsAlive, CopiesAlive, UsesParams
  <1>2. CASE Next
    BY <1>2, ParentInv, ChildInv, AgentInv DEF Next
  <1> QED BY <1>1, <1>2

(* The inductive invariant holds in every reachable state.                 *)
THEOREM Invariance == Spec => []Inv
  BY InitInv, NextInv, PTL DEF Spec

(* A child never follows a pointer into a frame its caller has left.       *)
THEOREM ParamsStayAlive == Spec => []ParamsAlive
  <1>1. Inv => ParamsAlive
    BY DEF Inv
  <1> QED BY <1>1, Invariance, PTL

(* The agent never composes a packet from copies that are freed.           *)
THEOREM CopiesStayAlive == Spec => []CopiesAlive
  <1>1. Inv => CopiesAlive
    BY DEF Inv
  <1> QED BY <1>1, Invariance, PTL

(* Every variable keeps its type, however parents and children interleave. *)
THEOREM TypeCorrect == Spec => []TypeOK
  <1>1. Inv => TypeOK
    BY DEF Inv
  <1> QED BY <1>1, Invariance, PTL
=============================================================================
