------------------------ MODULE AgentCommandsProofs ------------------------
(***************************************************************************)
(* The command path, for any number of callers, structures and places in   *)
(* the queue, through any stops and restarts of the agent.                 *)
(***************************************************************************)
EXTENDS AgentCommands, FiniteSetTheorems, TLAPS

(* A send adds one element.                                                *)
LEMMA SendElems ==
  ASSUME NEW S, NEW q \in Seq(S), NEW x \in S
  PROVE  /\ Append(q, x) \in Seq(S)
         /\ Elems(Append(q, x)) = Elems(q) \cup {x}
  <1> DEFINE r == Append(q, x)
  <1>1. /\ r \in Seq(S)
        /\ Len(r) = Len(q) + 1
        /\ Len(q) \in Nat
        /\ r[Len(q) + 1] = x
        /\ \A i \in 1 .. Len(q) : r[i] = q[i]
    OBVIOUS
  <1> HIDE DEF r
  <1>2. ASSUME NEW y \in Elems(r) PROVE y \in Elems(q) \cup {x}
    BY <1>1, <1>2 DEF Elems
  <1>3. ASSUME NEW y \in Elems(q) PROVE y \in Elems(r)
    BY <1>1, <1>3 DEF Elems
  <1>4. x \in Elems(r)
    <2>1. Len(q) + 1 \in 1 .. Len(r)
      BY <1>1
    <2> QED BY <2>1, <1>1 DEF Elems
  <1> QED BY <1>1, <1>2, <1>3, <1>4 DEF r

(* A send of a new element keeps a queue free of duplicates.               *)
LEMMA SendNoDuplicates ==
  ASSUME NEW S, NEW q \in Seq(S), NEW x \in S, NoDuplicates(q), x \notin Elems(q)
  PROVE  NoDuplicates(Append(q, x))
  <1> DEFINE r == Append(q, x)
  <1>1. /\ Len(r) = Len(q) + 1
        /\ Len(q) \in Nat
        /\ r[Len(q) + 1] = x
        /\ \A i \in 1 .. Len(q) : r[i] = q[i]
    OBVIOUS
  <1> HIDE DEF r
  <1>2. \A i \in 1 .. Len(q) : r[i] # x
    BY <1>1 DEF Elems
  <1>3. NoDuplicates(r)
    BY <1>1, <1>2 DEF NoDuplicates
  <1> QED BY <1>3 DEF r

(* A receive removes exactly the head of a queue without duplicates.       *)
LEMMA ReceiveElems ==
  ASSUME NEW S, NEW q \in Seq(S), ~IsEmpty(q), NoDuplicates(q)
  PROVE  /\ Tail(q) \in Seq(S)
         /\ Head(q) \in S
         /\ Head(q) \in Elems(q)
         /\ NoDuplicates(Tail(q))
         /\ Elems(Tail(q)) = Elems(q) \ {Head(q)}
  <1> DEFINE r == Tail(q)
  <1>1. /\ r \in Seq(S)
        /\ Len(q) \in Nat \ {0}
        /\ Len(r) = Len(q) - 1
        /\ Head(q) = q[1]
        /\ \A i \in 1 .. Len(r) : r[i] = q[i + 1]
    BY DEF IsEmpty
  <1>2. q[1] \in S
    BY <1>1
  <1> HIDE DEF r
  <1>3. \A i \in 1 .. Len(r) : i + 1 \in 1 .. Len(q)
    BY <1>1
  <1>4. 1 \in 1 .. Len(q)
    BY <1>1
  <1>5. NoDuplicates(r)
    BY <1>1, <1>3 DEF NoDuplicates
  <1>6. ASSUME NEW y \in Elems(r) PROVE y \in Elems(q) \ {q[1]}
    <2>1. PICK i \in 1 .. Len(r) : y = r[i]
      BY <1>6 DEF Elems
    <2>2. y = q[i + 1] /\ i + 1 \in 1 .. Len(q) /\ i + 1 # 1
      BY <2>1, <1>1, <1>3
    <2>3. q[i + 1] # q[1]
      BY <2>2, <1>4 DEF NoDuplicates
    <2> QED BY <2>2, <2>3 DEF Elems
  <1>7. ASSUME NEW y \in Elems(q) \ {q[1]} PROVE y \in Elems(r)
    <2>1. PICK i \in 1 .. Len(q) : y = q[i]
      BY <1>7 DEF Elems
    <2>2. i - 1 \in 1 .. Len(r) /\ (i - 1) + 1 = i
      BY <2>1, <1>1, <1>7
    <2>3. r[i - 1] = y
      BY <2>1, <2>2, <1>1
    <2> QED BY <2>2, <2>3 DEF Elems
  <1>8. q[1] \in Elems(q)
    BY <1>4 DEF Elems
  <1> QED BY <1>1, <1>2, <1>5, <1>6, <1>7, <1>8 DEF r

(* The pool has PoolSize structures.                                       *)
LEMMA SlotsCount == IsFiniteSet(Slots) /\ Cardinality(Slots) = PoolSize
  <1> DEFINE last == PoolSize - 1
  <1>1. last \in Int /\ 0 \in Int /\ Slots = 0 .. last
    BY PoolSizeAssumption DEF Slots
  <1>2. (IF 0 > last THEN 0 ELSE last - 0 + 1) = PoolSize
    BY PoolSizeAssumption
  <1> HIDE DEF last
  <1>3. /\ IsFiniteSet(0 .. last)
        /\ Cardinality(0 .. last) = IF 0 > last THEN 0 ELSE last - 0 + 1
    BY <1>1, FS_Interval, Zenon
  <1> QED BY <1>1, <1>2, <1>3

(* A queue has at most as many elements as places taken.                   *)
LEMMA ElemsCount ==
  ASSUME NEW S, NEW q \in Seq(S)
  PROVE  Len(q) \in Nat /\ IsFiniteSet(Elems(q)) /\ Cardinality(Elems(q)) <= Len(q)
  <1>1. Len(q) \in Nat
    OBVIOUS
  <1> DEFINE f == [i \in 1 .. Len(q) |-> q[i]]
  <1>2. f \in Surjection(1 .. Len(q), Elems(q))
    BY DEF Elems, Surjection
  <1>3. ExistsSurjection(1 .. Len(q), Elems(q))
    BY <1>2 DEF ExistsSurjection
  <1> QED BY <1>1, <1>3, FS_SurjCardinalityBound, FS_NatSurjection

(* A queue without duplicates that misses an element of a finite set is    *)
(* shorter than the set.                                                   *)
LEMMA MissingElementLeavesRoom ==
  ASSUME NEW q \in Seq(Slots), NoDuplicates(q), NEW s \in Slots, s \notin Elems(q)
  PROVE  HasRoom(q, PoolSize)
  <1> DEFINE rest == Slots \ {s}
  <1>1. IsFiniteSet(Slots) /\ Cardinality(Slots) = PoolSize
    BY SlotsCount
  <1>2. IsFiniteSet(rest) /\ Cardinality(rest) = PoolSize - 1
    BY <1>1, FS_RemoveElement
  <1>3. Len(q) \in Nat /\ \A i \in 1 .. Len(q) : q[i] \in rest
    BY DEF Elems
  <1>4. IsFiniteSet(1 .. Len(q)) /\ Cardinality(1 .. Len(q)) = Len(q)
    <2> DEFINE n == Len(q)
    <2>1. n \in Int /\ 1 \in Int
      BY <1>3
    <2> HIDE DEF n
    <2>2. IsFiniteSet(1 .. n) /\ Cardinality(1 .. n) = IF 1 > n THEN 0 ELSE n - 1 + 1
      BY <2>1, FS_Interval, Zenon
    <2>3. n \in Nat
      BY <1>3 DEF n
    <2>4. (IF 1 > n THEN 0 ELSE n - 1 + 1) = n
      BY <2>3
    <2>5. IsFiniteSet(1 .. n) /\ Cardinality(1 .. n) = n
      BY <2>2, <2>4
    <2> QED BY <2>5 DEF n
  <1> DEFINE f == [i \in 1 .. Len(q) |-> q[i]]
  <1> HIDE DEF rest
  <1>5. f \in Injection(1 .. Len(q), rest)
    <2>1. f \in [1 .. Len(q) -> rest]
      BY <1>3
    <2>2. \A i, j \in 1 .. Len(q) : f[i] = f[j] => i = j
      BY DEF NoDuplicates
    <2> QED BY <2>1, <2>2 DEF Injection, IsInjective
  <1>6. Cardinality(1 .. Len(q)) <= Cardinality(rest)
    BY <1>2, <1>4, <1>5, FS_Injection
  <1> QED BY <1>2, <1>3, <1>4, <1>6, PoolSizeAssumption DEF HasRoom

-----------------------------------------------------------------------------

(* Which variables go together: the part of the inductive invariant that   *)
(* says where each task and the agent are.                                 *)
Bookkeeping ==
  /\ initStatus = "QUEUE_INITIALIZED" <=> agent # "down"
  /\ agent = "down" =>
       /\ pool = <<>> /\ queue = <<>> /\ acks = {} /\ lost = {}
       /\ \A t \in Tasks : held[t] = NULL
  /\ \A t \in Tasks : pc[t] = "send" <=> held[t] # NULL
  /\ \A t \in Tasks : pc[t] = "send" => cmd[held[t]] = [owner |-> t, op |-> op[t]]
  /\ \A t \in Tasks : pc[t] # "idle" => op[t] # NULL
  /\ \A t \in Tasks : notif[t] # NULL => pc[t] = "wait"
  /\ cur # NULL <=> agent \in {"exec", "notify", "release"}
  /\ agent = "notify" => code # NULL
  /\ ends => agent \in {"notify", "release"}
  /\ live \subseteq acks
  /\ agent = "stopped" => live = {}

(* When  confirmed  is what: false until the work is done, then equal to   *)
(* the success of the code on its way to the caller.                       *)
Truth ==
  /\ \A t \in Tasks : pc[t] \in {"get", "send"} => ~confirmed[t]
  /\ \A s \in Elems(queue) \cup acks : ~confirmed[cmd[s].owner]
  /\ agent = "exec" => ~confirmed[cmd[cur].owner]
  /\ agent = "notify" => (confirmed[cmd[cur].owner] <=> Succeeded(code))
  /\ \A t \in Tasks : notif[t] # NULL => (confirmed[t] <=> Succeeded(notif[t]))

(* The inductive invariant.                                                *)
Inv ==
  /\ TypeOK
  /\ Bookkeeping
  /\ SlotsConserved
  /\ NoDanglingContext
  /\ Truth
  /\ ResultTruthful

(* The initial state: nothing is in the pool, on the way or waited for.    *)
LEMMA InitInv == Init => Inv
  <1> SUFFICES ASSUME Init PROVE Inv
    OBVIOUS
  <1> USE NullIsNoSlot, NullIsNoTask, NullIsNoValue, OpsAssumption
  <1> USE DEF Init, PoolInit
  <1>0. cmd \in [Slots -> Commands] /\ <<>> \in Seq(Slots)
    BY DEF Commands
  <1>1. TypeOK
    BY <1>0 DEF TypeOK, AgentStates
  <1>2. Elems(pool) = {} /\ Elems(queue) = {} /\ Held = {} /\ Working = {} /\ Outstanding = {}
    BY DEF Elems, Held, Working, Outstanding
  <1>3. SlotsConserved
    BY <1>2 DEF SlotsConserved, NoDuplicates
  <1>4. Bookkeeping
    BY DEF Bookkeeping
  <1>5. NoDanglingContext /\ Truth /\ ResultTruthful
    BY <1>2 DEF NoDanglingContext, Truth, ResultTruthful
  <1> QED BY <1>1, <1>3, <1>4, <1>5 DEF Inv

(* Whose command a structure carries before its callback has run.          *)
LEMMA OwnerWaits ==
  ASSUME Inv, NEW s \in Outstanding
  PROVE  /\ s \in Slots
         /\ cmd[s].owner \in Tasks
         /\ cmd[s].op = op[cmd[s].owner]
         /\ cmd[s].op # NULL
         /\ pc[cmd[s].owner] = "wait"
         /\ notif[cmd[s].owner] = NULL
         /\ \A r \in Outstanding : cmd[r].owner = cmd[s].owner => r = s
  <1> USE DEF Inv
  <1>1. s \in Slots
    BY DEF Outstanding, Working, TypeOK, Elems
  <1>2. /\ cmd[s].owner \in Tasks
        /\ cmd[s].op = op[cmd[s].owner]
        /\ pc[cmd[s].owner] = "wait"
        /\ notif[cmd[s].owner] = NULL
        /\ \A r \in Outstanding : cmd[r].owner = cmd[s].owner => r = s
    BY DEF NoDanglingContext
  <1>3. cmd[s].op # NULL
    BY <1>2 DEF Bookkeeping
  <1> QED BY <1>1, <1>2, <1>3

(* The agent works on a structure; until the callback is done it carries a *)
(* command.                                                                *)
LEMMA AgentWorks ==
  ASSUME Inv, agent \in {"exec", "notify", "release"}
  PROVE  /\ cur \in Slots
         /\ cur # NULL
         /\ Working = {cur}
         /\ agent # "release" => cur \in Outstanding
  <1> USE NullIsNoSlot DEF Inv
  <1>1. cur # NULL /\ cur \in Slots
    BY DEF Bookkeeping, TypeOK
  <1> QED BY <1>1 DEF Working, Outstanding

(* A task enters a blocking call; its last result is the call's no more.   *)
LEMMA CallInv ==
  ASSUME Inv, NEW t \in Tasks, NEW o \in Ops, Call(t, o)
  PROVE  Inv'
  <1> USE NullIsNoSlot, NullIsNoTask, NullIsNoValue, OpsAssumption
  <1> USE DEF Inv, Call, callerVars, agentVars, poolVars, commandVars
  <1>1. TypeOK'
    BY DEF TypeOK, Commands, AgentStates, Statuses
  <1>2. Bookkeeping'
    BY DEF TypeOK, Bookkeeping
  <1>3. SlotsConserved'
    BY DEF TypeOK, SlotsConserved, Held, Working, Bookkeeping
  <1>4. NoDanglingContext'
    BY DEF TypeOK, NoDanglingContext, Outstanding, Working, Bookkeeping
  <1>5. Truth'
    BY DEF TypeOK, Truth, NoDanglingContext, Outstanding, Working, Bookkeeping
  <1>6. ResultTruthful'
    BY DEF TypeOK, ResultTruthful, Truth, NoDanglingContext, Outstanding, Working, Bookkeeping
  <1> QED BY <1>1, <1>2, <1>3, <1>4, <1>5, <1>6

(* A call before mqttagent_start touches no structure.                     *)
LEMMA CallBeforeStartInv ==
  ASSUME Inv, NEW t \in Tasks, CallBeforeStart(t)
  PROVE  Inv'
  <1> USE NullIsNoSlot, NullIsNoTask, NullIsNoValue, OpsAssumption
  <1> USE DEF Inv, CallBeforeStart, agentVars, poolVars, Refused, ChecksStatus, commandVars
  <1>1. TypeOK'
    BY DEF TypeOK, Commands, AgentStates, Statuses
  <1>2. Bookkeeping'
    BY DEF TypeOK, Bookkeeping
  <1>3. SlotsConserved'
    BY DEF TypeOK, SlotsConserved, Held, Working, Bookkeeping
  <1>4. NoDanglingContext'
    BY DEF TypeOK, NoDanglingContext, Outstanding, Working, Bookkeeping
  <1>5. Truth'
    BY DEF TypeOK, Truth, NoDanglingContext, Outstanding, Working, Bookkeeping
  <1>6. ResultTruthful'
    BY DEF TypeOK, ResultTruthful, Truth, NoDanglingContext, Outstanding, Working, Bookkeeping
  <1> QED BY <1>1, <1>2, <1>3, <1>4, <1>5, <1>6

(* Agent_GetCommand giving up touches no structure.                        *)
LEMMA GetCommandTimesOutInv ==
  ASSUME Inv, NEW t \in Tasks, GetCommandTimesOut(t)
  PROVE  Inv'
  <1> USE NullIsNoSlot, NullIsNoTask, NullIsNoValue, OpsAssumption
  <1> USE DEF Inv, GetCommandTimesOut, GetSlotTimesOut, agentVars, poolVars, Refused,
              ChecksStatus, commandVars
  <1>1. TypeOK'
    BY DEF TypeOK, Commands, AgentStates, Statuses
  <1>2. Bookkeeping'
    BY DEF TypeOK, Bookkeeping
  <1>3. SlotsConserved'
    BY DEF TypeOK, SlotsConserved, Held, Working, Bookkeeping
  <1>4. NoDanglingContext'
    BY DEF TypeOK, NoDanglingContext, Outstanding, Working, Bookkeeping
  <1>5. Truth'
    BY DEF TypeOK, Truth, NoDanglingContext, Outstanding, Working, Bookkeeping
  <1>6. ResultTruthful'
    BY DEF TypeOK, ResultTruthful, Truth, NoDanglingContext, Outstanding, Working, Bookkeeping
  <1> QED BY <1>1, <1>2, <1>3, <1>4, <1>5, <1>6

(* A call consumes its notification; its structure has been concluded.     *)
LEMMA ReturnInv ==
  ASSUME Inv, NEW t \in Tasks, Return(t)
  PROVE  Inv'
  <1> USE NullIsNoSlot, NullIsNoTask, NullIsNoValue, OpsAssumption
  <1> USE DEF Inv, Return, agentVars, poolVars, commandVars
  <1>0. Succeeded(notif[t]) \in BOOLEAN
    BY DEF Succeeded
  <1>1. TypeOK'
    BY <1>0 DEF TypeOK, Commands, AgentStates, Statuses
  <1>2. Bookkeeping'
    BY DEF TypeOK, Bookkeeping
  <1>3. SlotsConserved'
    BY DEF TypeOK, SlotsConserved, Held, Working, Bookkeeping
  <1>4. NoDanglingContext'
    BY DEF TypeOK, NoDanglingContext, Outstanding, Working, Bookkeeping
  <1>5. Truth'
    BY DEF TypeOK, Truth, NoDanglingContext, Outstanding, Working, Bookkeeping
  <1>6. ResultTruthful'
    BY DEF TypeOK, ResultTruthful, Truth, NoDanglingContext, Outstanding, Working, Bookkeeping
  <1> QED BY <1>1, <1>2, <1>3, <1>4, <1>5, <1>6

(* Entering MQTTAgent_CommandLoop.                                         *)
LEMMA ConnectInv ==
  ASSUME Inv, Connect
  PROVE  Inv'
  <1> USE NullIsNoSlot, NullIsNoTask, NullIsNoValue, OpsAssumption
  <1> USE DEF Inv, Connect, callerVars, poolVars, commandVars
  <1>1. TypeOK'
    BY DEF TypeOK, Commands, AgentStates, Statuses
  <1>2. Bookkeeping'
    BY DEF TypeOK, Bookkeeping
  <1>3. SlotsConserved'
    BY DEF TypeOK, SlotsConserved, Held, Working, Bookkeeping
  <1>4. NoDanglingContext'
    BY DEF TypeOK, NoDanglingContext, Outstanding, Working, Bookkeeping
  <1>5. Truth'
    BY DEF TypeOK, Truth, NoDanglingContext, Outstanding, Working, Bookkeeping
  <1>6. ResultTruthful'
    BY DEF TypeOK, ResultTruthful, Truth, NoDanglingContext, Outstanding, Working, Bookkeeping
  <1> QED BY <1>1, <1>2, <1>3, <1>4, <1>5, <1>6

(* The loop found no command.                                              *)
LEMMA ReceiveTimesOutInv ==
  ASSUME Inv, ReceiveTimesOut
  PROVE  Inv'
  <1> USE NullIsNoSlot, NullIsNoTask, NullIsNoValue, OpsAssumption
  <1> USE DEF Inv, ReceiveTimesOut, callerVars, poolVars, commandVars
  <1>1. TypeOK'
    BY DEF TypeOK, Commands, AgentStates, Statuses
  <1>2. Bookkeeping'
    BY DEF TypeOK, Bookkeeping
  <1>3. SlotsConserved'
    BY DEF TypeOK, SlotsConserved, Held, Working, Bookkeeping
  <1>4. NoDanglingContext'
    BY DEF TypeOK, NoDanglingContext, Outstanding, Working, Bookkeeping
  <1>5. Truth'
    BY DEF TypeOK, Truth, NoDanglingContext, Outstanding, Working, Bookkeeping
  <1>6. ResultTruthful'
    BY DEF TypeOK, ResultTruthful, Truth, NoDanglingContext, Outstanding, Working, Bookkeeping
  <1> QED BY <1>1, <1>2, <1>3, <1>4, <1>5, <1>6

(* A ping is sent: the work is done before the callback runs.              *)
LEMMA ExecCompletesInv ==
  ASSUME Inv, ExecCompletes
  PROVE  Inv'
  <1> USE NullIsNoSlot, NullIsNoTask, NullIsNoValue, OpsAssumption
  <1> USE DEF Inv, ExecCompletes, poolVars, NeedsAck, Succeeded, commandVars
  <1>0. /\ cur \in Slots
        /\ cmd[cur].owner \in Tasks
        /\ pc[cmd[cur].owner] = "wait"
        /\ notif[cmd[cur].owner] = NULL
        /\ \A r \in Outstanding : cmd[r].owner = cmd[cur].owner => r = cur
    BY AgentWorks, OwnerWaits
  <1>b. /\ Elems(queue) \cup acks \subseteq Outstanding
        /\ \A r \in Elems(queue) \cup acks : cmd[r].owner # cmd[cur].owner
    <2>1. cur \notin Elems(queue) \cup acks
      BY AgentWorks DEF SlotsConserved
    <2>2. Elems(queue) \cup acks \subseteq Outstanding
      BY DEF Outstanding
    <2> QED BY <2>1, <2>2, <1>0
  <1>1. TypeOK'
    BY <1>0 DEF TypeOK, Commands, AgentStates, Statuses
  <1>2. Bookkeeping'
    BY <1>0 DEF TypeOK, Bookkeeping, Statuses
  <1>3. SlotsConserved'
    BY DEF TypeOK, SlotsConserved, Held, Working, Bookkeeping
  <1>4. NoDanglingContext'
    BY <1>0, <1>b DEF TypeOK, NoDanglingContext, Outstanding, Working, Bookkeeping
  <1>5. Truth'
    BY <1>0, <1>b DEF TypeOK, Truth, Succeeded, NoDanglingContext, Outstanding, Working, Bookkeeping
  <1>6. ResultTruthful'
    BY DEF TypeOK, ResultTruthful, Truth, NoDanglingContext, Outstanding, Working, Bookkeeping
  <1> QED BY <1>1, <1>2, <1>3, <1>4, <1>5, <1>6

(* A command that could not be sent: the work is not done.                 *)
LEMMA ExecFailsInv ==
  ASSUME Inv, ExecFails
  PROVE  Inv'
  <1> USE NullIsNoSlot, NullIsNoTask, NullIsNoValue, OpsAssumption
  <1> USE DEF Inv, ExecFails, callerVars, poolVars, commandVars
  <1>0. /\ cur \in Slots
        /\ cmd[cur].owner \in Tasks
        /\ pc[cmd[cur].owner] = "wait"
        /\ notif[cmd[cur].owner] = NULL
        /\ \A r \in Outstanding : cmd[r].owner = cmd[cur].owner => r = cur
    BY AgentWorks, OwnerWaits
  <1>b. /\ Elems(queue) \cup acks \subseteq Outstanding
        /\ \A r \in Elems(queue) \cup acks : cmd[r].owner # cmd[cur].owner
    <2>1. cur \notin Elems(queue) \cup acks
      BY AgentWorks DEF SlotsConserved
    <2>2. Elems(queue) \cup acks \subseteq Outstanding
      BY DEF Outstanding
    <2> QED BY <2>1, <2>2, <1>0
  <1>1. TypeOK'
    BY <1>0 DEF TypeOK, Commands, AgentStates, Statuses
  <1>2. Bookkeeping'
    BY <1>0 DEF TypeOK, Bookkeeping, Statuses
  <1>3. SlotsConserved'
    BY DEF TypeOK, SlotsConserved, Held, Working, Bookkeeping
  <1>4. NoDanglingContext'
    BY <1>0, <1>b DEF TypeOK, NoDanglingContext, Outstanding, Working, Bookkeeping
  <1>5. Truth'
    BY <1>0, <1>b DEF TypeOK, Truth, Succeeded, NoDanglingContext, Outstanding, Working, Bookkeeping
  <1>6. ResultTruthful'
    BY DEF TypeOK, ResultTruthful, Truth, NoDanglingContext, Outstanding, Working, Bookkeeping
  <1> QED BY <1>1, <1>2, <1>3, <1>4, <1>5, <1>6

(* A structure moves from the agent's hands to pendingAcks.                *)
LEMMA ExecAwaitsAckInv ==
  ASSUME Inv, ExecAwaitsAck
  PROVE  Inv'
  <1> USE NullIsNoSlot, NullIsNoTask, NullIsNoValue, OpsAssumption
  <1> USE DEF Inv, ExecAwaitsAck, callerVars, poolVars, commandVars
  <1>0. /\ cur \in Slots
        /\ cmd[cur].owner \in Tasks
        /\ pc[cmd[cur].owner] = "wait"
        /\ notif[cmd[cur].owner] = NULL
        /\ \A r \in Outstanding : cmd[r].owner = cmd[cur].owner => r = cur
    BY AgentWorks, OwnerWaits
  <1>b. /\ Elems(queue) \cup acks \subseteq Outstanding
        /\ \A r \in Elems(queue) \cup acks : cmd[r].owner # cmd[cur].owner
    <2>1. cur \notin Elems(queue) \cup acks
      BY AgentWorks DEF SlotsConserved
    <2>2. Elems(queue) \cup acks \subseteq Outstanding
      BY DEF Outstanding
    <2> QED BY <2>1, <2>2, <1>0
  <1>1. TypeOK'
    BY <1>0 DEF TypeOK, Commands, AgentStates, Statuses
  <1>2. Bookkeeping'
    BY <1>0 DEF TypeOK, Bookkeeping, Statuses
  <1>3. SlotsConserved'
    BY DEF TypeOK, SlotsConserved, Held, Working, Bookkeeping
  <1>4. NoDanglingContext'
    BY <1>0, <1>b DEF TypeOK, NoDanglingContext, Outstanding, Working, Bookkeeping
  <1>5. Truth'
    BY <1>0, <1>b DEF TypeOK, Truth, Succeeded, NoDanglingContext, Outstanding, Working, Bookkeeping
  <1>6. ResultTruthful'
    BY DEF TypeOK, ResultTruthful, Truth, NoDanglingContext, Outstanding, Working, Bookkeeping
  <1> QED BY <1>1, <1>2, <1>3, <1>4, <1>5, <1>6

(* commandCallback runs while its caller still waits.                      *)
LEMMA NotifyInv ==
  ASSUME Inv, Notify
  PROVE  Inv'
  <1> USE NullIsNoSlot, NullIsNoTask, NullIsNoValue, OpsAssumption
  <1> USE DEF Inv, Notify, poolVars, commandVars
  <1>0. /\ cur \in Slots
        /\ cmd[cur].owner \in Tasks
        /\ pc[cmd[cur].owner] = "wait"
        /\ notif[cmd[cur].owner] = NULL
        /\ \A r \in Outstanding : cmd[r].owner = cmd[cur].owner => r = cur
    BY AgentWorks, OwnerWaits
  <1>b. /\ Elems(queue) \cup acks \subseteq Outstanding
        /\ \A r \in Elems(queue) \cup acks : cmd[r].owner # cmd[cur].owner
    <2>1. cur \notin Elems(queue) \cup acks
      BY AgentWorks DEF SlotsConserved
    <2>2. Elems(queue) \cup acks \subseteq Outstanding
      BY DEF Outstanding
    <2> QED BY <2>1, <2>2, <1>0
  <1>1. TypeOK'
    BY <1>0 DEF TypeOK, Commands, AgentStates, Statuses
  <1>2. Bookkeeping'
    BY <1>0 DEF TypeOK, Bookkeeping, Statuses
  <1>3. SlotsConserved'
    BY DEF TypeOK, SlotsConserved, Held, Working, Bookkeeping
  <1>4. NoDanglingContext'
    BY <1>0, <1>b DEF TypeOK, NoDanglingContext, Outstanding, Working, Bookkeeping
  <1>5. Truth'
    BY <1>0, <1>b DEF TypeOK, Truth, Succeeded, NoDanglingContext, Outstanding, Working, Bookkeeping
  <1>6. ResultTruthful'
    BY DEF TypeOK, ResultTruthful, Truth, NoDanglingContext, Outstanding, Working, Bookkeeping
  <1> QED BY <1>1, <1>2, <1>3, <1>4, <1>5, <1>6

(* A structure moves from pendingAcks back to the agent's hands.           *)
LEMMA AckInv ==
  ASSUME Inv, NEW s \in Slots, Ack(s)
  PROVE  Inv'
  <1> USE NullIsNoSlot, NullIsNoTask, NullIsNoValue, OpsAssumption
  <1> USE DEF Inv, Ack, poolVars, commandVars
  <1>0. /\ s \in Slots
        /\ cmd[s].owner \in Tasks
        /\ pc[cmd[s].owner] = "wait"
        /\ notif[cmd[s].owner] = NULL
        /\ \A r \in Outstanding : cmd[r].owner = cmd[s].owner => r = s
    <2>1. s \in Outstanding
      BY DEF Bookkeeping, Outstanding
    <2> QED BY <2>1, OwnerWaits
  <1>a. \A c : Succeeded(c) \in BOOLEAN
    BY DEF Succeeded
  <1>b. /\ Elems(queue) \cup acks \subseteq Outstanding
        /\ \A r \in Elems(queue) \cup (acks \ {s}) : cmd[r].owner # cmd[s].owner
    <2>1. s \notin Elems(queue)
      BY DEF SlotsConserved, Bookkeeping
    <2>2. Elems(queue) \cup acks \subseteq Outstanding
      BY DEF Outstanding
    <2> QED BY <2>1, <2>2, <1>0
  <1>c. PICK c \in Answers(cmd[s].op) :
          /\ code' = c
          /\ confirmed' = [confirmed EXCEPT ![cmd[s].owner] = Succeeded(c)]
    OBVIOUS
  <1>d. c \in Statuses /\ c # NULL
    BY <1>c DEF Answers, Statuses
  <1>1. TypeOK'
    BY <1>0, <1>a, <1>b, <1>c, <1>d DEF TypeOK, Commands, AgentStates, Statuses
  <1>2. Bookkeeping'
    BY <1>0, <1>a, <1>b, <1>c, <1>d DEF TypeOK, Bookkeeping
  <1>3. SlotsConserved'
    BY DEF TypeOK, SlotsConserved, Held, Working, Bookkeeping
  <1>4. NoDanglingContext'
    BY <1>0, <1>a, <1>b, <1>c, <1>d DEF TypeOK, NoDanglingContext, Outstanding, Working, Bookkeeping
  <1>5. Truth'
    BY <1>0, <1>a, <1>b, <1>c, <1>d DEF TypeOK, Truth, NoDanglingContext, Outstanding, Working,
                                        Bookkeeping
  <1>6. ResultTruthful'
    BY DEF TypeOK, ResultTruthful, Truth, NoDanglingContext, Outstanding, Working, Bookkeeping
  <1> QED BY <1>1, <1>2, <1>3, <1>4, <1>5, <1>6

(* MQTT_ProcessLoop found nothing more to read.                            *)
LEMMA ProcessDoneInv ==
  ASSUME Inv, ProcessDone
  PROVE  Inv'
  <1> USE NullIsNoSlot, NullIsNoTask, NullIsNoValue, OpsAssumption
  <1> USE DEF Inv, ProcessDone, callerVars, poolVars, commandVars
  <1>1. TypeOK'
    BY DEF TypeOK, Commands, AgentStates, Statuses
  <1>2. Bookkeeping'
    BY DEF TypeOK, Bookkeeping
  <1>3. SlotsConserved'
    BY DEF TypeOK, SlotsConserved, Held, Working, Bookkeeping
  <1>4. NoDanglingContext'
    BY DEF TypeOK, NoDanglingContext, Outstanding, Working, Bookkeeping
  <1>5. Truth'
    BY DEF TypeOK, Truth, NoDanglingContext, Outstanding, Working, Bookkeeping
  <1>6. ResultTruthful'
    BY DEF TypeOK, ResultTruthful, Truth, NoDanglingContext, Outstanding, Working, Bookkeeping
  <1> QED BY <1>1, <1>2, <1>3, <1>4, <1>5, <1>6

(* The session is lost; pendingAcks keeps its structures.                  *)
LEMMA ProcessFailsInv ==
  ASSUME Inv, ProcessFails
  PROVE  Inv'
  <1> USE NullIsNoSlot, NullIsNoTask, NullIsNoValue, OpsAssumption
  <1> USE DEF Inv, ProcessFails, callerVars, poolVars, EndSession, commandVars
  <1>1. TypeOK'
    BY DEF TypeOK, Commands, AgentStates, Statuses
  <1>2. Bookkeeping'
    BY DEF TypeOK, Bookkeeping
  <1>3. SlotsConserved'
    BY DEF TypeOK, SlotsConserved, Held, Working, Bookkeeping
  <1>4. NoDanglingContext'
    BY DEF TypeOK, NoDanglingContext, Outstanding, Working, Bookkeeping
  <1>5. Truth'
    BY DEF TypeOK, Truth, NoDanglingContext, Outstanding, Working, Bookkeeping
  <1>6. ResultTruthful'
    BY DEF TypeOK, ResultTruthful, Truth, NoDanglingContext, Outstanding, Working, Bookkeeping
  <1> QED BY <1>1, <1>2, <1>3, <1>4, <1>5, <1>6

(* Agent_InitializePool puts every structure in the pool, once; a second   *)
(* start drops what the queue and pendingAcks held.                        *)
LEMMA StartAgentInv ==
  ASSUME Inv, StartAgent
  PROVE  Inv'
  <1> USE NullIsNoSlot, NullIsNoTask, NullIsNoValue, OpsAssumption
  <1> USE DEF Inv, StartAgent, callerVars, InitializePool, Drop
  <1>a. ASSUME agent = "down"
        PROVE  pool' \in Seq(Slots) /\ Elems(pool') = Slots /\ NoDuplicates(pool')
    <2>1. pool' = [i \in 1 .. PoolSize |-> i - 1]
      BY <1>a DEF Bookkeeping, TypeOK
    <2>2. /\ PoolSize \in Nat
          /\ pool' \in Seq(Slots)
          /\ Len(pool') = PoolSize
          /\ \A i \in 1 .. PoolSize : pool'[i] = i - 1
      BY <2>1, PoolSizeAssumption DEF Slots
    <2>3. NoDuplicates(pool')
      BY <2>2 DEF NoDuplicates
    <2>4. \A s \in Slots : s + 1 \in 1 .. PoolSize /\ pool'[s + 1] = s
      BY <2>2 DEF Slots
    <2>5. \A i \in 1 .. PoolSize : pool'[i] \in Slots
      BY <2>2 DEF Slots
    <2>6. Elems(pool') = Slots
      BY <2>2, <2>4, <2>5 DEF Elems
    <2> QED BY <2>2, <2>3, <2>6
  <1>b. ASSUME agent = "stopped" PROVE pool' = pool /\ initStatus = "QUEUE_INITIALIZED"
    BY <1>b DEF Bookkeeping, poolVars
  <1>c. /\ Elems(queue') = {} /\ NoDuplicates(queue') /\ queue' \in Seq(Slots)
        /\ Held' = Held /\ Working' = {} /\ Working = {} /\ cur' = NULL
        /\ initStatus' = "QUEUE_INITIALIZED"
    BY DEF Elems, NoDuplicates, Held, Working, Bookkeeping, TypeOK, poolVars
  <1>d. Elems(queue) \subseteq Slots /\ lost' = lost \cup Elems(queue) \cup acks
    BY DEF Elems, TypeOK
  <1>e. abandoned' \subseteq Tasks
    BY OwnerWaits DEF TypeOK
  <1>f. Outstanding' = {}
    BY <1>c DEF Outstanding
  <1>1. TypeOK'
    BY <1>a, <1>b, <1>c, <1>d, <1>e DEF TypeOK, Commands, AgentStates, Statuses
  <1>2. Bookkeeping'
    BY <1>c DEF TypeOK, Bookkeeping
  <1>3. SlotsConserved'
    <2>1. CASE agent = "down"
      <3>1. Held = {} /\ lost' = {}
        BY <2>1, <1>d DEF Held, Bookkeeping, Elems
      <3> QED BY <3>1, <2>1, <1>a, <1>c DEF SlotsConserved
    <2>2. CASE agent = "stopped"
      BY <2>2, <1>b, <1>c, <1>d DEF SlotsConserved
    <2> QED BY <2>1, <2>2
  <1>4. NoDanglingContext'
    BY <1>f DEF NoDanglingContext
  <1>5. Truth'
    BY <1>c DEF TypeOK, Truth, Bookkeeping
  <1>6. ResultTruthful'
    BY DEF ResultTruthful
  <1> QED BY <1>1, <1>2, <1>3, <1>4, <1>5, <1>6

(* The structure the agent works on is dropped; the rest stays in place.   *)
LEMMA StopAgentInv ==
  ASSUME Inv, StopAgent
  PROVE  Inv'
  <1> USE NullIsNoSlot, NullIsNoTask, NullIsNoValue, OpsAssumption
  <1> USE DEF Inv, StopAgent, callerVars, poolVars, Drop
  <1>a. /\ Working' = {} /\ Held' = Held /\ Working \subseteq Slots
        /\ lost' = lost \cup Working
    BY DEF Working, Held, TypeOK
  <1>b. abandoned' \subseteq Tasks
    BY OwnerWaits DEF TypeOK
  <1>c. Outstanding' \subseteq Outstanding
    BY <1>a DEF Outstanding
  <1>1. TypeOK'
    BY <1>a, <1>b DEF TypeOK, AgentStates
  <1>2. Bookkeeping'
    BY DEF TypeOK, Bookkeeping
  <1>3. SlotsConserved'
    BY <1>a DEF SlotsConserved
  <1>4. NoDanglingContext'
    BY <1>c DEF NoDanglingContext
  <1>5. Truth'
    BY DEF Truth
  <1>6. ResultTruthful'
    BY DEF ResultTruthful
  <1> QED BY <1>1, <1>2, <1>3, <1>4, <1>5, <1>6

(* A structure moves from the pool to the caller that fills it.            *)
LEMMA GetCommandInv ==
  ASSUME Inv, NEW t \in Tasks, GetCommand(t)
  PROVE  Inv'
  <1> USE NullIsNoSlot, NullIsNoTask, NullIsNoValue, OpsAssumption
  <1> USE DEF Inv, GetCommand, GetSlot, agentVars, commandVars
  <1>a. PICK s \in Slots :
          /\ GetSlot(s)
          /\ held' = [held EXCEPT ![t] = s]
          /\ cmd' = [cmd EXCEPT ![s] = [owner |-> t, op |-> op[t]]]
    OBVIOUS
  <1>b. /\ pool' \in Seq(Slots) /\ NoDuplicates(pool')
        /\ s \in Elems(pool) /\ Elems(pool') = Elems(pool) \ {s}
    BY <1>a, ReceiveElems DEF TypeOK, SlotsConserved
  <1>c. s # NULL /\ s \notin Outstanding
        /\ s \notin Elems(queue) \cup Held \cup Working \cup acks
    BY <1>b DEF SlotsConserved, Outstanding
  <1>d. held[t] = NULL
    BY DEF Bookkeeping
  <1>e. /\ Held' = Held \cup {s}
        /\ \A u \in Tasks : held[u] # s
    BY <1>a, <1>c, <1>d DEF Held, TypeOK
  <1>f. Outstanding' = Outstanding
    BY DEF Outstanding, Working
  <1>g. \A r \in Outstanding : cmd'[r] = cmd[r] /\ cmd[r].owner # t
    BY <1>a, <1>c, OwnerWaits DEF TypeOK
  <1>1. TypeOK'
    BY <1>a, <1>b DEF TypeOK, Commands
  <1>2. Bookkeeping'
    BY <1>a, <1>c, <1>d, <1>e DEF TypeOK, Bookkeeping
  <1>3. SlotsConserved'
    <2>1. /\ Working' = Working /\ NoDuplicates(queue')
          /\ \A u, v \in Tasks : held'[u] = held'[v] /\ held'[u] # NULL => u = v
      BY <1>a, <1>e DEF Working, SlotsConserved, TypeOK
    <2> QED BY <2>1, <1>b, <1>c, <1>e DEF SlotsConserved
  <1>4. NoDanglingContext'
    BY <1>f, <1>g DEF TypeOK, NoDanglingContext
  <1>5. Truth'
    <2>1. Elems(queue) \cup acks \subseteq Outstanding
      BY DEF Outstanding
    <2>2. agent \in {"exec", "notify"} => cur \in Outstanding
      BY AgentWorks
    <2> QED BY <2>1, <2>2, <1>g DEF TypeOK, Truth
  <1>6. ResultTruthful'
    BY DEF TypeOK, ResultTruthful
  <1> QED BY <1>1, <1>2, <1>3, <1>4, <1>5, <1>6

(* A structure moves from its caller to the command queue.                 *)
LEMMA EnqueueInv ==
  ASSUME Inv, NEW t \in Tasks, Enqueue(t)
  PROVE  Inv'
  <1> USE NullIsNoSlot, NullIsNoTask, NullIsNoValue, OpsAssumption
  <1> USE DEF Inv, Enqueue, poolVars, agentVars, commandVars
  <1>a. /\ held[t] \in Slots /\ held[t] # NULL
        /\ cmd[held[t]] = [owner |-> t, op |-> op[t]]
    BY DEF Bookkeeping, TypeOK
  <1>b. held[t] \notin Elems(pool) \cup Elems(queue) \cup Working \cup acks
    BY <1>a DEF SlotsConserved, Held
  <1>c. /\ queue' \in Seq(Slots) /\ NoDuplicates(queue')
        /\ Elems(queue') = Elems(queue) \cup {held[t]}
    BY <1>a, <1>b, SendElems, SendNoDuplicates DEF TypeOK, SlotsConserved
  <1>d. /\ Held' = Held \ {held[t]}
        /\ held[t] \in Held
    BY <1>a DEF Held, TypeOK, SlotsConserved
  <1>e. Outstanding' = Outstanding \cup {held[t]}
    BY <1>c DEF Outstanding, Working
  <1>f. \A r \in Outstanding : cmd[r].owner # t
    BY OwnerWaits
  <1>1. TypeOK'
    BY <1>a, <1>c DEF TypeOK
  <1>2. Bookkeeping'
    BY <1>a DEF TypeOK, Bookkeeping
  <1>3. SlotsConserved'
    <2>1. /\ Working' = Working /\ NoDuplicates(pool')
          /\ \A u, v \in Tasks : held'[u] = held'[v] /\ held'[u] # NULL => u = v
      BY <1>a DEF Working, SlotsConserved, TypeOK
    <2> QED BY <2>1, <1>b, <1>c, <1>d DEF SlotsConserved
  <1>4. NoDanglingContext'
    <2>1. notif[t] = NULL
      BY DEF Bookkeeping
    <2> QED BY <2>1, <1>a, <1>e, <1>f DEF TypeOK, NoDanglingContext
  <1>5. Truth'
    BY <1>a, <1>c DEF TypeOK, Truth
  <1>6. ResultTruthful'
    BY DEF TypeOK, ResultTruthful
  <1> QED BY <1>1, <1>2, <1>3, <1>4, <1>5, <1>6

(* A structure that found no room in the queue goes back to the pool.      *)
LEMMA EnqueueTimesOutInv ==
  ASSUME Inv, NEW t \in Tasks, EnqueueTimesOut(t)
  PROVE  Inv'
  <1> USE NullIsNoSlot, NullIsNoTask, NullIsNoValue, OpsAssumption
  <1> USE DEF Inv, EnqueueTimesOut, ReleaseSlot, agentVars, Refused, commandVars
  <1>a. /\ held[t] \in Slots /\ held[t] # NULL
        /\ held[t] \notin Elems(pool) \cup Elems(queue) \cup Working \cup acks
    BY DEF Bookkeeping, TypeOK, SlotsConserved, Held
  <1>b. /\ pool' \in Seq(Slots) /\ NoDuplicates(pool')
        /\ Elems(pool') = Elems(pool) \cup {held[t]}
    BY <1>a, SendElems, SendNoDuplicates DEF TypeOK, SlotsConserved
  <1>c. /\ Held' = Held \ {held[t]}
        /\ held[t] \in Held
    BY <1>a DEF Held, TypeOK, SlotsConserved
  <1>1. TypeOK'
    BY <1>a, <1>b DEF TypeOK, Commands, AgentStates, Statuses
  <1>2. Bookkeeping'
    BY DEF TypeOK, Bookkeeping
  <1>3. SlotsConserved'
    <2>1. /\ Working' = Working /\ NoDuplicates(queue')
          /\ \A u, v \in Tasks : held'[u] = held'[v] /\ held'[u] # NULL => u = v
      BY <1>a DEF Working, SlotsConserved, TypeOK
    <2> QED BY <2>1, <1>a, <1>b, <1>c DEF SlotsConserved, Bookkeeping
  <1>4. NoDanglingContext'
    BY DEF TypeOK, NoDanglingContext, Outstanding, Working, Bookkeeping
  <1>5. Truth'
    BY DEF TypeOK, Truth, NoDanglingContext, Outstanding, Working, Bookkeeping
  <1>6. ResultTruthful'
    BY DEF TypeOK, ResultTruthful, Truth, NoDanglingContext, Outstanding, Working, Bookkeeping
  <1> QED BY <1>1, <1>2, <1>3, <1>4, <1>5, <1>6

(* A structure moves from the command queue to the agent's hands.          *)
LEMMA ReceiveInv ==
  ASSUME Inv, Receive
  PROVE  Inv'
  <1> USE NullIsNoSlot, NullIsNoTask, NullIsNoValue, OpsAssumption
  <1> USE DEF Inv, Receive, callerVars, poolVars, commandVars
  <1>a. /\ queue' \in Seq(Slots) /\ NoDuplicates(queue')
        /\ cur' \in Slots /\ cur' # NULL
        /\ cur' \in Elems(queue) /\ Elems(queue') = Elems(queue) \ {cur'}
    BY ReceiveElems DEF TypeOK, SlotsConserved
  <1>b. cur = NULL /\ Working = {} /\ Working' = {cur'}
    BY <1>a DEF Bookkeeping, Working
  <1>c. Outstanding' = Outstanding
    BY <1>a, <1>b DEF Outstanding
  <1>1. TypeOK'
    BY <1>a DEF TypeOK, AgentStates
  <1>2. Bookkeeping'
    BY <1>a DEF TypeOK, Bookkeeping
  <1>3. SlotsConserved'
    <2>1. Held' = Held /\ NoDuplicates(pool')
      BY DEF Held, SlotsConserved
    <2> QED BY <2>1, <1>a, <1>b DEF SlotsConserved
  <1>4. NoDanglingContext'
    BY <1>c DEF TypeOK, NoDanglingContext
  <1>5. Truth'
    BY <1>a DEF TypeOK, Truth
  <1>6. ResultTruthful'
    BY DEF TypeOK, ResultTruthful
  <1> QED BY <1>1, <1>2, <1>3, <1>4, <1>5, <1>6

(* A concluded structure goes back to the pool.                            *)
LEMMA ReleaseInv ==
  ASSUME Inv, Release
  PROVE  Inv'
  <1> USE NullIsNoSlot, NullIsNoTask, NullIsNoValue, OpsAssumption
  <1> USE DEF Inv, Release, ReleaseSlot, EndSession, callerVars, commandVars
  <1>a. /\ cur \in Slots /\ Working = {cur} /\ Working' = {}
        /\ cur \notin Elems(pool) \cup Elems(queue) \cup Held \cup acks
    BY AgentWorks DEF SlotsConserved, Working
  <1>b. /\ pool' \in Seq(Slots) /\ NoDuplicates(pool')
        /\ Elems(pool') = Elems(pool) \cup {cur}
    BY <1>a, SendElems, SendNoDuplicates DEF TypeOK, SlotsConserved
  <1>1. TypeOK'
    BY <1>a, <1>b DEF TypeOK, Commands, AgentStates, Statuses
  <1>2. Bookkeeping'
    BY DEF TypeOK, Bookkeeping
  <1>3. SlotsConserved'
    <2>1. Held' = Held /\ acks' = acks
      BY DEF Held
    <2> QED BY <2>1, <1>a, <1>b DEF SlotsConserved, Bookkeeping
  <1>4. NoDanglingContext'
    BY DEF TypeOK, NoDanglingContext, Outstanding, Working, Bookkeeping
  <1>5. Truth'
    BY DEF TypeOK, Truth, NoDanglingContext, Outstanding, Working, Bookkeeping
  <1>6. ResultTruthful'
    BY DEF TypeOK, ResultTruthful, Truth, NoDanglingContext, Outstanding, Working, Bookkeeping
  <1> QED BY <1>1, <1>2, <1>3, <1>4, <1>5, <1>6

-----------------------------------------------------------------------------
(* Nothing happens.                                                        *)
LEMMA StutterInv == Inv /\ UNCHANGED vars => Inv'
  <1> SUFFICES ASSUME Inv, UNCHANGED vars PROVE Inv'
    OBVIOUS
  <1> USE DEF Inv, vars, commandVars
  <1>1. TypeOK' /\ Bookkeeping'
    BY DEF TypeOK, Bookkeeping
  <1>2. Outstanding' = Outstanding /\ Held' = Held /\ Working' = Working
    BY DEF Outstanding, Held, Working
  <1>3. SlotsConserved' /\ NoDanglingContext'
    BY <1>2 DEF SlotsConserved, NoDanglingContext
  <1>4. Truth' /\ ResultTruthful'
    BY DEF Truth, ResultTruthful
  <1> QED BY <1>1, <1>3, <1>4

(* The invariant is inductive: every step of every task preserves it.      *)
LEMMA NextInv == Inv /\ [Next]_vars => Inv'
  <1> SUFFICES ASSUME Inv, [Next]_vars PROVE Inv'
    OBVIOUS
  <1>1. CASE StartAgent \/ StopAgent
    BY <1>1, StartAgentInv, StopAgentInv
  <1>2. CASE \E t \in Tasks, o \in Ops : Call(t, o)
    BY <1>2, CallInv
  <1>3. CASE \E t \in Tasks : Caller(t)
    <2> PICK t \in Tasks : Caller(t)
      BY <1>3
    <2> QED BY CallBeforeStartInv, GetCommandInv, GetCommandTimesOutInv,
               EnqueueInv, EnqueueTimesOutInv, ReturnInv DEF Caller
  <1>4. CASE \E s \in Slots : Ack(s)
    BY <1>4, AckInv
  <1>5. CASE Agent
    BY <1>5, ConnectInv, ReceiveInv, ReceiveTimesOutInv, ExecAwaitsAckInv,
       ExecCompletesInv, ExecFailsInv, NotifyInv, ReleaseInv, ProcessDoneInv,
       ProcessFailsInv DEF Agent
  <1>6. CASE UNCHANGED vars
    BY <1>6, StutterInv
  <1> QED BY <1>1, <1>2, <1>3, <1>4, <1>5, <1>6 DEF Next

(* The inductive invariant holds in every reachable state.                 *)
THEOREM Invariance == Spec => []Inv
  BY InitInv, NextInv, PTL DEF Spec

(* Type correctness, for any number of tasks and any pool and queue size.  *)
THEOREM TypeCorrect == Spec => []TypeOK
  <1>1. Inv => TypeOK
    BY DEF Inv
  <1> QED BY <1>1, Invariance, PTL

(* No structure of the pool is lost or used twice, whatever is refused,    *)
(* fails, times out or is never acknowledged.                              *)
THEOREM SlotsAreConserved == Spec => []SlotsConserved
  <1>1. Inv => SlotsConserved
    BY DEF Inv
  <1> QED BY <1>1, Invariance, PTL

(* commandCallback only ever runs for the call that is still waiting for   *)
(* it: its stack frame exists, and no notification is overwritten.         *)
THEOREM ContextsNeverDangle == Spec => []NoDanglingContext
  <1>1. Inv => NoDanglingContext
    BY DEF Inv
  <1> QED BY <1>1, Invariance, PTL

(* A call returns true exactly when its work was done.                     *)
THEOREM ResultsAreTruthful == Spec => []ResultTruthful
  <1>1. Inv => ResultTruthful
    BY DEF Inv
  <1> QED BY <1>1, Invariance, PTL

(* configASSERT(structReturned) of Agent_ReleaseCommand never fires: the   *)
(* structure about to be released is missing from the pool, so the pool,   *)
(* which has no duplicates, has room for it.                               *)
THEOREM ReleaseAlwaysHasRoom == Spec => []ReleaseHasRoom
  <1>1. ASSUME Inv PROVE ReleaseHasRoom
    <2>1. pool \in Seq(Slots) /\ NoDuplicates(pool)
      BY <1>1 DEF Inv, TypeOK, SlotsConserved
    <2>2. ASSUME agent = "release" PROVE HasRoom(pool, PoolSize)
      <3>1. cur \in Slots /\ cur \notin Elems(pool)
        BY <1>1, <2>2, AgentWorks DEF Inv, SlotsConserved
      <3> QED BY <2>1, <3>1, MissingElementLeavesRoom
    <2>3. ASSUME NEW t \in Tasks, pc[t] = "send" PROVE HasRoom(pool, PoolSize)
      <3>1. held[t] \in Slots /\ held[t] \notin Elems(pool)
        BY <1>1, <2>3 DEF Inv, Bookkeeping, TypeOK, SlotsConserved, Held
      <3> QED BY <2>1, <3>1, MissingElementLeavesRoom
    <2> QED BY <2>2, <2>3 DEF ReleaseHasRoom
  <1> QED BY <1>1, Invariance, PTL

(* With QueueLength >= PoolSize no caller ever finds the command queue     *)
(* full: the structure it is about to send is missing from the queue.      *)
THEOREM QueueIsNeverFull == Spec => []QueueNeverFull
  <1>1. ASSUME Inv PROVE QueueNeverFull
    <2> SUFFICES ASSUME QueueLength >= PoolSize, NEW t \in Tasks, pc[t] = "send"
                 PROVE  HasRoom(queue, QueueLength)
      BY DEF QueueNeverFull
    <2>1. queue \in Seq(Slots) /\ NoDuplicates(queue)
      BY <1>1 DEF Inv, TypeOK, SlotsConserved
    <2>2. held[t] \in Slots /\ held[t] \notin Elems(queue)
      BY <1>1 DEF Inv, Bookkeeping, TypeOK, SlotsConserved, Held
    <2>3. HasRoom(queue, PoolSize)
      BY <2>1, <2>2, MissingElementLeavesRoom
    <2>4. Len(queue) \in Nat
      BY <2>1
    <2> QED BY <2>3, <2>4, PoolSizeAssumption, QueueLengthAssumption DEF HasRoom
  <1> QED BY <1>1, Invariance, PTL

-----------------------------------------------------------------------------
(* Who has the structures that are neither free nor dropped.               *)

Busy == {t \in Tasks : pc[t] \in {"send", "wait"}}

InUse == Held \cup Outstanding

(* Every structure in use is in use by a call in progress, each by another *)
(* one.                                                                    *)
LEMMA OneStructurePerCall ==
  ASSUME Inv
  PROVE  /\ \A s \in InUse : cmd[s].owner \in Busy
         /\ \A s, r \in InUse : cmd[s].owner = cmd[r].owner => s = r
  <1> USE NullIsNoSlot, NullIsNoTask DEF Inv
  <1>1. ASSUME NEW s \in Held
        PROVE  /\ cmd[s].owner \in Tasks /\ pc[cmd[s].owner] = "send"
               /\ held[cmd[s].owner] = s
    <2>1. PICK t \in Tasks : held[t] = s /\ s # NULL
      BY <1>1 DEF Held
    <2>2. cmd[held[t]] = [owner |-> t, op |-> op[t]] /\ pc[t] = "send"
      BY <2>1 DEF Bookkeeping
    <2> QED BY <2>1, <2>2
  <1>2. ASSUME NEW s \in Outstanding
        PROVE  /\ cmd[s].owner \in Tasks /\ pc[cmd[s].owner] = "wait"
               /\ \A r \in Outstanding : cmd[r].owner = cmd[s].owner => r = s
    BY OwnerWaits
  <1>3. \A s \in InUse : cmd[s].owner \in Busy
    BY <1>1, <1>2 DEF InUse, Busy
  <1>4. ASSUME NEW s \in InUse, NEW r \in InUse, cmd[s].owner = cmd[r].owner PROVE s = r
    <2>1. CASE s \in Held /\ r \in Held
      BY <2>1, <1>1, <1>4
    <2>2. CASE s \in Outstanding /\ r \in Outstanding
      BY <2>2, <1>2, <1>4
    <2>3. ~(s \in Held /\ r \in Outstanding) /\ ~(r \in Held /\ s \in Outstanding)
      BY <1>1, <1>2, <1>4
    <2> QED BY <2>1, <2>2, <2>3 DEF InUse
  <1> QED BY <1>3, <1>4

(* Four finite sets that cover a fifth.                                    *)
LEMMA CoveredByFour ==
  ASSUME NEW S, NEW A, NEW B, NEW C, NEW D,
         IsFiniteSet(A), IsFiniteSet(B), IsFiniteSet(C), IsFiniteSet(D),
         S \subseteq ((A \cup B) \cup C) \cup D
  PROVE  /\ Cardinality(S) \in Nat /\ Cardinality(A) \in Nat /\ Cardinality(B) \in Nat
         /\ Cardinality(C) \in Nat /\ Cardinality(D) \in Nat
         /\ Cardinality(S) <= Cardinality(A) + Cardinality(B) + Cardinality(C) + Cardinality(D)
  <1>0. ASSUME NEW X, NEW Y, IsFiniteSet(X), IsFiniteSet(Y)
        PROVE  /\ IsFiniteSet(X \cup Y)
               /\ Cardinality(X) \in Nat /\ Cardinality(Y) \in Nat
               /\ Cardinality(X \cup Y) \in Nat
               /\ Cardinality(X \cup Y) <= Cardinality(X) + Cardinality(Y)
    <2>1. /\ IsFiniteSet(X \cup Y)
          /\ Cardinality(X \cup Y) = Cardinality(X) + Cardinality(Y) - Cardinality(X \cap Y)
      BY <1>0, FS_Union
    <2>2. IsFiniteSet(X \cap Y)
      BY <1>0, FS_Intersection
    <2> QED BY <1>0, <2>1, <2>2, FS_CardinalityType
  <1> DEFINE AB == A \cup B  ABC == AB \cup C  ABCD == ABC \cup D
  <1>1. IsFiniteSet(AB) /\ Cardinality(AB) \in Nat /\ Cardinality(A) \in Nat
        /\ Cardinality(B) \in Nat /\ Cardinality(AB) <= Cardinality(A) + Cardinality(B)
    BY <1>0
  <1> HIDE DEF AB
  <1>2. IsFiniteSet(ABC) /\ Cardinality(ABC) \in Nat /\ Cardinality(C) \in Nat
        /\ Cardinality(ABC) <= Cardinality(AB) + Cardinality(C)
    BY <1>0, <1>1
  <1> HIDE DEF ABC
  <1>3. IsFiniteSet(ABCD) /\ Cardinality(ABCD) \in Nat /\ Cardinality(D) \in Nat
        /\ Cardinality(ABCD) <= Cardinality(ABC) + Cardinality(D)
    BY <1>0, <1>2
  <1>4. IsFiniteSet(S) /\ Cardinality(S) <= Cardinality(ABCD)
    <2>1. S \in SUBSET ABCD
      BY DEF AB, ABC
    <2> HIDE DEF ABCD
    <2> QED BY <2>1, <1>3, FS_Subset
  <1>5. Cardinality(S) \in Nat
    BY <1>4, FS_CardinalityType
  <1> HIDE DEF ABCD
  <1> QED BY <1>1, <1>2, <1>3, <1>4, <1>5

(* No structure is missing without an account: with finitely many callers, *)
(* in every reachable state, through stops and restarts too.               *)
LEMMA InvAccounts == ASSUME Inv, IsFiniteSet(Tasks) PROVE PoolAccounted
  <1> SUFFICES ASSUME agent # "down"
               PROVE  PoolSize <= Len(pool) + Cardinality(Busy) + Cardinality(lost)
                                  + (IF agent = "release" THEN 1 ELSE 0)
    BY DEF PoolAccounted, Busy
  <1> USE DEF Inv
  <1> DEFINE released == IF agent = "release" THEN {cur} ELSE {}
  <1>1. Len(pool) \in Nat /\ IsFiniteSet(Elems(pool)) /\ Cardinality(Elems(pool)) <= Len(pool)
    BY ElemsCount DEF TypeOK
  <1>2. /\ IsFiniteSet(InUse) /\ Cardinality(InUse) <= Cardinality(Busy)
        /\ Cardinality(Busy) \in Nat
    <2>1. IsFiniteSet(Busy)
      BY FS_Subset DEF Busy
    <2> DEFINE f == [s \in InUse |-> cmd[s].owner]
    <2>2. f \in Injection(InUse, Busy)
      BY OneStructurePerCall DEF Injection, IsInjective
    <2> QED BY <2>1, <2>2, FS_Injection, FS_CardinalityType
  <1>3. IsFiniteSet(lost)
    BY SlotsCount, FS_Subset DEF TypeOK
  <1>4. IsFiniteSet(released) /\ Cardinality(released) = IF agent = "release" THEN 1 ELSE 0
    BY FS_EmptySet, FS_Singleton
  <1>5. Slots \subseteq ((Elems(pool) \cup InUse) \cup lost) \cup released
    BY DEF SlotsConserved, Bookkeeping, InUse, Outstanding, Working
  <1>6. /\ Cardinality(Elems(pool)) \in Nat /\ Cardinality(InUse) \in Nat
        /\ Cardinality(lost) \in Nat /\ Cardinality(released) \in Nat
        /\ PoolSize <= Cardinality(Elems(pool)) + Cardinality(InUse) + Cardinality(lost)
                         + Cardinality(released)
    <2> HIDE DEF released
    <2>1. /\ Cardinality(Elems(pool)) \in Nat /\ Cardinality(InUse) \in Nat
          /\ Cardinality(lost) \in Nat /\ Cardinality(released) \in Nat
          /\ Cardinality(Slots) <= Cardinality(Elems(pool)) + Cardinality(InUse)
                                    + Cardinality(lost) + Cardinality(released)
      <3>1. /\ IsFiniteSet(Elems(pool)) /\ IsFiniteSet(InUse) /\ IsFiniteSet(lost)
            /\ IsFiniteSet(released)
        BY <1>1, <1>2, <1>3, <1>4
      <3> QED BY ONLY <3>1, <1>5, CoveredByFour, Zenon
    <2> QED BY <2>1, SlotsCount
  <1> HIDE DEF released
  <1> QED BY <1>1, <1>2, <1>4, <1>6, PoolSizeAssumption

(* Structures missing from the pool are with a call in progress, one each, *)
(* about to be released, or dropped by a stop.                             *)
THEOREM StructuresAccounted ==
  ASSUME IsFiniteSet(Tasks)
  PROVE  Spec => []PoolAccounted
  BY InvAccounts, Invariance, PTL

(* Fewer callers than structures are never refused one by an agent that    *)
(* has dropped none: the pool is not empty when they ask.                  *)
THEOREM FewCallersGetStructures ==
  ASSUME IsFiniteSet(Tasks), Cardinality(Tasks) < PoolSize
  PROVE  Spec => [](\A t \in Tasks :
                      pc[t] = "get" /\ agent # "down" /\ lost = {} => ~IsEmpty(pool))
  <1>1. ASSUME Inv, NEW t \in Tasks, pc[t] = "get", agent # "down", lost = {}
        PROVE  ~IsEmpty(pool)
    <2>1. PoolSize <= Len(pool) + Cardinality(Busy) + 1
      <3>1. PoolSize <= Len(pool) + Cardinality(Busy) + 0 + (IF agent = "release" THEN 1 ELSE 0)
        BY <1>1, InvAccounts, FS_EmptySet DEF PoolAccounted, Busy
      <3>2. Len(pool) \in Nat /\ Cardinality(Busy) \in Nat
        BY <1>1, FS_Subset, FS_CardinalityType DEF Inv, TypeOK, Busy
      <3> QED BY <3>1, <3>2, PoolSizeAssumption
    <2>2. Cardinality(Busy) <= Cardinality(Tasks) - 1
      <3>1. IsFiniteSet(Tasks \ {t}) /\ Cardinality(Tasks \ {t}) = Cardinality(Tasks) - 1
        BY FS_RemoveElement
      <3>2. Busy \in SUBSET (Tasks \ {t})
        BY <1>1 DEF Busy
      <3> QED BY <3>1, <3>2, FS_Subset
    <2>3. /\ Cardinality(Busy) \in Nat /\ Cardinality(Tasks) \in Nat
      BY FS_Subset, FS_CardinalityType DEF Busy
    <2>4. pool = <<>> => Len(pool) = 0
      OBVIOUS
    <2>5. Len(pool) \in Nat
      BY <1>1 DEF Inv, TypeOK
    <2> QED BY <2>1, <2>2, <2>3, <2>4, <2>5, PoolSizeAssumption DEF IsEmpty
  <1>2. Inv => \A t \in Tasks :
                 pc[t] = "get" /\ agent # "down" /\ lost = {} => ~IsEmpty(pool)
    BY <1>1
  <1> QED BY <1>2, Invariance, PTL

-----------------------------------------------------------------------------
(* A publish waits only with a notification or a command on the way.       *)
LEMMA PublishWaitsStep ==
  ASSUME Inv, Inv', PublishWaitsForCommand, [Next]_vars
  PROVE  PublishWaitsForCommand'
  <1> SUFFICES ASSUME NEW t \in Tasks, pc'[t] = "wait", op'[t] = "publish", notif'[t] = NULL,
                      t \notin abandoned'
               PROVE  HasCommand(t)'
    BY DEF PublishWaitsForCommand
  <1> USE NullIsNoSlot, NullIsNoTask, NullIsNoValue, OpsAssumption DEF Inv
  <1>a. pc[t] = "wait" /\ op[t] = "publish" /\ notif[t] = NULL /\ t \notin abandoned
          => HasCommand(t)
    BY DEF PublishWaitsForCommand
  <1>b. ASSUME pc[t] = "wait", op[t] = "publish", notif[t] = NULL, t \notin abandoned,
               \A s \in Outstanding : s \in Outstanding' /\ cmd'[s] = cmd[s]
        PROVE  HasCommand(t)'
    BY <1>a, <1>b DEF HasCommand
  <1> USE DEF TypeOK
  (* What a start or a stop drops has its owner abandoned.                 *)
  <1>c. ASSUME pc' = pc, op' = op, notif' = notif, cmd' = cmd, NEW ss, Drop(ss),
               Outstanding \subseteq Outstanding' \cup ss
        PROVE  HasCommand(t)'
    <2>1. t \notin abandoned
      BY <1>c DEF Drop
    <2>2. PICK s \in Outstanding : cmd[s].owner = t
      BY <2>1, <1>a, <1>c DEF HasCommand
    <2>3. s \notin ss
      BY <2>2, <1>c DEF Drop
    <2> QED BY <2>2, <2>3, <1>c DEF HasCommand
  <1>1. CASE StartAgent
    BY <1>1, <1>c DEF StartAgent, callerVars, commandVars, Outstanding, Working, Bookkeeping
  <1>21. CASE StopAgent
    BY <1>21, <1>c DEF StopAgent, callerVars, commandVars, Outstanding, Working
  <1>2. ASSUME NEW u \in Tasks, NEW o \in Ops, Call(u, o) PROVE HasCommand(t)'
    BY <1>2, <1>b DEF Call, agentVars, commandVars, Outstanding, Working
  <1>3. ASSUME NEW u \in Tasks, CallBeforeStart(u) PROVE HasCommand(t)'
    BY <1>3, <1>b DEF CallBeforeStart, Refused, ChecksStatus, agentVars, commandVars,
                      Outstanding, Working
  <1>4. ASSUME NEW u \in Tasks, GetCommand(u) PROVE HasCommand(t)'
    <2>1. PICK s \in Slots : GetSlot(s) /\ cmd' = [cmd EXCEPT ![s] = [owner |-> u, op |-> op[u]]]
      BY <1>4 DEF GetCommand
    <2>2. s \notin Outstanding
      BY <2>1, ReceiveElems DEF GetSlot, SlotsConserved, Outstanding
    <2>3. Outstanding' = Outstanding
      BY <1>4 DEF GetCommand, agentVars, commandVars, Outstanding, Working
    <2>4. \A r \in Outstanding : cmd'[r] = cmd[r]
      BY <2>1, <2>2, OwnerWaits
    <2> QED BY <1>4, <2>3, <2>4, <1>b DEF GetCommand
  <1>5. ASSUME NEW u \in Tasks, GetCommandTimesOut(u) PROVE HasCommand(t)'
    BY <1>5, <1>b DEF GetCommandTimesOut, Refused, ChecksStatus, agentVars, commandVars,
                      Outstanding, Working
  <1>6. ASSUME NEW u \in Tasks, Enqueue(u) PROVE HasCommand(t)'
    <2>1. /\ held[u] \in Slots
          /\ cmd[held[u]].owner = u
      <3>1. pc[u] = "send"
        BY <1>6 DEF Enqueue, commandVars
      <3>2. held[u] # NULL /\ cmd[held[u]] = [owner |-> u, op |-> op[u]]
        BY <3>1 DEF Bookkeeping
      <3> QED BY <3>2
    <2>2. Outstanding' = Outstanding \cup {held[u]}
      BY <2>1, <1>6, SendElems DEF Enqueue, agentVars, commandVars, Outstanding, Working
    <2>3. CASE u = t
      BY <2>1, <2>2, <2>3, <1>6 DEF Enqueue, commandVars, HasCommand
    <2>4. CASE u # t
      BY <2>2, <2>4, <1>6, <1>b DEF Enqueue, commandVars
    <2> QED BY <2>3, <2>4
  <1>7. ASSUME NEW u \in Tasks, EnqueueTimesOut(u) PROVE HasCommand(t)'
    BY <1>7, <1>b DEF EnqueueTimesOut, Refused, ChecksStatus, agentVars, commandVars,
                      Outstanding, Working
  <1>8. ASSUME NEW u \in Tasks, Return(u) PROVE HasCommand(t)'
    BY <1>8, <1>b DEF Return, agentVars, commandVars, Outstanding, Working
  <1>9. ASSUME NEW s \in Slots, Ack(s) PROVE HasCommand(t)'
    <2>1. Outstanding \subseteq Outstanding'
        BY <1>9 DEF Ack, Outstanding, Working, Bookkeeping
    <2> QED BY <2>1, <1>9, <1>b DEF Ack, commandVars
  <1>10. CASE Connect
    BY <1>10, <1>b DEF Connect, callerVars, commandVars, Outstanding, Working
  <1>11. CASE Receive
    <2>1. Elems(queue) \subseteq Elems(queue') \cup {cur'} /\ cur' \in Slots
      BY <1>11, ReceiveElems DEF Receive, SlotsConserved
    <2>2. Outstanding \subseteq Outstanding'
      BY <2>1, <1>11 DEF Receive, Outstanding, Working, Bookkeeping
    <2> QED BY <2>2, <1>11, <1>b DEF Receive, callerVars, commandVars
  <1>12. CASE ReceiveTimesOut
    BY <1>12, <1>b DEF ReceiveTimesOut, callerVars, commandVars, Outstanding, Working
  <1>13. CASE ExecAwaitsAck
    BY <1>13, <1>b DEF ExecAwaitsAck, callerVars, commandVars, Outstanding, Working
  <1>14. CASE ExecCompletes
    BY <1>14, <1>b DEF ExecCompletes, commandVars, Outstanding, Working
  <1>15. CASE ExecFails
    BY <1>15, <1>b DEF ExecFails, callerVars, commandVars, Outstanding, Working
  <1>16. CASE Notify
    <2>1. code # NULL /\ cmd[cur].owner \in Tasks /\ Working = {cur}
      BY <1>16, AgentWorks, OwnerWaits DEF Notify, Bookkeeping
    <2>2. t # cmd[cur].owner
      BY <2>1, <1>16 DEF Notify, commandVars
    <2>3. PICK s \in Outstanding : cmd[s].owner = t
      BY <2>2, <1>16, <1>a DEF Notify, commandVars, HasCommand
    <2>4. s \in Outstanding'
      BY <2>1, <2>2, <2>3, <1>16 DEF Notify, Outstanding
    <2> QED BY <2>3, <2>4, <1>16 DEF Notify, commandVars, HasCommand
  <1>17. CASE Release
    BY <1>17, <1>b DEF Release, EndSession, callerVars, commandVars, Outstanding, Working
  <1>18. CASE ProcessDone
    BY <1>18, <1>b DEF ProcessDone, callerVars, commandVars, Outstanding, Working
  <1>19. CASE ProcessFails
    BY <1>19, <1>b DEF ProcessFails, EndSession, callerVars, commandVars, Outstanding, Working
  <1>20. CASE UNCHANGED vars
    BY <1>20, <1>b DEF vars, Outstanding, Working
  <1> QED BY <1>1, <1>21, <1>2, <1>3, <1>4, <1>5, <1>6, <1>7, <1>8, <1>9, <1>10, <1>11, <1>12,
             <1>13, <1>14, <1>15, <1>16, <1>17, <1>18, <1>19, <1>20 DEF Next, Caller, Agent

(* mqttagent_mqttPublish never waits for a callback that has no command:   *)
(* on every refusal it has returned false.                                 *)
THEOREM PublishNeverWaitsAlone == Spec => []PublishWaitsForCommand
  <1>1. Init => PublishWaitsForCommand
    BY DEF Init, PublishWaitsForCommand
  <1>2. Inv /\ Inv' /\ PublishWaitsForCommand /\ [Next]_vars => PublishWaitsForCommand'
    BY PublishWaitsStep
  <1> QED BY <1>1, <1>2, Invariance, PTL DEF Spec

-----------------------------------------------------------------------------
(* An abandoned caller stays in its call, and nothing is on the way to it. *)
LEMMA AbandonedStep ==
  ASSUME Inv, Inv', AbandonedForGood, [Next]_vars
  PROVE  AbandonedForGood'
  <1> SUFFICES ASSUME NEW t \in abandoned'
               PROVE  /\ pc'[t] = "wait" /\ notif'[t] = NULL
                      /\ \A s \in Outstanding' : cmd'[s].owner # t
    BY DEF AbandonedForGood, HasCommand
  <1> USE NullIsNoSlot, NullIsNoTask, NullIsNoValue, OpsAssumption DEF Inv
  <1>t. t \in Tasks /\ abandoned \subseteq Tasks
    BY DEF TypeOK
  <1>a. t \in abandoned => /\ pc[t] = "wait" /\ notif[t] = NULL
                           /\ \A s \in Outstanding : cmd[s].owner # t
    BY DEF AbandonedForGood, HasCommand
  (* A start or a stop: the owners of the structures it drops.             *)
  <1>d. ASSUME pc' = pc, notif' = notif, cmd' = cmd, NEW ss, Drop(ss),
               Outstanding' \subseteq Outstanding \ ss
        PROVE  /\ pc'[t] = "wait" /\ notif'[t] = NULL
               /\ \A s \in Outstanding' : cmd'[s].owner # t
    <2>1. CASE t \in abandoned
      BY <2>1, <1>a, <1>d
    <2>2. CASE t \notin abandoned
      <3>1. PICK s \in ss \cap Outstanding : cmd[s].owner = t
        BY <2>2, <1>d DEF Drop
      <3> QED BY <3>1, <1>d, OwnerWaits
    <2> QED BY <2>1, <2>2
  (* A step that leaves the callers in "wait" and the commands alone.      *)
  <1>e. ASSUME abandoned' = abandoned, pc'[t] = pc[t], notif'[t] = notif[t],
               \A s \in Outstanding' : s \in Outstanding /\ cmd'[s] = cmd[s]
        PROVE  /\ pc'[t] = "wait" /\ notif'[t] = NULL
               /\ \A s \in Outstanding' : cmd'[s].owner # t
    BY <1>e, <1>a
  <1> USE DEF TypeOK
  <1>1. CASE StartAgent
    BY <1>1, <1>d DEF StartAgent, callerVars, Outstanding, Working, Bookkeeping, Elems
  <1>2. CASE StopAgent
    <2>1. Working \cap (Elems(queue) \cup acks) = {}
      BY DEF SlotsConserved
    <2> QED BY <2>1, <1>2, <1>d DEF StopAgent, callerVars, Outstanding, Working
  <1>3. ASSUME NEW u \in Tasks, NEW o \in Ops, Call(u, o)
        PROVE  /\ pc'[t] = "wait" /\ notif'[t] = NULL
               /\ \A s \in Outstanding' : cmd'[s].owner # t
    BY <1>3, <1>a, <1>e, <1>t DEF Call, commandVars, agentVars, Outstanding, Working
  <1>4. ASSUME NEW u \in Tasks, Caller(u)
        PROVE  /\ pc'[t] = "wait" /\ notif'[t] = NULL
               /\ \A s \in Outstanding' : cmd'[s].owner # t
    <2>a. abandoned' = abandoned
      BY <1>4 DEF Caller, CallBeforeStart, GetCommand, GetCommandTimesOut, Enqueue,
                  EnqueueTimesOut, Return, commandVars
    <2>b. t \in abandoned /\ pc[t] = "wait" /\ notif[t] = NULL
      BY <2>a, <1>a
    <2>1. CASE CallBeforeStart(u)
      BY <2>1, <2>a, <2>b, <1>e, <1>t
         DEF CallBeforeStart, Refused, commandVars, agentVars, Outstanding, Working
    <2>2. CASE GetCommandTimesOut(u)
      BY <2>2, <2>a, <2>b, <1>e, <1>t
         DEF GetCommandTimesOut, Refused, commandVars, agentVars, Outstanding, Working
    <2>3. CASE EnqueueTimesOut(u)
      BY <2>3, <2>a, <2>b, <1>e, <1>t
         DEF EnqueueTimesOut, Refused, commandVars, agentVars, Outstanding, Working
    <2>4. CASE Return(u)
      BY <2>4, <2>a, <2>b, <1>e, <1>t DEF Return, commandVars, agentVars, Outstanding, Working
    <2>5. CASE GetCommand(u)
      <3>1. PICK s \in Slots : GetSlot(s) /\ cmd' = [cmd EXCEPT ![s] = [owner |-> u, op |-> op[u]]]
        BY <2>5 DEF GetCommand
      <3>2. s \notin Outstanding
        BY <3>1, ReceiveElems DEF GetSlot, SlotsConserved, Outstanding
      <3>3. Outstanding' = Outstanding
        BY <2>5 DEF GetCommand, agentVars, Outstanding, Working
      <3>4. \A r \in Outstanding : cmd'[r] = cmd[r]
        BY <3>1, <3>2, OwnerWaits
      <3> QED BY <2>5, <2>a, <2>b, <3>3, <3>4, <1>e, <1>t DEF GetCommand
    <2>6. CASE Enqueue(u)
      <3>1. pc[u] = "send" /\ held[u] \in Slots /\ cmd[held[u]].owner = u
        <4>1. pc[u] = "send"
          BY <2>6 DEF Enqueue
        <4>2. held[u] # NULL /\ cmd[held[u]] = [owner |-> u, op |-> op[u]]
          BY <4>1 DEF Bookkeeping
        <4> QED BY <4>1, <4>2
      <3>2. u # t
        BY <3>1, <2>b
      <3>3. Outstanding' = Outstanding \cup {held[u]}
        BY <3>1, <2>6, SendElems DEF Enqueue, agentVars, Outstanding, Working
      <3> QED BY <3>1, <3>2, <3>3, <2>6, <2>b, <1>a, <1>t DEF Enqueue, commandVars
    <2> QED BY <2>1, <2>2, <2>3, <2>4, <2>5, <2>6, <1>4 DEF Caller
  <1>5. ASSUME NEW s \in Slots, Ack(s)
        PROVE  /\ pc'[t] = "wait" /\ notif'[t] = NULL
               /\ \A r \in Outstanding' : cmd'[r].owner # t
    <2>1. Outstanding' \subseteq Outstanding
      BY <1>5 DEF Ack, Outstanding, Working, Bookkeeping
    <2>2. pc' = pc /\ notif' = notif /\ cmd' = cmd /\ abandoned' = abandoned
      BY <1>5 DEF Ack, commandVars
    <2> QED BY <2>1, <2>2, <1>e
  <1>6. CASE Receive
    <2>1. Elems(queue') \subseteq Elems(queue) /\ cur' \in Elems(queue)
      BY <1>6, ReceiveElems DEF Receive, SlotsConserved
    <2>2. Outstanding' \subseteq Outstanding
      BY <2>1, <1>6 DEF Receive, Outstanding, Working
    <2> QED BY <2>2, <1>6, <1>e DEF Receive, callerVars, commandVars
  <1>7. CASE Notify
    <2>1. cmd[cur].owner # t
      BY <1>7, AgentWorks, <1>a DEF Notify, commandVars
    <2>2. Outstanding' \subseteq Outstanding
      BY <1>7 DEF Notify, Outstanding, Working
    <2> QED BY <2>1, <2>2, <1>7, <1>e, <1>t DEF Notify, commandVars
  <1>8. CASE Connect \/ ReceiveTimesOut \/ ProcessDone
    BY <1>8, <1>e DEF Connect, ReceiveTimesOut, ProcessDone, callerVars, commandVars,
                      Outstanding, Working, Bookkeeping
  <1>9. CASE ExecAwaitsAck \/ ExecCompletes \/ ExecFails
    <2>1. Outstanding' \subseteq Outstanding
      BY <1>9, AgentWorks DEF ExecAwaitsAck, ExecCompletes, ExecFails, Outstanding, Working
    <2> QED BY <2>1, <1>9, <1>e
            DEF ExecAwaitsAck, ExecCompletes, ExecFails, callerVars, commandVars
  <1>10. CASE Release \/ ProcessFails
    BY <1>10, <1>e DEF Release, ProcessFails, EndSession, callerVars, commandVars,
                       Outstanding, Working
  <1>11. CASE UNCHANGED vars
    BY <1>11, <1>e DEF vars, Outstanding, Working
  <1> QED BY <1>1, <1>2, <1>3, <1>4, <1>5, <1>6, <1>7, <1>8, <1>9, <1>10, <1>11
          DEF Next, Agent

(* No callback and no restart ever returns a caller whose command was      *)
(* dropped with the agent task.                                            *)
THEOREM AbandonedNeverReturns == Spec => []AbandonedForGood
  <1>1. Init => AbandonedForGood
    BY DEF Init, AbandonedForGood
  <1>2. Inv /\ Inv' /\ AbandonedForGood /\ [Next]_vars => AbandonedForGood'
    BY AbandonedStep
  <1> QED BY <1>1, <1>2, Invariance, PTL DEF Spec

-----------------------------------------------------------------------------
(* The refinement: every step is a step of the contract or changes nothing *)
(* it can see.                                                             *)
LEMMA SameStatus ==
  ASSUME pc' = pc, confirmed' = confirmed, result' = result
  PROVE  [Contract!Next]_Contract!vars
  BY DEF callStatus, Contract!vars

(* The refinement mapping yields a function on the tasks.                  *)
LEMMA StatusFunction ==
  ASSUME TypeOK
  PROVE  /\ callStatus \in [Tasks -> {"none", "open", "done"}]
         /\ \A t \in Tasks : callStatus[t] = "none" <=> pc[t] = "idle"
         /\ \A t \in Tasks : callStatus[t] = "done" <=> pc[t] # "idle" /\ confirmed[t]
  BY DEF callStatus, TypeOK

(* Every step of the command path is a step of the contract or a stutter.  *)
LEMMA StepRefines ==
  ASSUME Inv, Inv', [Next]_vars
  PROVE  [Contract!Next]_Contract!vars
  <1> USE NullIsNoSlot, NullIsNoTask, NullIsNoValue, OpsAssumption DEF Inv
  <1>a. TypeOK /\ TypeOK'
    OBVIOUS
  (* A call that returns result r, when r tells whether the call was done. *)
  <1>b. ASSUME NEW t \in Tasks, pc[t] # "idle",
               pc' = [pc EXCEPT ![t] = "idle"], confirmed' = confirmed,
               NEW r \in BOOLEAN, result' = [result EXCEPT ![t] = r], r <=> confirmed[t]
        PROVE  [Contract!Next]_Contract!vars
    <2>1. callStatus' = [callStatus EXCEPT ![t] = "none"]
      BY <1>b, <1>a DEF callStatus, TypeOK
    <2>2. callStatus[t] # "none" /\ (callStatus[t] = "done" <=> r)
      BY <1>b, <1>a, StatusFunction
    <2>3. r = (callStatus[t] = "done")
      BY <2>2, <1>b
    <2>4. result' = [result EXCEPT ![t] = (callStatus[t] = "done")]
      BY <1>b, <2>3, Zenon
    <2>5. Contract!Return(t)
      BY <2>1, <2>2, <2>4 DEF Contract!Return
    <2> QED BY <2>5 DEF Contract!Next
  (* A refused call returns false or waits.                                *)
  <1>c. ASSUME NEW t \in Tasks, pc[t] \in {"get", "send"}, Refused(t), confirmed' = confirmed
        PROVE  [Contract!Next]_Contract!vars
    <2>1. CASE ChecksStatus(op[t])
      <3>1. /\ pc' = [pc EXCEPT ![t] = "idle"]
            /\ result' = [result EXCEPT ![t] = FALSE]
        BY <2>1, <1>c DEF Refused
      <3>2. ~confirmed[t]
        BY <1>c DEF Truth
      <3> QED BY <3>1, <3>2, <1>b, <1>c
    <2>2. CASE ~ChecksStatus(op[t])
      <3>1. callStatus' = callStatus /\ result' = result
        BY <2>2, <1>c, <1>a DEF Refused, callStatus, TypeOK
      <3> QED BY <3>1 DEF Contract!vars
    <2> QED BY <2>1, <2>2
  (* The work of an open call is done.                                     *)
  <1>d. ASSUME NEW t \in Tasks, pc[t] # "idle", pc' = pc, result' = result, ~confirmed[t],
               confirmed' = [confirmed EXCEPT ![t] = TRUE]
        PROVE  [Contract!Next]_Contract!vars
    <2>1. callStatus' = [callStatus EXCEPT ![t] = "done"] /\ callStatus[t] = "open"
      BY <1>d, <1>a DEF callStatus, TypeOK
    <2>2. Contract!Done(t)
      BY <2>1, <1>d DEF Contract!Done
    <2> QED BY <2>2 DEF Contract!Next
  <1>1. CASE StartAgent \/ StopAgent
    BY <1>1, SameStatus DEF StartAgent, StopAgent, callerVars
  <1>2. ASSUME NEW t \in Tasks, NEW o \in Ops, Call(t, o) PROVE [Contract!Next]_Contract!vars
    <2>1. /\ callStatus' = [callStatus EXCEPT ![t] = "open"]
          /\ callStatus[t] = "none"
          /\ result' = result
      BY <1>2, <1>a DEF Call, callStatus, TypeOK
    <2>2. Contract!Begin(t)
      BY <2>1 DEF Contract!Begin
    <2> QED BY <2>2 DEF Contract!Next
  <1>3. ASSUME NEW t \in Tasks, CallBeforeStart(t) PROVE [Contract!Next]_Contract!vars
    BY <1>3, <1>c DEF CallBeforeStart
  <1>4. ASSUME NEW t \in Tasks, GetCommand(t) PROVE [Contract!Next]_Contract!vars
    <2>1. /\ pc[t] = "get" /\ pc' = [pc EXCEPT ![t] = "send"]
          /\ confirmed' = confirmed /\ result' = result
      BY <1>4 DEF GetCommand
    <2>2. callStatus' = callStatus
      BY <2>1, <1>a DEF callStatus, TypeOK
    <2> QED BY <2>1, <2>2 DEF Contract!vars
  <1>5. ASSUME NEW t \in Tasks, GetCommandTimesOut(t) PROVE [Contract!Next]_Contract!vars
    BY <1>5, <1>c DEF GetCommandTimesOut
  <1>6. ASSUME NEW t \in Tasks, Enqueue(t) PROVE [Contract!Next]_Contract!vars
    <2>1. /\ pc[t] = "send" /\ pc' = [pc EXCEPT ![t] = "wait"]
          /\ confirmed' = confirmed /\ result' = result
      BY <1>6 DEF Enqueue
    <2>2. callStatus' = callStatus
      BY <2>1, <1>a DEF callStatus, TypeOK
    <2> QED BY <2>1, <2>2 DEF Contract!vars
  <1>7. ASSUME NEW t \in Tasks, EnqueueTimesOut(t) PROVE [Contract!Next]_Contract!vars
    BY <1>7, <1>c DEF EnqueueTimesOut
  <1>8. ASSUME NEW t \in Tasks, Return(t) PROVE [Contract!Next]_Contract!vars
    <2>1. /\ pc[t] = "wait" /\ pc' = [pc EXCEPT ![t] = "idle"] /\ confirmed' = confirmed
          /\ result' = [result EXCEPT ![t] = Succeeded(notif[t])]
          /\ notif[t] # NULL
      BY <1>8 DEF Return
    <2>2. Succeeded(notif[t]) \in BOOLEAN
      BY DEF Succeeded
    <2>3. Succeeded(notif[t]) <=> confirmed[t]
      BY <2>1 DEF Truth
    <2>4. pc[t] # "idle"
      BY <2>1
    <2> HIDE DEF Inv
    <2> QED BY <2>1, <2>2, <2>3, <2>4, <1>b
  <1>9. ASSUME NEW s \in Slots, Ack(s) PROVE [Contract!Next]_Contract!vars
    <2>1. s \in Outstanding
      BY <1>9 DEF Ack, Bookkeeping, Outstanding
    <2>2. /\ cmd[s].owner \in Tasks /\ pc[cmd[s].owner] = "wait"
          /\ ~confirmed[cmd[s].owner]
      BY <1>9, <2>1, OwnerWaits DEF Ack, Bookkeeping, Truth
    <2>3. PICK c : confirmed' = [confirmed EXCEPT ![cmd[s].owner] = Succeeded(c)]
      BY <1>9 DEF Ack
    <2>4. pc' = pc /\ result' = result
      BY <1>9 DEF Ack
    <2>5. CASE Succeeded(c)
      <3>1. confirmed' = [confirmed EXCEPT ![cmd[s].owner] = TRUE]
        BY <2>3, <2>5 DEF Succeeded
      <3> QED BY <3>1, <2>2, <2>4, <1>d
    <2>6. CASE ~Succeeded(c)
      <3>1. confirmed' = confirmed
        BY <2>2, <2>3, <2>6, <1>a DEF Succeeded, TypeOK
      <3> QED BY <3>1, <2>4, SameStatus
    <2> QED BY <2>5, <2>6
  <1>10. CASE Connect \/ Receive \/ ReceiveTimesOut
    BY <1>10, SameStatus DEF Connect, Receive, ReceiveTimesOut, callerVars
  <1>11. CASE ExecAwaitsAck \/ ExecFails
    BY <1>11, SameStatus DEF ExecAwaitsAck, ExecFails, callerVars
  <1>12. CASE ExecCompletes
    <2>1. /\ cmd[cur].owner \in Tasks /\ pc[cmd[cur].owner] = "wait"
          /\ ~confirmed[cmd[cur].owner]
      BY <1>12, AgentWorks, OwnerWaits DEF ExecCompletes, Truth
    <2> QED BY <2>1, <1>12, <1>d DEF ExecCompletes
  <1>13. CASE Notify \/ Release
    BY <1>13, SameStatus DEF Notify, Release, callerVars
  <1>14. CASE ProcessDone \/ ProcessFails
    BY <1>14, SameStatus DEF ProcessDone, ProcessFails, callerVars
  <1>15. CASE UNCHANGED vars
    BY <1>15, SameStatus DEF vars
  <1> QED BY <1>1, <1>2, <1>3, <1>4, <1>5, <1>6, <1>7, <1>8, <1>9, <1>10, <1>11, <1>12,
             <1>13, <1>14, <1>15 DEF Next, Caller, Agent

(* The command path implements the contract of the blocking calls, for any *)
(* number of callers and any pool and queue size.                          *)
THEOREM Implementation == Spec => ImplementsContract
  <1>1. Init => Contract!Init
    BY DEF Init, Contract!Init, callStatus
  <1>2. Inv /\ Inv' /\ [Next]_vars => [Contract!Next]_Contract!vars
    BY StepRefines
  <1> QED BY <1>1, <1>2, Invariance, PTL DEF Spec, ImplementsContract, Contract!Spec

-----------------------------------------------------------------------------
(* What the callers see of each step: the half of AgentService that the    *)
(* command path implements.  AgentSystemProofs adds the sessions.          *)

(* The command of  t  goes from one state to another.                      *)
Moves(t, from, to) ==
  /\ commandState[t] = from
  /\ commandState' = [commandState EXCEPT ![t] = to]
  /\ op' = op

Stays == UNCHANGED <<commandState, op>>

(* The session takes the acknowledgements it owes with it.                 *)
SessionTaken(failed) ==
  /\ commandState' = [t \in Tasks |->
                        IF t \in failed THEN "done"
                        ELSE IF commandState[t] = "sent" THEN "orphan" ELSE commandState[t]]
  /\ op' = op

(* Where a command is tells its state.                                     *)
LEMMA StateByPlace ==
  ASSUME Inv, NEW s \in Outstanding
  PROVE  /\ s \in Elems(queue) => commandState[cmd[s].owner] = "queued"
         /\ agent = "exec" /\ s = cur => commandState[cmd[s].owner] = "queued"
         /\ agent = "notify" /\ s = cur => commandState[cmd[s].owner] = "done"
         /\ s \in live /\ ~ends => commandState[cmd[s].owner] = "sent"
         /\ s \in acks /\ (s \notin live \/ ends) => commandState[cmd[s].owner] = "orphan"
  <1> DEFINE t == cmd[s].owner
  <1>1. /\ t \in Tasks /\ pc[t] = "wait" /\ notif[t] = NULL
        /\ \A r \in Outstanding : cmd[r].owner = t => r = s
    BY OwnerWaits
  <1>2. /\ \A r \in Elems(queue) \cup acks \cup live : cmd[r].owner = t => r = s
        /\ agent \in {"exec", "notify"} /\ cmd[cur].owner = t => cur = s
    BY <1>1, AgentWorks DEF Outstanding, Inv, Bookkeeping
  <1>3. /\ Elems(queue) \cap (Working \cup acks) = {} /\ Working \cap acks = {}
        /\ live \subseteq acks
        /\ agent \in {"exec", "notify"} => Working = {cur}
    BY AgentWorks DEF Inv, SlotsConserved, Bookkeeping
  <1>4. commandState[t] =
          IF InWork(t, "notify") THEN "done"
          ELSE IF t \in Owners(Elems(queue)) \/ InWork(t, "exec") THEN "queued"
          ELSE IF t \in Owners(live) /\ ~ends THEN "sent"
          ELSE IF t \in Owners(acks) THEN "orphan" ELSE "none"
    BY <1>1 DEF commandState
  <1>5. /\ t \in Owners(Elems(queue)) <=> s \in Elems(queue)
        /\ t \in Owners(acks) <=> s \in acks
        /\ t \in Owners(live) <=> s \in live
        /\ InWork(t, "notify") <=> agent = "notify" /\ s = cur
        /\ InWork(t, "exec") <=> agent = "exec" /\ s = cur
    BY <1>2 DEF Owners, InWork
  <1> HIDE DEF t
  <1>6. s = cur /\ agent \in {"exec", "notify"} => s \notin Elems(queue) \cup acks
    BY <1>3
  <1>7. ~(s \in Elems(queue) /\ s \in acks)
    BY <1>3
  <1> QED BY <1>3, <1>4, <1>5, <1>6, <1>7 DEF t

(* The state of a task whose step changes neither its call nor where its   *)
(* command is.                                                             *)
LEMMA SameState ==
  ASSUME NEW t \in Tasks,
         pc'[t] = pc[t], notif'[t] = notif[t],
         (InWork(t, "notify"))' <=> InWork(t, "notify"),
         (t \in Owners(Elems(queue)) \/ InWork(t, "exec"))'
           <=> (t \in Owners(Elems(queue)) \/ InWork(t, "exec")),
         (t \in Owners(live) /\ ~ends)' <=> (t \in Owners(live) /\ ~ends),
         (t \in Owners(acks))' <=> t \in Owners(acks)
  PROVE  commandState'[t] = commandState[t]
  BY DEF commandState

(* Structures that keep their commands keep their owners.                  *)
LEMMA OwnersKept ==
  ASSUME NEW ss, \A s \in ss : cmd'[s] = cmd[s]
  PROVE  {cmd'[s].owner : s \in ss} = {cmd[s].owner : s \in ss}
  OBVIOUS

(* Steps of a caller.                                                      *)
LEMMA CallChanges ==
  ASSUME Inv, NEW t \in Tasks, NEW o \in Ops, Call(t, o)
  PROVE  commandState[t] = "none" /\ UNCHANGED commandState /\ op' = [op EXCEPT ![t] = o]
  <1>1. pc[t] = "idle" /\ op' = [op EXCEPT ![t] = o] /\ pc' = [pc EXCEPT ![t] = "get"]
    BY DEF Call
  <1>2. ASSUME NEW u \in Tasks, u # t PROVE commandState'[u] = commandState[u]
    BY <1>1, <1>2, SameState DEF Call, commandVars, agentVars, Inv, TypeOK, Owners, InWork
  <1>3. commandState[t] = "none" /\ commandState'[t] = "none"
    BY <1>1 DEF commandState, Inv, TypeOK
  <1>4. commandState' = commandState
    BY <1>2, <1>3 DEF commandState
  <1> QED BY <1>1, <1>3, <1>4

LEMMA CallerChanges ==
  ASSUME Inv, NEW t \in Tasks, Caller(t)
  PROVE  \/ Stays
         \/ Moves(t, "none", "queued") /\ agent # "down"
         \/ Moves(t, "done", "none")
  <1> USE NullIsNoSlot, NullIsNoTask, NullIsNoValue DEF Inv, TypeOK
  (* A step of  t  that moves no command.                                  *)
  <1>a. ASSUME UNCHANGED <<op, notif, queue, agentVars>>,
               \A u \in Tasks \ {t} : pc'[u] = pc[u],
               commandState[t] = "none", commandState'[t] = "none",
               \A s \in Outstanding : cmd'[s] = cmd[s]
        PROVE  Stays
    <2>1. ASSUME NEW u \in Tasks, u # t PROVE commandState'[u] = commandState[u]
      <3>1. /\ Owners(Elems(queue))' = Owners(Elems(queue))
            /\ Owners(live)' = Owners(live)
            /\ Owners(acks)' = Owners(acks)
        <4>1. /\ Elems(queue)' = Elems(queue) /\ live' = live /\ acks' = acks
              /\ Elems(queue) \subseteq Outstanding /\ acks \subseteq Outstanding
              /\ live \subseteq Outstanding
          BY <1>a DEF agentVars, Elems, Outstanding, Bookkeeping
        <4>2. ASSUME NEW ss, ss \subseteq Outstanding
              PROVE  {cmd'[s].owner : s \in ss} = {cmd[s].owner : s \in ss}
          BY <1>a, <4>2, OwnersKept
        <4> QED BY <4>1, <4>2 DEF Owners
      <3>2. /\ InWork(u, "notify")' <=> InWork(u, "notify")
            /\ InWork(u, "exec")' <=> InWork(u, "exec")
        BY <1>a, AgentWorks DEF InWork, agentVars
      <3> QED BY <3>1, <3>2, <1>a, <2>1, SameState DEF agentVars
    <2>2. commandState' = commandState
      BY <2>1, <1>a DEF commandState
    <2> QED BY <2>2, <1>a DEF Stays
  <1>b. ASSUME pc[t] \in {"get", "send"} PROVE commandState[t] = "none"
    BY <1>b DEF commandState
  (* A refused call waits for nothing.                                     *)
  <1>c. ASSUME pc[t] \in {"get", "send"}, Refused(t), UNCHANGED <<op, notif, queue, agentVars, cmd>>
        PROVE  Stays
    <2>1. \A s \in Outstanding : cmd[s].owner # t
      BY <1>c, OwnerWaits
    <2>2. t \notin Owners(Elems(queue)) /\ t \notin Owners(acks) /\ t \notin Owners(live)
      BY <2>1 DEF Owners, Outstanding, Bookkeeping
    <2>3. ~InWork(t, "notify") /\ ~InWork(t, "exec")
      BY <2>1, AgentWorks DEF InWork
    <2>4. notif[t] = NULL
      BY <1>c DEF Bookkeeping
    <2>5. /\ t \notin Owners(Elems(queue))' /\ t \notin Owners(acks)' /\ t \notin Owners(live)'
          /\ ~InWork(t, "notify")' /\ ~InWork(t, "exec")' /\ notif'[t] = NULL
      BY <1>c, <2>2, <2>3, <2>4 DEF Owners, InWork, agentVars, Elems
    <2>6. commandState'[t] = "none"
      BY <2>5 DEF commandState
    <2>7. \A u \in Tasks \ {t} : pc'[u] = pc[u]
      BY <1>c DEF Refused
    <2> QED BY <2>6, <2>7, <1>a, <1>b, <1>c
  <1>1. CASE CallBeforeStart(t)
    BY <1>1, <1>c DEF CallBeforeStart, commandVars
  <1>2. CASE GetCommandTimesOut(t)
    BY <1>2, <1>c DEF GetCommandTimesOut, commandVars
  <1>3. CASE EnqueueTimesOut(t)
    BY <1>3, <1>c DEF EnqueueTimesOut, commandVars
  <1>4. CASE GetCommand(t)
    <2>1. PICK s \in Slots : GetSlot(s) /\ cmd' = [cmd EXCEPT ![s] = [owner |-> t, op |-> op[t]]]
      BY <1>4 DEF GetCommand
    <2>2. s \notin Outstanding
      BY <2>1, ReceiveElems DEF GetSlot, SlotsConserved, Outstanding
    <2>3. \A r \in Outstanding : cmd'[r] = cmd[r]
      BY <2>1, <2>2, OwnerWaits
    <2>4. pc[t] = "get" /\ pc' = [pc EXCEPT ![t] = "send"]
          /\ UNCHANGED <<op, notif, queue, agentVars>>
      BY <1>4 DEF GetCommand
    <2>5. commandState'[t] = "none"
      BY <2>4 DEF commandState
    <2> QED BY <2>3, <2>4, <2>5, <1>a, <1>b
  <1>5. CASE Enqueue(t)
    <2>0. pc[t] = "send" /\ pc' = [pc EXCEPT ![t] = "wait"] /\ queue' = Append(queue, held[t])
          /\ UNCHANGED <<op, notif, cmd, agentVars>>
      BY <1>5 DEF Enqueue, commandVars
    <2>1. held[t] \in Slots /\ cmd[held[t]].owner = t /\ agent # "down"
      <3>1. held[t] # NULL /\ cmd[held[t]] = [owner |-> t, op |-> op[t]]
        BY <2>0 DEF Bookkeeping
      <3>2. agent # "down"
        BY <3>1 DEF Bookkeeping
      <3> QED BY <3>1, <3>2
    <2>2. Owners(Elems(queue))' = Owners(Elems(queue)) \cup {t}
      <3>1. Elems(queue)' = Elems(queue) \cup {held[t]}
        BY <2>0, <2>1, SendElems
      <3> QED BY <3>1, <2>0, <2>1 DEF Owners
    <2>3. ASSUME NEW u \in Tasks, u # t PROVE commandState'[u] = commandState[u]
      <3>1. /\ Owners(live)' = Owners(live) /\ Owners(acks)' = Owners(acks)
            /\ InWork(u, "notify")' <=> InWork(u, "notify")
            /\ InWork(u, "exec")' <=> InWork(u, "exec")
        BY <2>0 DEF Owners, InWork, agentVars
      <3> QED BY <3>1, <2>0, <2>2, <2>3, SameState DEF agentVars
    <2>4. commandState'[t] = "queued"
      <3>1. notif[t] = NULL
        BY <2>0 DEF Bookkeeping
      <3>2. ~InWork(t, "notify")'
        BY <2>0, AgentWorks, OwnerWaits DEF InWork, agentVars
      <3> QED BY <3>1, <3>2, <2>0, <2>2 DEF commandState
    <2>5. commandState' = [commandState EXCEPT ![t] = "queued"]
      BY <2>3, <2>4 DEF commandState
    <2> QED BY <2>0, <2>1, <2>5, <1>b DEF Moves
  <1>6. CASE Return(t)
    <2>0. pc[t] = "wait" /\ pc' = [pc EXCEPT ![t] = "idle"] /\ notif[t] # NULL
          /\ notif' = [notif EXCEPT ![t] = NULL] /\ UNCHANGED <<op, cmd, queue, agentVars>>
      BY <1>6 DEF Return, commandVars
    <2>1. commandState[t] = "done" /\ commandState'[t] = "none"
      BY <2>0 DEF commandState
    <2>2. ASSUME NEW u \in Tasks, u # t PROVE commandState'[u] = commandState[u]
      BY <2>0, <2>2, SameState DEF Owners, InWork, agentVars, Elems
    <2>3. commandState' = [commandState EXCEPT ![t] = "none"]
      BY <2>1, <2>2 DEF commandState
    <2> QED BY <2>0, <2>1, <2>3 DEF Moves
  <1> QED BY <1>1, <1>2, <1>3, <1>4, <1>5, <1>6 DEF Caller

(* Steps of the agent that move no command.                                *)
LEMMA AgentKeepsStates ==
  ASSUME Inv, Connect \/ Receive \/ ReceiveTimesOut \/ Notify \/ Release \/ ProcessDone
  PROVE  Stays
  <1> USE NullIsNoSlot, NullIsNoTask, NullIsNoValue DEF Inv, TypeOK
  <1>0. op' = op /\ cmd' = cmd /\ pc' = pc
    BY DEF Connect, Receive, ReceiveTimesOut, Notify, Release, ProcessDone, callerVars, commandVars
  <1> SUFFICES ASSUME NEW t \in Tasks PROVE commandState'[t] = commandState[t]
    BY <1>0 DEF commandState, Stays
  <1>1. CASE Connect \/ ReceiveTimesOut \/ ProcessDone
    BY <1>0, <1>1, SameState
       DEF Connect, ReceiveTimesOut, ProcessDone, callerVars, Owners, InWork, Elems
  <1>2. CASE Receive
    <2>1. /\ agent = "recv" /\ agent' = "exec" /\ UNCHANGED <<notif, ends, acks, live>>
          /\ Elems(queue) = Elems(queue)' \cup {cur'}
      BY <1>2, ReceiveElems DEF Receive, SlotsConserved, callerVars
    <2>2. t \in Owners(Elems(queue)) <=> t \in Owners(Elems(queue))' \/ cmd'[cur'].owner = t
      BY <1>0, <2>1 DEF Owners
    <2>3. Owners(acks)' = Owners(acks) /\ Owners(live)' = Owners(live)
      BY <1>0, <2>1 DEF Owners
    <2> QED BY <1>0, <2>1, <2>2, <2>3, SameState DEF InWork
  <1>3. CASE Notify
    <2>1. /\ agent = "notify" /\ agent' = "release" /\ code # NULL
          /\ notif' = [notif EXCEPT ![cmd[cur].owner] = code]
          /\ UNCHANGED <<queue, ends, acks, live>>
      BY <1>3 DEF Notify, Bookkeeping
    <2>2. CASE t = cmd[cur].owner
      <3>1. pc[t] = "wait"
        BY <2>1, <2>2, AgentWorks, OwnerWaits
      <3> QED BY <1>0, <2>1, <2>2, <3>1 DEF commandState, InWork
    <2>3. CASE t # cmd[cur].owner
      BY <1>0, <2>1, <2>3, SameState DEF InWork, Owners, Elems
    <2> QED BY <2>2, <2>3
  <1>4. CASE Release
    <2>1. /\ agent = "release" /\ agent' \in {"offline", "process"} /\ UNCHANGED <<notif, queue>>
          /\ acks' = acks /\ ends' = FALSE /\ live' = IF ends THEN {} ELSE live
      BY <1>4 DEF Release, EndSession, callerVars
    <2>2. Owners(live)' = IF ends THEN {} ELSE Owners(live)
      BY <1>0, <2>1 DEF Owners
    <2>3. Owners(acks)' = Owners(acks) /\ Owners(Elems(queue))' = Owners(Elems(queue))
      BY <1>0, <2>1 DEF Owners, Elems
    <2> QED BY <1>0, <2>1, <2>2, <2>3, SameState DEF InWork
  <1> QED BY <1>1, <1>2, <1>3, <1>4

(* The command in work is sent: a ping is done with it, the others wait    *)
(* for their acknowledgement.                                              *)
LEMMA ExecChanges ==
  ASSUME Inv, ExecAwaitsAck \/ ExecCompletes
  PROVE  \E t \in Tasks : Moves(t, "queued", IF op[t] = "ping" THEN "done" ELSE "sent")
  <1> USE NullIsNoSlot, NullIsNoTask, NullIsNoValue, OpsAssumption DEF Inv, TypeOK
  <1> DEFINE t == cmd[cur].owner
  <1>1. agent = "exec" /\ cur \in Slots /\ cur \in Outstanding
    BY AgentWorks DEF ExecAwaitsAck, ExecCompletes
  <1>2. /\ t \in Tasks /\ cmd[cur].op = op[t] /\ op[t] # NULL /\ pc[t] = "wait" /\ notif[t] = NULL
        /\ \A r \in Outstanding : cmd[r].owner = t => r = cur
    BY <1>1, OwnerWaits
  <1>3. commandState[t] = "queued" /\ ~ends
    BY <1>1, StateByPlace DEF Bookkeeping
  <1>4. /\ t \notin Owners(Elems(queue)) /\ t \notin Owners(acks) /\ t \notin Owners(live)
    <2>1. cur \notin Elems(queue) \cup acks
      BY <1>1, AgentWorks DEF SlotsConserved
    <2>0. Elems(queue) \cup acks \subseteq Outstanding
      BY DEF Outstanding
    <2>2. ASSUME NEW ss, ss \subseteq Elems(queue) \cup acks PROVE t \notin Owners(ss)
      <3>1. \A r \in ss : cmd[r].owner # t
        BY <2>0, <2>1, <2>2, <1>2
      <3> QED BY <3>1 DEF Owners
    <2>3. live \subseteq acks
      BY DEF Bookkeeping
    <2> QED BY <2>2, <2>3
  <1> HIDE DEF t
  <1>5. CASE ExecAwaitsAck
    <2>1. /\ agent' = "process" /\ acks' = acks \cup {cur} /\ live' = live \cup {cur}
          /\ UNCHANGED <<pc, notif, op, cmd, queue, ends>> /\ op[t] \in {"publish", "subscribe"}
      BY <1>2, <1>5 DEF ExecAwaitsAck, callerVars, commandVars, NeedsAck
    <2>2. /\ Owners(acks)' = Owners(acks) \cup {t} /\ Owners(live)' = Owners(live) \cup {t}
          /\ Owners(Elems(queue))' = Owners(Elems(queue))
      BY <2>1 DEF Owners, Elems, t
    <2>3. ASSUME NEW u \in Tasks, u # t PROVE commandState'[u] = commandState[u]
      BY <1>1, <2>1, <2>2, <2>3, SameState DEF InWork, t
    <2>4. commandState'[t] = "sent"
      BY <1>2, <1>3, <1>4, <2>1, <2>2 DEF commandState, InWork
    <2>5. commandState' = [commandState EXCEPT ![t] = "sent"]
      BY <2>3, <2>4 DEF commandState
    <2> QED BY <1>2, <1>3, <2>1, <2>5 DEF Moves
  <1>6. CASE ExecCompletes
    <2>1. /\ agent' = "notify" /\ UNCHANGED <<pc, notif, op, cmd, queue, cur, acks, live>>
          /\ ends' = FALSE /\ op[t] \notin {"publish", "subscribe"}
      BY <1>2, <1>6 DEF ExecCompletes, commandVars, NeedsAck
    <2>2. op[t] = "ping"
      BY <1>2, <2>1 DEF Operations
    <2>3. /\ Owners(acks)' = Owners(acks) /\ Owners(live)' = Owners(live)
          /\ Owners(Elems(queue))' = Owners(Elems(queue))
      BY <2>1 DEF Owners, Elems
    <2>4. ASSUME NEW u \in Tasks, u # t PROVE commandState'[u] = commandState[u]
      BY <1>1, <1>3, <2>1, <2>3, <2>4, SameState DEF InWork, t
    <2>5. commandState'[t] = "done"
      BY <1>2, <2>1 DEF commandState, InWork, t
    <2>6. commandState' = [commandState EXCEPT ![t] = "done"]
      BY <2>4, <2>5 DEF commandState
    <2> QED BY <1>2, <1>3, <2>1, <2>2, <2>6 DEF Moves
  <1> QED BY <1>5, <1>6

(* The command in work is not sent, and the session is over.               *)
LEMMA ExecFailsChanges ==
  ASSUME Inv, ExecFails
  PROVE  \E t \in Tasks : commandState[t] = "queued" /\ SessionTaken({t})
  <1> USE NullIsNoSlot, NullIsNoTask, NullIsNoValue DEF Inv, TypeOK
  <1> DEFINE t == cmd[cur].owner
  <1>1. /\ agent = "exec" /\ cur \in Slots /\ cur \in Outstanding
        /\ agent' = "notify" /\ ends' = TRUE
        /\ UNCHANGED <<pc, notif, op, cmd, queue, cur, acks, live>>
    BY AgentWorks DEF ExecFails, callerVars, commandVars
  <1>2. t \in Tasks /\ pc[t] = "wait"
    BY <1>1, OwnerWaits
  <1>3. commandState[t] = "queued" /\ ~ends
    BY <1>1, StateByPlace DEF Bookkeeping
  <1>4. /\ Owners(acks)' = Owners(acks) /\ Owners(live)' = Owners(live)
        /\ Owners(Elems(queue))' = Owners(Elems(queue)) /\ Owners(live) \subseteq Owners(acks)
    BY <1>1 DEF Owners, Elems, Bookkeeping
  <1>5. commandState'[t] = "done"
    BY <1>1, <1>2 DEF commandState, InWork
  <1>6. ASSUME NEW u \in Tasks, u # t
        PROVE  commandState'[u] = IF commandState[u] = "sent" THEN "orphan" ELSE commandState[u]
    BY <1>1, <1>3, <1>4, <1>6 DEF commandState, InWork
  <1> HIDE DEF t
  <1>7. SessionTaken({t})
    BY <1>1, <1>2, <1>5, <1>6 DEF SessionTaken, commandState
  <1> QED BY <1>2, <1>3, <1>7

(* The acknowledgement of  s  concludes the command of its owner.          *)
LEMMA AckChanges ==
  ASSUME Inv, NEW s \in Slots, Ack(s)
  PROVE  \E t \in Tasks : Moves(t, "sent", "done")
  <1> USE NullIsNoSlot, NullIsNoTask, NullIsNoValue DEF Inv, TypeOK
  <1> DEFINE t == cmd[s].owner
  <1>1. /\ agent = "process" /\ s \in live /\ agent' = "notify" /\ cur' = s /\ ends' = FALSE
        /\ acks' = acks \ {s} /\ live' = live \ {s}
        /\ UNCHANGED <<pc, notif, op, cmd, queue>>
    BY DEF Ack, commandVars
  <1>2. s \in Outstanding /\ s \in acks /\ ~ends
    BY <1>1 DEF Outstanding, Bookkeeping
  <1>3. t \in Tasks /\ pc[t] = "wait" /\ \A r \in Outstanding : cmd[r].owner = t => r = s
    BY <1>2, OwnerWaits
  <1>4. commandState[t] = "sent"
    BY <1>1, <1>2, StateByPlace
  <1>5. /\ Owners(Elems(queue))' = Owners(Elems(queue))
        /\ Owners(acks)' = Owners(acks) \ {t} /\ Owners(live)' = Owners(live) \ {t}
    BY <1>1, <1>2, <1>3 DEF Owners, Elems, Outstanding, Bookkeeping
  <1>6. commandState'[t] = "done"
    BY <1>1, <1>3 DEF commandState, InWork
  <1>7. ASSUME NEW u \in Tasks, u # t PROVE commandState'[u] = commandState[u]
    BY <1>1, <1>2, <1>5, <1>7, SameState DEF InWork
  <1> HIDE DEF t
  <1>8. commandState' = [commandState EXCEPT ![t] = "done"]
    BY <1>6, <1>7 DEF commandState
  <1> QED BY <1>1, <1>3, <1>4, <1>8 DEF Moves

(* The loop ends while it reads packets.                                   *)
LEMMA ProcessFailsChanges == ASSUME Inv, ProcessFails PROVE SessionTaken({})
  <1>1. /\ agent = "process" /\ agent' = "offline" /\ live' = {} /\ ~ends
        /\ UNCHANGED <<pc, notif, op, cmd, queue, acks, ends>>
    BY DEF ProcessFails, EndSession, callerVars, commandVars, Inv, Bookkeeping
  <1>2. /\ Owners(acks)' = Owners(acks) /\ Owners(live)' = {}
        /\ Owners(Elems(queue))' = Owners(Elems(queue)) /\ Owners(live) \subseteq Owners(acks)
    BY <1>1 DEF Owners, Elems, Inv, Bookkeeping
  <1>3. ASSUME NEW u \in Tasks
        PROVE  commandState'[u] = IF commandState[u] = "sent" THEN "orphan" ELSE commandState[u]
    BY <1>1, <1>2 DEF commandState, InWork
  <1> QED BY <1>1, <1>3 DEF SessionTaken, commandState

(* The first start of the agent finds no command.                          *)
LEMMA FirstStartKeepsStates ==
  ASSUME Inv, agent = "down", StartAgent
  PROVE  Stays
  <1>1. /\ UNCHANGED <<pc, notif, op, cmd, ends, live>> /\ queue' = queue /\ acks' = acks
        /\ agent' = "offline"
    BY DEF StartAgent, callerVars, Inv, Bookkeeping
  <1> QED BY <1>1 DEF Stays, commandState, Owners, InWork, Elems
=============================================================================
