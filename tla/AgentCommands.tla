--------------------------- MODULE AgentCommands ---------------------------
(***************************************************************************)
(* The blocking calls of mqttagent.c and the command path behind them.     *)
(*                                                                         *)
(* A task that calls mqttagent_mqttPublish, mqttagent_mqttSubscribe or     *)
(* mqttagent_mqttPing takes a command structure from the pool, fills it,   *)
(* sends it to the command queue and waits for a task notification.  The   *)
(* agent task takes commands from the queue in MQTTAgent_CommandLoop,      *)
(* executes them, and concludes each one: it calls commandCallback, which  *)
(* notifies the caller through a pointer into the caller's stack, and      *)
(* then releases the structure.  A publish (QoS 1) and a subscribe are     *)
(* concluded by the broker's acknowledgement, a ping as soon as it is      *)
(* sent.  Any error ends the loop and with it the session; the next        *)
(* session is a clean one (cleanSession = true), so what the broker owed   *)
(* the old session is never delivered.                                     *)
(*                                                                         *)
(* The command loop itself is coreMQTT-Agent, which is not in the          *)
(* repository: it is modelled from the interface mqttagent_init gives it   *)
(* and the results mqttagent_run and the callers act on.                   *)
(***************************************************************************)
EXTENDS CommandPool, FiniteSets

CONSTANTS
  Tasks,        \* the tasks that make blocking calls
  Ops,          \* which calls they make, a subset of Operations
  QueueLength   \* MQTT_AGENT_COMMAND_QUEUE_LENGTH (25 in core_mqtt_config.h)

Operations == {"publish", "subscribe", "ping"}

(* MQTTStatus_t, as far as the callers see different ones.                 *)
Statuses == {"MQTTSuccess", "MQTTSendFailed", "MQTTServerRefused"}

ASSUME OpsAssumption == Ops \subseteq Operations
ASSUME QueueLengthAssumption == QueueLength \in Nat \ {0}
ASSUME NullIsNoTask == NULL \notin Tasks
ASSUME NullIsNoValue == NULL \notin Operations \cup Statuses

VARIABLES
  \* the callers
  pc,         \* "idle", "get" a structure, "send" it, "wait" for the notification
  op,         \* the call the task is in, or was in last
  held,       \* the structure taken from the pool and not yet sent
  notif,      \* the pending notification of the task: its value, or NULL
  result,     \* what the last finished call returned
  confirmed,  \* history: the broker, for a ping the transport, did the current call's work
  \* the command path
  cmd,        \* the content of each structure: operation and callback context
  queue,      \* xCommandQueue
  \* the agent task
  agent,      \* where it is: see AgentStates
  cur,        \* the structure it works on
  code,       \* the return code it concludes cur with, NULL outside a conclusion
  ends,       \* that code also ends the command loop
  acks,       \* pendingAcks: structures waiting for an acknowledgement
  live,       \* the ones whose acknowledgement the current session still owes
  \* history of mqttagent_stop
  lost,       \* the structures a stop or a restart dropped
  abandoned   \* the tasks whose command was among them before its callback ran

callerVars == <<pc, op, held, notif, result, confirmed>>
agentVars  == <<agent, cur, code, ends, acks, live>>
commandVars == <<cmd, lost, abandoned>>
vars == <<pool, initStatus, pc, op, held, notif, result, confirmed, cmd, queue,
          agent, cur, code, ends, acks, live, lost, abandoned>>

AgentStates ==
  { "down",      \* mqttagent_start has not run: the MQTT context is zero
    "stopped",   \* mqttagent_stop deleted the task; the context stays as it was
    "offline",   \* in the connection state machine, not in the command loop
    "recv",      \* command loop: about to take a command from the queue
    "exec",      \* executing cur
    "notify",    \* concluding cur: about to call its callback
    "release",   \* the callback is done, cur is about to be released
    "process" }  \* in MQTT_ProcessLoop, reading packets

Commands == [owner : Tasks \cup {NULL}, op : Ops \cup {NULL}]

Init ==
  /\ PoolInit
  /\ pc = [t \in Tasks |-> "idle"]
  /\ op = [t \in Tasks |-> NULL]
  /\ held = [t \in Tasks |-> NULL]
  /\ notif = [t \in Tasks |-> NULL]
  /\ result = [t \in Tasks |-> FALSE]
  /\ confirmed = [t \in Tasks |-> FALSE]
  /\ cmd = [s \in Slots |-> [owner |-> NULL, op |-> NULL]]
  /\ queue = <<>>
  /\ agent = "down"
  /\ cur = NULL
  /\ code = NULL
  /\ ends = FALSE
  /\ acks = {}
  /\ live = {}
  /\ lost = {}
  /\ abandoned = {}

-----------------------------------------------------------------------------
(* The callers.                                                            *)

Working == {cur} \ {NULL}

(* The structures whose callback has not been called.                      *)
Outstanding ==
  Elems(queue) \cup acks \cup (IF agent = "release" THEN {} ELSE Working)

(* The structures ss are dropped: nobody will conclude or release them.    *)
Drop(ss) ==
  /\ lost' = lost \cup ss
  /\ abandoned' = abandoned \cup {cmd[s].owner : s \in ss \cap Outstanding}

(* mqttagent_start up to the creation of the agent task: the command queue *)
(* and the agent's context, with pendingAcks, are created anew whatever    *)
(* they held; the pool only the first time.                                *)
StartAgent ==
  /\ agent \in {"down", "stopped"}
  /\ InitializePool
  /\ queue' = <<>>
  /\ acks' = {}
  /\ Drop(Elems(queue) \cup acks)
  /\ agent' = "offline"
  /\ UNCHANGED <<callerVars, cmd, cur, code, ends, live>>

(* mqttagent_stop, called by another task: vTaskDelete ends the agent task *)
(* wherever it is, with the structure it works on and the session.         *)
StopAgent ==
  /\ agent \notin {"down", "stopped"}
  /\ agent' = "stopped"
  /\ Drop(Working)
  /\ cur' = NULL
  /\ code' = NULL
  /\ ends' = FALSE
  /\ live' = {}
  /\ UNCHANGED <<poolVars, callerVars, cmd, queue, acks>>

Call(t, o) ==
  /\ pc[t] = "idle"
  /\ pc' = [pc EXCEPT ![t] = "get"]
  /\ op' = [op EXCEPT ![t] = o]
  /\ confirmed' = [confirmed EXCEPT ![t] = FALSE]
  /\ UNCHANGED <<poolVars, held, notif, result, commandVars, queue, agentVars>>

(* Mutant: publish, too, only logs a refused command.                      *)
ChecksStatus_Never(o) == FALSE

(* Which calls look at the status of MQTTAgent_Publish / _Subscribe /      *)
(* _Ping before they wait: mqttPublish returns false on a failure, the     *)
(* other two only log it.                                                  *)
ChecksStatus(o) == o = "publish"

(* The command was not accepted.                                           *)
Refused(t) ==
  IF ChecksStatus(op[t])
    THEN /\ pc' = [pc EXCEPT ![t] = "idle"]
         /\ result' = [result EXCEPT ![t] = FALSE]
    ELSE /\ pc' = [pc EXCEPT ![t] = "wait"]
         /\ UNCHANGED result

(* MQTTBadParameter: the agent's context is not initialised yet.           *)
CallBeforeStart(t) ==
  /\ pc[t] = "get"
  /\ agent = "down"
  /\ Refused(t)
  /\ UNCHANGED <<poolVars, op, held, notif, confirmed, commandVars, queue, agentVars>>

(* Mutant: the callback context of another task is left in the structure.  *)
GetCommand_StaleContext(t) ==
  /\ pc[t] = "get"
  /\ agent # "down"
  /\ \E s \in Slots :
       /\ GetSlot(s)
       /\ held' = [held EXCEPT ![t] = s]
       /\ cmd' = IF cmd[s].owner = NULL
                   THEN [cmd EXCEPT ![s] = [owner |-> t, op |-> op[t]]]
                   ELSE [cmd EXCEPT ![s].op = op[t]]
  /\ pc' = [pc EXCEPT ![t] = "send"]
  /\ UNCHANGED <<op, notif, result, confirmed, queue, agentVars, lost, abandoned>>

(* The structure is taken from the pool and filled with the operation and  *)
(* the callback context, &currentTaskHandle on the caller's stack.         *)
GetCommand(t) ==
  /\ pc[t] = "get"
  /\ agent # "down"
  /\ \E s \in Slots :
       /\ GetSlot(s)
       /\ held' = [held EXCEPT ![t] = s]
       /\ cmd' = [cmd EXCEPT ![s] = [owner |-> t, op |-> op[t]]]
  /\ pc' = [pc EXCEPT ![t] = "send"]
  /\ UNCHANGED <<op, notif, result, confirmed, queue, agentVars, lost, abandoned>>

(* MQTTNoMemory: no structure became free for blockTimeMs.                 *)
GetCommandTimesOut(t) ==
  /\ pc[t] = "get"
  /\ agent # "down"
  /\ GetSlotTimesOut
  /\ Refused(t)
  /\ UNCHANGED <<op, held, notif, confirmed, commandVars, queue, agentVars>>

Enqueue(t) ==
  /\ pc[t] = "send"
  /\ HasRoom(queue, QueueLength)
  /\ queue' = Append(queue, held[t])
  /\ held' = [held EXCEPT ![t] = NULL]
  /\ pc' = [pc EXCEPT ![t] = "wait"]
  /\ UNCHANGED <<poolVars, op, notif, result, confirmed, commandVars, agentVars>>

(* MQTTSendFailed: the queue stayed full for blockTimeMs; the structure is *)
(* released again.                                                         *)
EnqueueTimesOut(t) ==
  /\ pc[t] = "send"
  /\ ~HasRoom(queue, QueueLength)
  /\ ReleaseSlot(held[t])
  /\ held' = [held EXCEPT ![t] = NULL]
  /\ Refused(t)
  /\ UNCHANGED <<op, notif, confirmed, commandVars, queue, agentVars>>

(* Mutant: the return code is not looked at.                               *)
Succeeded_Always(status) == TRUE

Succeeded(status) == status = "MQTTSuccess"

(* xTaskNotifyWait finds the notification pending and consumes it.         *)
Return(t) ==
  /\ pc[t] = "wait"
  /\ notif[t] # NULL
  /\ pc' = [pc EXCEPT ![t] = "idle"]
  /\ result' = [result EXCEPT ![t] = Succeeded(notif[t])]
  /\ notif' = [notif EXCEPT ![t] = NULL]
  /\ UNCHANGED <<poolVars, op, held, confirmed, commandVars, queue, agentVars>>

Caller(t) ==
  \/ CallBeforeStart(t)
  \/ GetCommand(t)
  \/ GetCommandTimesOut(t)
  \/ Enqueue(t)
  \/ EnqueueTimesOut(t)
  \/ Return(t)

-----------------------------------------------------------------------------
(* The agent task.                                                         *)

(* The connection state machine reached Online and enters the loop.        *)
Connect ==
  /\ agent = "offline"
  /\ agent' = "recv"
  /\ UNCHANGED <<poolVars, callerVars, commandVars, queue, cur, code, ends, acks, live>>

Receive ==
  /\ agent = "recv"
  /\ ~IsEmpty(queue)
  /\ cur' = Head(queue)
  /\ queue' = Tail(queue)
  /\ agent' = "exec"
  /\ UNCHANGED <<poolVars, callerVars, commandVars, code, ends, acks, live>>

ReceiveTimesOut ==
  /\ agent = "recv"
  /\ IsEmpty(queue)
  /\ agent' = "process"
  /\ UNCHANGED <<poolVars, callerVars, commandVars, queue, cur, code, ends, acks, live>>

NeedsAck(o) == o \in {"publish", "subscribe"}

(* The packet is out and the acknowledgement is awaited.                   *)
ExecAwaitsAck ==
  /\ agent = "exec"
  /\ NeedsAck(cmd[cur].op)
  /\ acks' = acks \cup {cur}
  /\ live' = live \cup {cur}
  /\ cur' = NULL
  /\ agent' = "process"
  /\ UNCHANGED <<poolVars, callerVars, commandVars, queue, code, ends>>

ExecCompletes ==
  /\ agent = "exec"
  /\ ~NeedsAck(cmd[cur].op)
  /\ code' = "MQTTSuccess"
  /\ ends' = FALSE
  /\ confirmed' = [confirmed EXCEPT ![cmd[cur].owner] = TRUE]
  /\ agent' = "notify"
  /\ UNCHANGED <<poolVars, pc, op, held, notif, result, commandVars, queue, cur, acks, live>>

(* The transport did not take the packet.                                  *)
ExecFails ==
  /\ agent = "exec"
  /\ code' = "MQTTSendFailed"
  /\ ends' = TRUE
  /\ agent' = "notify"
  /\ UNCHANGED <<poolVars, callerVars, commandVars, queue, cur, acks, live>>

(* commandCallback: xTaskNotify(.., returnCode, eSetValueWithOverwrite).   *)
Notify ==
  /\ agent = "notify"
  /\ notif' = [notif EXCEPT ![cmd[cur].owner] = code]
  /\ agent' = "release"
  /\ UNCHANGED <<poolVars, pc, op, held, result, confirmed, commandVars, queue,
                 cur, code, ends, acks, live>>

(* Mutant: pendingAcks is emptied without concluding its commands.         *)
EndSession_ForgetsAcks == agent' = "offline" /\ live' = {} /\ acks' = {}

(* Mutant: the acknowledgements are expected from the next session.        *)
EndSession_Resumes == agent' = "offline" /\ UNCHANGED <<acks, live>>

(* The loop returned an error.  The structures in pendingAcks stay there.  *)
EndSession == agent' = "offline" /\ live' = {} /\ UNCHANGED acks

Release ==
  /\ agent = "release"
  /\ ReleaseSlot(cur)
  /\ cur' = NULL
  /\ IF ends THEN EndSession
             ELSE agent' = "process" /\ UNCHANGED <<acks, live>>
  /\ code' = NULL
  /\ ends' = FALSE
  /\ UNCHANGED <<callerVars, commandVars, queue>>

(* What the broker can answer: a SUBACK may refuse, a PUBACK cannot.       *)
Answers(o) == IF o = "subscribe" THEN {"MQTTSuccess", "MQTTServerRefused"}
                                 ELSE {"MQTTSuccess"}

(* Mutant: an acknowledgement of an earlier session concludes its command. *)
Ack_AnySession(s) ==
  /\ agent = "process"
  /\ s \in acks
  /\ \E c \in Answers(cmd[s].op) :
       /\ code' = c
       /\ confirmed' = [confirmed EXCEPT ![cmd[s].owner] = Succeeded(c)]
  /\ ends' = FALSE
  /\ cur' = s
  /\ acks' = acks \ {s}
  /\ live' = live \ {s}
  /\ agent' = "notify"
  /\ UNCHANGED <<poolVars, pc, op, held, notif, result, commandVars, queue>>

(* The acknowledgement of  s  arrived.                                     *)
Ack(s) ==
  /\ agent = "process"
  /\ s \in live
  /\ \E c \in Answers(cmd[s].op) :
       /\ code' = c
       /\ confirmed' = [confirmed EXCEPT ![cmd[s].owner] = Succeeded(c)]
  /\ ends' = FALSE
  /\ cur' = s
  /\ acks' = acks \ {s}
  /\ live' = live \ {s}
  /\ agent' = "notify"
  /\ UNCHANGED <<poolVars, pc, op, held, notif, result, commandVars, queue>>

(* No further packet: the loop takes the next command.                     *)
ProcessDone ==
  /\ agent = "process"
  /\ agent' = "recv"
  /\ UNCHANGED <<poolVars, callerVars, commandVars, queue, cur, code, ends, acks, live>>

(* Receive error, keep-alive timeout, malformed packet, lost connection.   *)
ProcessFails ==
  /\ agent = "process"
  /\ EndSession
  /\ UNCHANGED <<poolVars, callerVars, commandVars, queue, cur, code, ends>>

Agent ==
  \/ Connect \/ Receive \/ ReceiveTimesOut
  \/ ExecAwaitsAck \/ ExecCompletes \/ ExecFails
  \/ Notify \/ Release
  \/ ProcessDone \/ ProcessFails

Next ==
  \/ StartAgent \/ StopAgent
  \/ \E t \in Tasks, o \in Ops : Call(t, o)
  \/ \E t \in Tasks : Caller(t)
  \/ \E s \in Slots : Ack(s)
  \/ Agent

Spec == Init /\ [][Next]_vars

(* All tasks have the same priority and the scheduler time-slices, so each *)
(* one runs again and again.  The network comes back (Connect is part of   *)
(* Agent) and the broker answers in a session that lives long enough.      *)
Fairness ==
  /\ WF_vars(StartAgent /\ agent = "down")
  /\ WF_vars(Agent)
  /\ \A t \in Tasks : WF_vars(Caller(t))
  /\ \A s \in Slots : SF_vars(Ack(s))

FairSpec == Spec /\ Fairness

-----------------------------------------------------------------------------
(* Where a structure is.                                                   *)

Held == {held[t] : t \in Tasks} \ {NULL}

(* A task whose command waits for an acknowledgement that the session it   *)
(* belonged to can no longer deliver.                                      *)
Orphaned(t) == \E s \in acks \ live : cmd[s].owner = t

TypeOK ==
  /\ pool \in Seq(Slots)
  /\ initStatus \in {"QUEUE_NOT_INITIALIZED", "QUEUE_INITIALIZED"}
  /\ pc \in [Tasks -> {"idle", "get", "send", "wait"}]
  /\ op \in [Tasks -> Ops \cup {NULL}]
  /\ held \in [Tasks -> Slots \cup {NULL}]
  /\ notif \in [Tasks -> Statuses \cup {NULL}]
  /\ result \in [Tasks -> BOOLEAN]
  /\ confirmed \in [Tasks -> BOOLEAN]
  /\ cmd \in [Slots -> Commands]
  /\ queue \in Seq(Slots)
  /\ agent \in AgentStates
  /\ cur \in Slots \cup {NULL}
  /\ code \in Statuses \cup {NULL}
  /\ ends \in BOOLEAN
  /\ acks \subseteq Slots
  /\ live \subseteq Slots
  /\ lost \subseteq Slots
  /\ abandoned \subseteq Tasks

(* Every structure of the pool is in exactly one place: free, in the hands *)
(* of one caller, in the command queue, with the agent, waiting for an     *)
(* acknowledgement, or dropped by a stop.  None is lost otherwise and none *)
(* is used twice, whatever fails, times out or is refused, also when an    *)
(* agent is started again (Agent_GetCommand / Agent_ReleaseCommand).       *)
SlotsConserved ==
  /\ NoDuplicates(pool)
  /\ NoDuplicates(queue)
  /\ \A t, u \in Tasks : held[t] = held[u] /\ held[t] # NULL => t = u
  /\ Elems(pool) \cap (Elems(queue) \cup Held \cup Working \cup acks \cup lost) = {}
  /\ Elems(queue) \cap (Held \cup Working \cup acks \cup lost) = {}
  /\ Held \cap (Working \cup acks \cup lost) = {}
  /\ Working \cap (acks \cup lost) = {}
  /\ acks \cap lost = {}
  /\ initStatus = "QUEUE_INITIALIZED" =>
       Slots = Elems(pool) \cup Elems(queue) \cup Held \cup Working \cup acks \cup lost

(* commandCallback dereferences a pointer into the stack frame of the call *)
(* that sent the command.  As long as the callback has not run, that call  *)
(* is still waiting in the same operation, it has no other command under   *)
(* way and no notification pending that the callback would overwrite.      *)
NoDanglingContext ==
  /\ \A s \in Outstanding :
       LET t == cmd[s].owner IN
         /\ t \in Tasks
         /\ pc[t] = "wait"
         /\ op[t] = cmd[s].op
         /\ notif[t] = NULL
  /\ \A s, r \in Outstanding : cmd[s].owner = cmd[r].owner => s = r

(* A call that returned said true exactly when the work of that very call  *)
(* was done: acknowledged by the broker, or for a ping, sent.              *)
ResultTruthful ==
  \A t \in Tasks : pc[t] = "idle" => (result[t] <=> confirmed[t])

(* "The send should not fail as the queue was created to hold every        *)
(* command in the pool" (Agent_ReleaseCommand): whenever a release is due  *)
(* or may become due, configASSERT(structReturned) holds.                  *)
ReleaseHasRoom ==
  /\ agent = "release" => HasRoom(pool, PoolSize)
  /\ \A t \in Tasks : pc[t] = "send" => HasRoom(pool, PoolSize)

(* With a command queue at least as long as the pool (25 and 10 in         *)
(* core_mqtt_config.h), a caller that has a structure never waits for room *)
(* in the queue, however many tasks call.                                  *)
QueueNeverFull ==
  QueueLength >= PoolSize =>
    \A t \in Tasks : pc[t] = "send" => HasRoom(queue, QueueLength)

(* Every structure that is missing from the pool is accounted for: each    *)
(* call in progress has at most one, the agent may be about to release one *)
(* more, and a stop may have dropped some.  So fewer calls in progress     *)
(* than structures never find the pool empty, however often sessions end.  *)
PoolAccounted ==
  agent # "down" =>
    PoolSize <= Len(pool) + Cardinality({t \in Tasks : pc[t] \in {"send", "wait"}})
                + Cardinality(lost) + (IF agent = "release" THEN 1 ELSE 0)

HasCommand(t) == \E s \in Outstanding : cmd[s].owner = t

(* A publish waits only while a notification is pending or a command of    *)
(* its own is on the way: mqttPublish returns on a refusal (l.504).  The   *)
(* exception is a command the stop of the agent dropped.                   *)
PublishWaitsForCommand ==
  \A t \in Tasks :
    pc[t] = "wait" /\ op[t] = "publish" =>
      notif[t] # NULL \/ HasCommand(t) \/ t \in abandoned

(* A caller whose command a stop dropped is past help: it waits without    *)
(* limit (portMAX_DELAY), and no callback of any later life of the agent   *)
(* notifies it, so no restart brings it back.                              *)
AbandonedForGood ==
  \A t \in abandoned : pc[t] = "wait" /\ notif[t] = NULL /\ ~HasCommand(t)

(* A call whose command was accepted returns, unless the session ended     *)
(* between the command and its acknowledgement, or the agent is stopped.   *)
AcceptedCallReturns ==
  \A t \in Tasks :
    HasCommand(t) ~> (pc[t] = "idle" \/ Orphaned(t) \/ agent = "stopped")

(* "Publish and wait for the callback to be called. The callback will      *)
(* notify this task to continue" (l.499), leaving out what a stop of the   *)
(* agent does.  The code does not keep it: run agent_commands_lostack.     *)
CallReturns ==
  \A t \in Tasks :
    pc[t] = "wait" ~> (pc[t] = "idle" \/ agent = "stopped" \/ t \in abandoned)

(* An exhausted pool gets a structure back, unless the agent is stopped or *)
(* every structure waits for an acknowledgement of a session that is gone  *)
(* or was dropped by an earlier stop.                                      *)
PoolRecovers ==
  (agent # "down" /\ IsEmpty(pool)) ~>
    (~IsEmpty(pool) \/ Slots = (acks \ live) \cup lost \/ agent = "stopped")

-----------------------------------------------------------------------------
(* What the callers see of the command path.                               *)

(* The agent works on the command of  t .                                  *)
InWork(t, place) == agent = place /\ cmd[cur].owner = t

Owners(ss) == {cmd[s].owner : s \in ss}

(* What became of the command of each task, in the words of AgentService.  *)
commandState ==
  [t \in Tasks |->
     IF pc[t] # "wait" THEN "none"
     ELSE IF notif[t] # NULL \/ InWork(t, "notify") THEN "done"
     ELSE IF t \in Owners(Elems(queue)) \/ InWork(t, "exec") THEN "queued"
     ELSE IF t \in Owners(live) /\ ~ends THEN "sent"
     ELSE IF t \in Owners(acks) THEN "orphan" ELSE "none"]

(* What the blocking calls promise, without pool, queues and agent task.   *)

callStatus ==
  [t \in Tasks |-> IF pc[t] = "idle" THEN "none"
                   ELSE IF confirmed[t] THEN "done" ELSE "open"]

Contract == INSTANCE BlockingCalls WITH call <- callStatus, returned <- result

(* Every behaviour of the command path is one the contract allows: a call  *)
(* is done at most once and returns what became of it.                     *)
ImplementsContract == Contract!Spec
=============================================================================
