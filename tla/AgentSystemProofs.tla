------------------------- MODULE AgentSystemProofs -------------------------
(***************************************************************************)
(* The agent as a whole implements each of its halves, so what is proved   *)
(* of MqttAgent and of AgentCommands alone holds of the two together, and  *)
(* the halves stay in step.                                                *)
(***************************************************************************)
EXTENDS AgentSystem, MqttAgentProofs, FiniteSets

(* The theorems about the command path.                                    *)
P == INSTANCE AgentCommandsProofs WITH pc <- calls, agent <- worker

-----------------------------------------------------------------------------
(* Every behaviour of the agent is one of its state machine.               *)
THEOREM MachineHalf == SysSpec => Spec
  <1>1. SysInit => Init
    BY DEF SysInit
  <1>2. [SysNext]_sysVars => [Next]_vars
    <2> SUFFICES ASSUME SysNext PROVE [Next]_vars
      BY DEF sysVars
    <2>1. CASE StartSystem \/ EnterLoop \/ LeaveLoop
      BY <2>1 DEF StartSystem, EnterLoop, LeaveLoop, Next, App, Run
    <2>2. CASE \E s \in Cmd!Slots : AckArrives(s)
      BY <2>2 DEF AckArrives
    <2>3. CASE \E t \in Tasks : CallerRuns(t) \/ NewCall(t)
      BY <2>3 DEF CallerRuns, NewCall
    <2>4. CASE LoopRuns
      BY <2>4 DEF LoopRuns
    <2>5. CASE MachineRuns \/ ThingConnects \/ AppRuns \/ Wifi
      BY <2>5 DEF MachineRuns, ThingConnects, AppRuns, Wifi, Next, App, Run
    <2> QED BY <2>1, <2>2, <2>3, <2>4, <2>5 DEF SysNext
  <1> QED BY <1>1, <1>2, PTL DEF SysSpec, Spec

(* Every behaviour of the agent is one of its command path.                *)
THEOREM CommandHalf == SysSpec => Cmd!Spec
  <1>1. SysInit => Cmd!Init
    BY DEF SysInit
  <1>2. [SysNext]_sysVars => [Cmd!Next]_Cmd!vars
    <2>1. UNCHANGED cmdVars => UNCHANGED Cmd!vars
      BY DEF cmdVars, Cmd!vars
    <2> SUFFICES ASSUME SysNext PROVE [Cmd!Next]_Cmd!vars
      BY <2>1 DEF sysVars
    <2>2. CASE StartSystem \/ EnterLoop \/ LeaveLoop
      BY <2>2 DEF StartSystem, EnterLoop, LeaveLoop, Cmd!Next, Cmd!Agent
    <2>3. CASE \E s \in Cmd!Slots : AckArrives(s)
      BY <2>3 DEF AckArrives, Cmd!Next
    <2>4. CASE \E t \in Tasks : CallerRuns(t) \/ NewCall(t)
      BY <2>4 DEF CallerRuns, NewCall, Cmd!Next
    <2>5. CASE LoopRuns
      BY <2>5 DEF LoopRuns, Cmd!Next, Cmd!Agent
    <2>6. CASE MachineRuns \/ ThingConnects \/ AppRuns \/ Wifi
      BY <2>1, <2>6 DEF MachineRuns, ThingConnects, AppRuns, Wifi
    <2> QED BY <2>2, <2>3, <2>4, <2>5, <2>6 DEF SysNext
  <1> QED BY <1>1, <1>2, PTL DEF SysSpec, Cmd!Spec

-----------------------------------------------------------------------------
(* The half of OneTask that is inductive with the types.                   *)
InStep ==
  /\ worker = "down" <=> pc.agent = "down"
  /\ worker \in {"recv", "exec", "notify", "release", "process"} <=> pc.agent = "commandLoop"
  /\ live # {} => pc.agent = "commandLoop"

(* The steps of the state machine alone neither start nor end the agent    *)
(* task or its command loop.                                               *)
LEMMA MachineStaysOut ==
  ASSUME TypeOK, RunOffline \/ AppInCall \/ Connect \/ WifiLost \/ WifiJoined
  PROVE  /\ pc'.agent = "down" <=> pc.agent = "down"
         /\ pc'.agent = "commandLoop" <=> pc.agent = "commandLoop"
  <1> USE DEF TypeOK, Threads, GoTo, SetConnState, SetConnStateReturns, LoopIn
  <1>1. CASE WriteState("agent") \/ Observe("agent") \/ CheckRecon("agent")
    BY <1>1 DEF WriteState, Observe, CheckRecon
  <1>2. CASE LoopTCPReq \/ NoSocket \/ OpenSocket \/ TCPConnects \/ TCPConnFails
    BY <1>2 DEF LoopTCPReq, NoSocket, OpenSocket, TCPConnects, TCPConnFails
  <1>3. CASE LoopTCPConned \/ MQTTConnects \/ MQTTConnectFails \/ LoopMQTTReq \/ LoopMQTTConned
    BY <1>3 DEF LoopTCPConned, MQTTConnects, MQTTConnectFails, LoopMQTTReq, LoopMQTTConned
  <1>4. CASE LoopMQTTRecon \/ ReconDelayEnds
    BY <1>4 DEF LoopMQTTRecon, ReconDelayEnds
  <1>5. CASE AppInCall \/ Connect
    BY <1>5 DEF AppInCall, WriteState, Observe, CheckRecon, CloseClearsRecon, StopCloses, Connect
  <1>6. CASE WifiLost \/ WifiJoined
    BY <1>6 DEF WifiLost, WifiJoined
  <1> QED BY <1>1, <1>2, <1>3, <1>4, <1>5, <1>6 DEF RunOffline

(* A caller's step leaves the agent task where it is.                      *)
LEMMA CallersStayOut ==
  ASSUME NEW t \in Tasks, CallerRuns(t) \/ NewCall(t)
  PROVE  UNCHANGED <<worker, live, pc>>
  BY DEF CallerRuns, NewCall, vars, Cmd!Caller, Cmd!Call, Cmd!CallBeforeStart, Cmd!GetCommand,
         Cmd!GetCommandTimesOut, Cmd!Enqueue, Cmd!EnqueueTimesOut, Cmd!Return, Cmd!agentVars

(* A round of the command loop stays in the loop.                          *)
LEMMA LoopStaysIn ==
  ASSUME LoopRuns \/ \E s \in Cmd!Slots : AckArrives(s)
  PROVE  /\ worker  \in {"recv", "exec", "notify", "release", "process"}
         /\ worker' \in {"recv", "exec", "notify", "release", "process"}
         /\ pc' = pc
  <1>1. CASE LoopRuns
    BY <1>1 DEF LoopRuns, vars, Cmd!Receive, Cmd!ReceiveTimesOut, Cmd!ExecAwaitsAck,
                Cmd!ExecCompletes, Cmd!ExecFails, Cmd!Notify, Cmd!Release, Cmd!ProcessDone
  <1>2. CASE \E s \in Cmd!Slots : AckArrives(s)
    BY <1>2 DEF AckArrives, vars, Cmd!Ack
  <1> QED BY <1>1, <1>2

(* The halves stay in step.                                                *)
LEMMA NextInStep == TypeOK /\ InStep /\ [SysNext]_sysVars => InStep'
  <1> SUFFICES ASSUME TypeOK, InStep, [SysNext]_sysVars PROVE InStep'
    OBVIOUS
  <1>1. CASE UNCHANGED sysVars
    BY <1>1 DEF sysVars, vars, cmdVars, InStep
  <1>2. CASE StartSystem
    <2>1. worker' = "offline" /\ live' = live
      BY <1>2 DEF StartSystem, Cmd!StartAgent
    <2>2. pc.agent = "down" /\ pc'.agent = "loop"
      BY <1>2 DEF StartSystem, Start, GoTo, TypeOK, Threads
    <2> QED BY <2>1, <2>2 DEF InStep
  <1>3. CASE EnterLoop
    <2>1. worker' = "recv" /\ live' = live
      BY <1>3 DEF EnterLoop, Cmd!Connect
    <2>2. pc'.agent = "commandLoop"
      BY <1>3 DEF EnterLoop, LoopOnline, GoTo, TypeOK, Threads
    <2> QED BY <2>1, <2>2 DEF InStep
  <1>4. CASE LeaveLoop
    <2>1. worker' = "offline" /\ live' = {}
      BY <1>4 DEF LeaveLoop, Cmd!ProcessFails, Cmd!Release, Cmd!EndSession
    <2>2. pc'.agent = "setState"
      BY <1>4 DEF LeaveLoop, CommandLoopFails, SetConnState, GoTo, TypeOK, Threads
    <2> QED BY <2>1, <2>2 DEF InStep
  <1>5. CASE LoopRuns \/ \E s \in Cmd!Slots : AckArrives(s)
    BY <1>5, LoopStaysIn DEF InStep
  <1>6. CASE \E t \in Tasks : CallerRuns(t) \/ NewCall(t)
    BY <1>6, CallersStayOut DEF InStep
  <1>7. CASE MachineRuns \/ ThingConnects \/ AppRuns \/ Wifi
    <2>1. UNCHANGED <<worker, live>>
      BY <1>7 DEF MachineRuns, ThingConnects, AppRuns, Wifi, cmdVars
    <2>2. RunOffline \/ AppInCall \/ Connect \/ WifiLost \/ WifiJoined
      BY <1>7 DEF MachineRuns, ThingConnects, AppRuns, Wifi
    <2> QED BY <2>1, <2>2, MachineStaysOut DEF InStep
  <1> QED BY <1>1, <1>2, <1>3, <1>4, <1>5, <1>6, <1>7 DEF SysNext

(* Commands are worked on in case Online and nowhere else, and only the    *)
(* session that stands now owes acknowledgements: OneTask, for any number  *)
(* of callers, structures, queue places and sockets.                       *)
THEOREM HalvesAreOneTask ==
  ASSUME UsedAsByThing
  PROVE  SysSpec => []OneTask
  <1>1. SysInit => InStep
    BY DEF SysInit, Init, Cmd!Init, InStep
  <1>2. SysSpec => []InStep
    BY <1>1, NextInStep, MachineHalf, TypeCorrect, PTL DEF SysSpec
  <1>3. InStep /\ SessionStands => OneTask
    BY DEF InStep, SessionStands, OneTask
  <1> QED BY <1>2, <1>3, MachineHalf, SessionOnOpenSocket, PTL

-----------------------------------------------------------------------------
(* What is proved of the command path alone, for the agent as a whole.     *)

(* P!X and Cmd!X are the same formula.                                     *)
LEMMA SameOperators ==
  /\ Cmd!Slots = P!Slots /\ Cmd!vars = P!vars /\ Cmd!Working = P!Working
  /\ Cmd!Outstanding = P!Outstanding /\ Cmd!Held = P!Held
  /\ Cmd!Statuses = P!Statuses /\ Cmd!Commands = P!Commands /\ Cmd!AgentStates = P!AgentStates
  /\ Cmd!Operations = P!Operations
  BY DEF Cmd!Slots, P!Slots, Cmd!vars, P!vars, Cmd!Working, P!Working, Cmd!Outstanding,
         P!Outstanding, Cmd!Elems, P!Elems, Cmd!Held, P!Held, Cmd!Statuses, P!Statuses,
         Cmd!Commands, P!Commands, Cmd!AgentStates, P!AgentStates, Cmd!Operations, P!Operations

(* So are the initial states ...                                           *)
LEMMA SameInit == Cmd!Init <=> P!Init
  BY DEF Cmd!Init, P!Init, Cmd!PoolInit, P!PoolInit, Cmd!Slots, P!Slots

(* ... the steps of a caller ...                                           *)
LEMMA SameCaller == ASSUME NEW t \in Tasks PROVE Cmd!Caller(t) <=> P!Caller(t)
  <1> USE DEF Cmd!Slots, P!Slots, Cmd!poolVars, P!poolVars, Cmd!commandVars, P!commandVars,
              Cmd!agentVars, P!agentVars, Cmd!IsEmpty, P!IsEmpty, Cmd!HasRoom, P!HasRoom
  <1>1. Cmd!Refused(t) <=> P!Refused(t)
    BY DEF Cmd!Refused, P!Refused, Cmd!ChecksStatus, P!ChecksStatus
  <1>2. Cmd!CallBeforeStart(t) <=> P!CallBeforeStart(t)
    BY <1>1 DEF Cmd!CallBeforeStart, P!CallBeforeStart
  <1>3. Cmd!GetCommand(t) <=> P!GetCommand(t)
    BY DEF Cmd!GetCommand, P!GetCommand, Cmd!GetSlot, P!GetSlot
  <1>4. Cmd!GetCommandTimesOut(t) <=> P!GetCommandTimesOut(t)
    BY <1>1 DEF Cmd!GetCommandTimesOut, P!GetCommandTimesOut, Cmd!GetSlotTimesOut, P!GetSlotTimesOut
  <1>5. Cmd!Enqueue(t) <=> P!Enqueue(t)
    BY DEF Cmd!Enqueue, P!Enqueue
  <1>6. Cmd!EnqueueTimesOut(t) <=> P!EnqueueTimesOut(t)
    BY <1>1 DEF Cmd!EnqueueTimesOut, P!EnqueueTimesOut, Cmd!ReleaseSlot, P!ReleaseSlot
  <1>7. Cmd!Return(t) <=> P!Return(t)
    BY DEF Cmd!Return, P!Return, Cmd!Succeeded, P!Succeeded
  <1> QED BY <1>2, <1>3, <1>4, <1>5, <1>6, <1>7 DEF Cmd!Caller, P!Caller

(* ... the steps of the agent task ...                                     *)
LEMMA SameAgentSteps ==
  /\ Cmd!Connect <=> P!Connect
  /\ Cmd!Receive <=> P!Receive
  /\ Cmd!ReceiveTimesOut <=> P!ReceiveTimesOut
  /\ Cmd!ExecAwaitsAck <=> P!ExecAwaitsAck
  /\ Cmd!ExecCompletes <=> P!ExecCompletes
  /\ Cmd!ExecFails <=> P!ExecFails
  /\ Cmd!Notify <=> P!Notify
  /\ Cmd!Release <=> P!Release
  /\ Cmd!ProcessDone <=> P!ProcessDone
  /\ Cmd!ProcessFails <=> P!ProcessFails
  <1> USE DEF Cmd!Slots, P!Slots, Cmd!poolVars, P!poolVars, Cmd!commandVars, P!commandVars,
              Cmd!callerVars, P!callerVars, Cmd!IsEmpty, P!IsEmpty, Cmd!HasRoom, P!HasRoom,
              Cmd!EndSession, P!EndSession
  <1>1. /\ Cmd!Connect <=> P!Connect
        /\ Cmd!Receive <=> P!Receive
        /\ Cmd!ReceiveTimesOut <=> P!ReceiveTimesOut
    BY DEF Cmd!Connect, P!Connect, Cmd!Receive, P!Receive, Cmd!ReceiveTimesOut, P!ReceiveTimesOut
  <1>2. /\ Cmd!ExecAwaitsAck <=> P!ExecAwaitsAck
        /\ Cmd!ExecCompletes <=> P!ExecCompletes
        /\ Cmd!ExecFails <=> P!ExecFails
    BY DEF Cmd!ExecAwaitsAck, P!ExecAwaitsAck, Cmd!ExecCompletes, P!ExecCompletes,
           Cmd!ExecFails, P!ExecFails, Cmd!NeedsAck, P!NeedsAck
  <1>3. Cmd!Notify <=> P!Notify
    BY DEF Cmd!Notify, P!Notify
  <1>4. Cmd!Release <=> P!Release
    BY DEF Cmd!Release, P!Release, Cmd!ReleaseSlot, P!ReleaseSlot
  <1>5. (Cmd!ProcessDone <=> P!ProcessDone) /\ (Cmd!ProcessFails <=> P!ProcessFails)
    BY DEF Cmd!ProcessDone, P!ProcessDone, Cmd!ProcessFails, P!ProcessFails
  <1> QED BY <1>1, <1>2, <1>3, <1>4, <1>5

LEMMA SameAgent == Cmd!Agent <=> P!Agent
  BY SameAgentSteps DEF Cmd!Agent, P!Agent

(* ... a start, a call and an acknowledgement ...                          *)
LEMMA SameStart == Cmd!StartAgent <=> P!StartAgent
  <1>1. Cmd!InitializePool <=> P!InitializePool
    BY DEF Cmd!InitializePool, P!InitializePool, Cmd!poolVars, P!poolVars
  <1> QED BY <1>1, SameOperators DEF Cmd!StartAgent, P!StartAgent, Cmd!Drop, P!Drop,
             Cmd!Elems, P!Elems, Cmd!callerVars, P!callerVars

LEMMA SameCall == \A t \in Tasks, o \in Ops : Cmd!Call(t, o) <=> P!Call(t, o)
  BY DEF Cmd!Call, P!Call, Cmd!poolVars, P!poolVars, Cmd!commandVars, P!commandVars,
         Cmd!agentVars, P!agentVars

LEMMA SameAck == \A s \in Cmd!Slots : Cmd!Ack(s) <=> P!Ack(s)
  BY DEF Cmd!Ack, P!Ack, Cmd!Answers, P!Answers, Cmd!Succeeded, P!Succeeded,
         Cmd!poolVars, P!poolVars, Cmd!commandVars, P!commandVars

(* ... and the specifications.                                             *)
LEMMA SameSpec == Cmd!Spec => P!Spec
  <1>1. Cmd!Next => P!Next
    <2>1. Cmd!StopAgent <=> P!StopAgent
      BY SameOperators DEF Cmd!StopAgent, P!StopAgent, Cmd!Drop, P!Drop,
         Cmd!poolVars, P!poolVars, Cmd!callerVars, P!callerVars
    <2> QED BY <2>1, SameOperators, SameStart, SameCall, SameAck, SameCaller, SameAgent
            DEF Cmd!Next, P!Next
  <1>2. [Cmd!Next]_Cmd!vars => [P!Next]_P!vars
    BY <1>1 DEF Cmd!vars, P!vars
  <1> QED BY <1>2, SameInit, PTL DEF Cmd!Spec, P!Spec

(* The assumptions of AgentCommands hold.                                  *)
LEMMA SameAssumptions ==
  /\ PoolSize \in Nat \ {0} /\ QueueLength \in Nat \ {0}
  /\ NULL \notin P!Slots /\ NULL \notin Tasks
  /\ Ops \subseteq P!Operations
  /\ NULL \notin P!Operations \cup P!Statuses
  BY CommandsAssumption, SameOperators

(* Every variable of the agent keeps its type.                             *)
THEOREM SystemTypeCorrect == SysSpec => []SysTypeOK
  <1>1. P!Spec => []P!TypeOK
    BY P!TypeCorrect, SameAssumptions
  <1>2. TypeOK /\ P!TypeOK => SysTypeOK
    BY SameOperators DEF SysTypeOK, Cmd!TypeOK, P!TypeOK
  <1> QED BY <1>1, <1>2, CommandHalf, SameSpec, MachineHalf, TypeCorrect, PTL

(* Through any number of outages structures are in one place each, no      *)
(* callback runs on a dead frame, a call returns what became of it, and a  *)
(* release finds room.                                                     *)
THEOREM SystemCommandsSafe ==
  SysSpec => [](/\ Cmd!SlotsConserved /\ Cmd!NoDanglingContext
                /\ Cmd!ResultTruthful /\ Cmd!ReleaseHasRoom)
  <1>1. P!Spec => []P!SlotsConserved
    BY P!SlotsAreConserved, SameAssumptions
  <1>2. P!Spec => []P!NoDanglingContext
    BY P!ContextsNeverDangle, SameAssumptions
  <1>3. P!Spec => []P!ResultTruthful
    BY P!ResultsAreTruthful, SameAssumptions
  <1>4. P!Spec => []P!ReleaseHasRoom
    BY P!ReleaseAlwaysHasRoom, SameAssumptions
  <1>5. /\ P!SlotsConserved => Cmd!SlotsConserved
        /\ P!NoDanglingContext => Cmd!NoDanglingContext
        /\ P!ResultTruthful => Cmd!ResultTruthful
        /\ P!ReleaseHasRoom => Cmd!ReleaseHasRoom
    <2>1. P!SlotsConserved => Cmd!SlotsConserved
      BY SameOperators DEF P!SlotsConserved, Cmd!SlotsConserved, P!NoDuplicates,
         Cmd!NoDuplicates, P!Elems, Cmd!Elems
    <2>2. P!NoDanglingContext => Cmd!NoDanglingContext
      BY SameOperators DEF P!NoDanglingContext, Cmd!NoDanglingContext
    <2>3. P!ResultTruthful => Cmd!ResultTruthful
      BY DEF P!ResultTruthful, Cmd!ResultTruthful
    <2>4. P!ReleaseHasRoom => Cmd!ReleaseHasRoom
      BY DEF P!ReleaseHasRoom, Cmd!ReleaseHasRoom, P!HasRoom, Cmd!HasRoom
    <2> QED BY <2>1, <2>2, <2>3, <2>4
  <1> QED BY <1>1, <1>2, <1>3, <1>4, <1>5, CommandHalf, SameSpec, PTL

-----------------------------------------------------------------------------
(* What is proved of the state machine alone.                              *)

(* The session is on an open socket, sockets are lost only by a            *)
(* reconnection without wifi, and sessions are announced and their loss    *)
(* told in order, with commands on the way at any time.                    *)
THEOREM SystemConnectionSafe ==
  ASSUME UsedAsByThing
  PROVE  SysSpec => [](SessionStands /\ NoSocketLeak) /\ AnnouncesConnection
  BY MachineHalf, SessionOnOpenSocket, SocketKept, ConnectionAnnounced, PTL

(* Each call returns true if and only if its work was done, once, through  *)
(* any number of outages.                                                  *)
THEOREM SystemKeepsContract == SysSpec => Cmd!ImplementsContract
  <1>1. P!Spec => P!ImplementsContract
    BY P!Implementation, SameAssumptions
  <1>2. Cmd!callStatus = P!callStatus /\ Cmd!callStatus' = P!callStatus'
    BY DEF Cmd!callStatus, P!callStatus
  <1>3. P!Contract!Init => Cmd!Contract!Init
    BY <1>2 DEF P!Contract!Init, Cmd!Contract!Init
  <1>4. [P!Contract!Next]_P!Contract!vars => [Cmd!Contract!Next]_Cmd!Contract!vars
    BY <1>2 DEF P!Contract!Next, Cmd!Contract!Next, P!Contract!vars, Cmd!Contract!vars,
       P!Contract!Begin, Cmd!Contract!Begin, P!Contract!Done, Cmd!Contract!Done,
       P!Contract!Return, Cmd!Contract!Return
  <1> QED BY <1>1, <1>3, <1>4, CommandHalf, SameSpec, PTL
          DEF P!ImplementsContract, Cmd!ImplementsContract, P!Contract!Spec, Cmd!Contract!Spec

-----------------------------------------------------------------------------
(* The thing never stops the agent, so no command and no structure is ever *)
(* dropped, and with fewer tasks than structures none is refused.          *)
NothingDropped == lost = {} /\ abandoned = {} /\ worker # "stopped"

LEMMA StepDropsNothing == P!Inv /\ NothingDropped /\ [SysNext]_sysVars => NothingDropped'
  <1> SUFFICES ASSUME P!Inv, NothingDropped, [SysNext]_sysVars PROVE NothingDropped'
    OBVIOUS
  <1> USE DEF NothingDropped
  <1>1. CASE StartSystem
    <2>1. P!Elems(queue) \cup acks = {}
      <3>1. queue = <<>> /\ acks = {}
        BY <1>1 DEF StartSystem, Cmd!StartAgent, P!Inv, P!Bookkeeping
      <3> QED BY <3>1 DEF P!Elems
    <2>2. /\ lost' = lost \cup (P!Elems(queue) \cup acks)
          /\ abandoned' = abandoned \cup
                            {cmd[s].owner : s \in (P!Elems(queue) \cup acks) \cap P!Outstanding}
          /\ worker' = "offline"
      BY <1>1, SameStart DEF StartSystem, P!StartAgent, P!Drop
    <2> QED BY <2>1, <2>2
  <1>2. CASE EnterLoop \/ LeaveLoop
    BY <1>2 DEF EnterLoop, LeaveLoop, Cmd!Connect, Cmd!ProcessFails, Cmd!Release, Cmd!EndSession,
                Cmd!commandVars
  <1>3. CASE LoopRuns
    BY <1>3, LoopStaysIn
       DEF LoopRuns, Cmd!Receive, Cmd!ReceiveTimesOut, Cmd!ExecAwaitsAck, Cmd!ExecCompletes,
           Cmd!ExecFails, Cmd!Notify, Cmd!Release, Cmd!ProcessDone, Cmd!commandVars
  <1>4. CASE \E s \in Cmd!Slots : AckArrives(s)
    BY <1>4, LoopStaysIn DEF AckArrives, Cmd!Ack, Cmd!commandVars
  <1>5. CASE \E t \in Tasks : CallerRuns(t) \/ NewCall(t)
    BY <1>5, CallersStayOut
       DEF CallerRuns, NewCall, Cmd!Caller, Cmd!Call, Cmd!CallBeforeStart, Cmd!GetCommand,
           Cmd!GetCommandTimesOut, Cmd!Enqueue, Cmd!EnqueueTimesOut, Cmd!Return, Cmd!commandVars
  <1>6. CASE MachineRuns \/ ThingConnects \/ AppRuns \/ Wifi \/ UNCHANGED sysVars
    BY <1>6 DEF MachineRuns, ThingConnects, AppRuns, Wifi, cmdVars, sysVars
  <1> QED BY <1>1, <1>2, <1>3, <1>4, <1>5, <1>6 DEF SysNext

(* No structure is dropped, no caller abandoned, and a publish waits only  *)
(* with a notification or a command of its own on the way.                 *)
THEOREM SystemDropsNothing ==
  SysSpec => [](/\ lost = {} /\ abandoned = {}
                /\ Cmd!PublishWaitsForCommand)
  <1>1. SysInit => NothingDropped
    BY DEF SysInit, Cmd!Init, NothingDropped
  <1>2. P!Spec => []P!Inv /\ []P!PublishWaitsForCommand
    BY P!Invariance, P!PublishNeverWaitsAlone, SameAssumptions, PTL
  <1>3. P!PublishWaitsForCommand => Cmd!PublishWaitsForCommand
    BY SameOperators DEF P!PublishWaitsForCommand, Cmd!PublishWaitsForCommand, P!HasCommand,
       Cmd!HasCommand
  <1>4. NothingDropped => lost = {} /\ abandoned = {}
    BY DEF NothingDropped
  <1> QED BY <1>1, <1>2, <1>3, <1>4, StepDropsNothing, CommandHalf, SameSpec, PTL DEF SysSpec

(* What MqttThing assumes: with fewer tasks than structures, and a queue   *)
(* that holds every structure, no call is refused by a started agent,      *)
(* however often the session is lost and whatever it still owed.           *)
THEOREM SystemRefusesNobody ==
  ASSUME IsFiniteSet(Tasks), Cardinality(Tasks) < PoolSize, PoolSize <= QueueLength
  PROVE  SysSpec => [][\A t \in Tasks :
                         worker # "down" => /\ ~Cmd!GetCommandTimesOut(t)
                                            /\ ~Cmd!EnqueueTimesOut(t)]_sysVars
  <1>1. IsFiniteSet(Tasks) = P!IsFiniteSet(Tasks)
    BY DEF IsFiniteSet, P!IsFiniteSet
  <1>2. Cardinality(Tasks) = P!Cardinality(Tasks)
    BY DEF Cardinality, P!Cardinality
  <1>3. P!Spec => [](\A t \in Tasks :
                       calls[t] = "get" /\ worker # "down" /\ lost = {} => ~P!IsEmpty(pool))
    BY <1>1, <1>2, P!FewCallersGetStructures, SameAssumptions
  <1>4. P!Spec => []P!QueueNeverFull
    BY P!QueueIsNeverFull, SameAssumptions
  <1> DEFINE Structures == \A t \in Tasks :
                             calls[t] = "get" /\ worker # "down" /\ lost = {} => ~P!IsEmpty(pool)
             NoRefusal == \A t \in Tasks : worker # "down" => /\ ~Cmd!GetCommandTimesOut(t)
                                                              /\ ~Cmd!EnqueueTimesOut(t)
  <1>5. Structures /\ P!QueueNeverFull /\ lost = {} => NoRefusal
    BY DEF P!QueueNeverFull, P!IsEmpty, P!HasRoom, Cmd!GetCommandTimesOut, Cmd!GetSlotTimesOut,
           Cmd!IsEmpty, Cmd!EnqueueTimesOut, Cmd!HasRoom
  <1> HIDE DEF Structures, NoRefusal
  <1>6. P!Spec => []Structures
    BY <1>3 DEF Structures
  <1>7. SysSpec => [][NoRefusal]_sysVars
    BY <1>4, <1>5, <1>6, SystemDropsNothing, CommandHalf, SameSpec, PTL
  <1> QED BY <1>7 DEF NoRefusal

-----------------------------------------------------------------------------
(* The agent implements AgentService.                                      *)

(* What is proved of the halves, together.                                 *)
SysInv == SessionInv /\ InStep /\ P!Inv

LEMMA SysInvariance ==
  ASSUME UsedAsByThing
  PROVE  SysSpec => []SysInv
  <1>1. SysInit => InStep
    BY DEF SysInit, Init, Cmd!Init, InStep
  <1>2. P!Spec => []P!Inv
    BY P!Invariance, SameAssumptions
  <1> QED BY <1>1, <1>2, NextInStep, MachineHalf, CommandHalf, SameSpec, TypeCorrect,
             SessionInvariance, PTL DEF SysSpec, SysInv

(* The state of a command is the same formula, too.                        *)
LEMMA SameCommandState ==
  /\ Cmd!commandState = P!commandState
  /\ Cmd!commandState' = P!commandState'
  BY DEF Cmd!commandState, P!commandState, Cmd!Owners, P!Owners, Cmd!InWork, P!InWork,
         Cmd!Elems, P!Elems

(* The link, as long as no command ends it.                                *)
machineLink ==
  IF xConnState # "Online" \/ pc.agent = "setState" THEN "down"
  ELSE IF pc.agent = "observe" THEN "announcing" ELSE "up"

(* The state machine brings a session up and announces it; only the end of *)
(* its command loop takes one down.                                        *)
LEMMA MachineLink ==
  ASSUME UsedAsByThing, SessionInv,
         RunOffline \/ AppInCall \/ Connect \/ Start \/ WifiLost \/ WifiJoined
  PROVE  \/ UNCHANGED machineLink
         \/ pc.agent # "down" /\ machineLink = "down" /\ machineLink' = "announcing"
         \/ machineLink = "announcing" /\ machineLink' = "up"
  <1> USE DEF SessionInv, Inv, TypeOK, Threads, OneWriter, InOrder, GoTo, SetConnState,
              SetConnStateReturns, LoopIn, machineLink
  <1>1. CASE WriteState("agent")
    BY <1>1 DEF WriteState
  <1>2. CASE Observe("agent")
    BY <1>2 DEF Observe
  <1>3. CASE CheckRecon("agent")
    BY <1>3 DEF CheckRecon
  <1>4. CASE LoopTCPReq \/ NoSocket \/ OpenSocket \/ TCPConnects \/ TCPConnFails
    BY <1>4 DEF LoopTCPReq, NoSocket, OpenSocket, TCPConnects, TCPConnFails
  <1>5. CASE LoopTCPConned \/ MQTTConnects \/ MQTTConnectFails \/ LoopMQTTReq \/ LoopMQTTConned
    BY <1>5 DEF LoopTCPConned, MQTTConnects, MQTTConnectFails, LoopMQTTReq, LoopMQTTConned
  <1>6. CASE LoopMQTTRecon \/ ReconDelayEnds
    BY <1>6 DEF LoopMQTTRecon, ReconDelayEnds
  <1>7. CASE AppInCall
    <2>1. pc.agent = "down" /\ xConnState \in {"Offline", "TCPReq"}
      BY <1>7 DEF AppInCall, WriteState, Observe, CheckRecon, CloseClearsRecon, StopCloses
    <2>2. xConnState' # "Online"
      BY <1>7, <2>1 DEF AppInCall, WriteState, Observe, CheckRecon, CloseClearsRecon, StopCloses
    <2> QED BY <2>1, <2>2
  <1>8. CASE Connect \/ Start
    BY <1>8 DEF Connect, Start, AppIdle, UsedAsByThing
  <1>9. CASE WifiLost \/ WifiJoined
    BY <1>9 DEF WifiLost, WifiJoined
  <1> QED BY <1>1, <1>2, <1>3, <1>4, <1>5, <1>6, <1>7, <1>8, <1>9 DEF RunOffline

(* The session of the callers ends earlier than the machine notices.       *)
LEMMA LinkOfMachine ==
  ASSUME SysInv
  PROVE  /\ sessionLink = IF ends THEN "down" ELSE machineLink
         /\ ends => machineLink = "up"
         /\ pc.agent = "commandLoop" => machineLink = "up"
         /\ worker = "down" <=> pc.agent = "down"
  <1>1. pc.agent = "commandLoop" => machineLink = "up"
    BY DEF SysInv, SessionInv, InOrder, machineLink
  <1>2. ends => pc.agent = "commandLoop"
    BY DEF SysInv, InStep, P!Inv, P!Bookkeeping
  <1>3. sessionLink = IF ends THEN "down" ELSE machineLink
    BY DEF sessionLink, machineLink
  <1> QED BY <1>1, <1>2, <1>3 DEF SysInv, InStep

(* A step of the state machine alone.                                      *)
LEMMA MachineProvides ==
  ASSUME UsedAsByThing, SysInv, UNCHANGED cmdVars,
         RunOffline \/ AppInCall \/ Connect \/ WifiLost \/ WifiJoined
  PROVE  [Service!Next]_Service!vars
  <1>1. UNCHANGED <<worker, ends, op, Cmd!commandState>>
    BY DEF cmdVars, Cmd!commandState, Cmd!Owners, Cmd!InWork, Cmd!Elems
  <1>2. sessionLink' = IF ends THEN "down" ELSE machineLink'
    BY <1>1 DEF sessionLink, machineLink
  <1>3. CASE UNCHANGED machineLink
    <2>1. sessionLink' = sessionLink
      BY <1>2, <1>3, LinkOfMachine
    <2> QED BY <1>1, <2>1 DEF Service!vars
  <1>4. CASE pc.agent # "down" /\ machineLink = "down" /\ machineLink' = "announcing"
    <2>1. worker # "down" /\ sessionLink = "down" /\ sessionLink' = "announcing"
      BY <1>2, <1>4, LinkOfMachine
    <2>2. Service!SessionUp
      BY <1>1, <2>1 DEF Service!SessionUp
    <2> QED BY <2>2 DEF Service!Next
  <1>5. CASE machineLink = "announcing" /\ machineLink' = "up"
    <2>1. sessionLink = "announcing" /\ sessionLink' = "up"
      BY <1>2, <1>5, LinkOfMachine
    <2>2. Service!Announce
      BY <1>1, <2>1 DEF Service!Announce
    <2> QED BY <2>2 DEF Service!Next
  <1> QED BY <1>3, <1>4, <1>5, MachineLink DEF SysInv

(* Start, and the steps into and out of the command loop.                  *)
LEMMA JointProvides ==
  ASSUME UsedAsByThing, SysInv, StartSystem \/ EnterLoop \/ LeaveLoop
  PROVE  [Service!Next]_Service!vars
  <1> USE SameCommandState, SameAssumptions DEF SysInv
  <1>1. CASE StartSystem
    <2>1. worker = "down" /\ worker' = "offline" /\ P!StartAgent
      <3>1. pc.agent = "down" /\ Cmd!StartAgent
        BY <1>1 DEF StartSystem, Start
      <3> QED BY <3>1, SameStart, LinkOfMachine DEF Cmd!StartAgent
    <2>2. UNCHANGED <<Cmd!commandState, op>>
      BY <2>1, P!FirstStartKeepsStates DEF P!Stays
    <2>3. sessionLink' = sessionLink
      BY <1>1, <2>1 DEF StartSystem, Start, Cmd!StartAgent, sessionLink, GoTo, SessionInv,
                        OneWriter, Inv, TypeOK, Threads
    <2>4. Service!Start
      BY <2>1, <2>2, <2>3 DEF Service!Start
    <2> QED BY <2>4 DEF Service!Next
  <1>2. CASE EnterLoop
    <2>1. worker = "offline" /\ worker' = "recv" /\ UNCHANGED ends /\ P!Connect
      BY <1>2, SameAgentSteps DEF EnterLoop, Cmd!Connect
    <2>2. UNCHANGED <<Cmd!commandState, op>>
      BY <2>1, P!AgentKeepsStates DEF P!Stays
    <2>3. sessionLink' = sessionLink
      BY <1>2, <2>1 DEF EnterLoop, LoopOnline, LoopIn, sessionLink, GoTo, SessionInv,
                        Inv, TypeOK, Threads
    <2> QED BY <2>1, <2>2, <2>3 DEF Service!vars
  <1>3. CASE LeaveLoop
    <2>1. /\ machineLink = "up" /\ sessionLink' = "down"
          /\ worker # "down" /\ worker' = "offline"
      BY <1>3, LinkOfMachine
         DEF LeaveLoop, CommandLoopFails, SetConnState, GoTo, sessionLink, SessionInv, Inv, TypeOK,
             Threads, Cmd!ProcessFails, Cmd!Release, Cmd!EndSession
    <2>2. CASE Cmd!ProcessFails
      <3>1. ~ends
        BY <2>2 DEF Cmd!ProcessFails, P!Inv, P!Bookkeeping
      <3>2. P!SessionTaken({})
        BY <2>2, SameAgentSteps, P!ProcessFailsChanges
      <3>3. Service!SessionLost
        BY <2>1, <3>1, <3>2, LinkOfMachine
           DEF P!SessionTaken, Service!SessionLost, Service!SessionEnds
      <3> QED BY <3>3 DEF Service!Next
    <2>3. CASE ends /\ Cmd!Release
      <3>1. UNCHANGED <<Cmd!commandState, op>>
        BY <2>3, SameAgentSteps, P!AgentKeepsStates DEF P!Stays
      <3> QED BY <2>1, <2>3, <3>1, LinkOfMachine DEF Service!vars
    <2> QED BY <1>3, <2>2, <2>3 DEF LeaveLoop
  <1> QED BY <1>1, <1>2, <1>3

(* A step of the command path alone.                                       *)
LEMMA CommandsProvide ==
  ASSUME UsedAsByThing, SysInv,
         \/ \E s \in Cmd!Slots : AckArrives(s)
         \/ \E t \in Tasks : CallerRuns(t) \/ NewCall(t)
         \/ LoopRuns
  PROVE  [Service!Next]_Service!vars
  <1> USE SameCommandState, SameAssumptions DEF SysInv
  <1>0. UNCHANGED <<xConnState, pc>>
    BY DEF AckArrives, CallerRuns, NewCall, LoopRuns, vars
  <1>1. ASSUME NEW s \in Cmd!Slots, AckArrives(s) PROVE [Service!Next]_Service!vars
    <2>1. /\ worker = "process" /\ worker' = "notify" /\ ends' = FALSE /\ P!Ack(s)
          /\ s \in P!Slots
      BY <1>1, SameAck, SameOperators DEF AckArrives, Cmd!Ack
    <2>2. PICK t \in Tasks : P!Moves(t, "sent", "done")
      BY <2>1, P!AckChanges
    <2>3. ~ends /\ sessionLink = "up" /\ sessionLink' = "up"
      BY <1>0, <2>1, LinkOfMachine DEF P!Inv, P!Bookkeeping, InStep, sessionLink, machineLink
    <2>4. Service!Acknowledge(t)
      BY <2>1, <2>2, <2>3 DEF P!Moves, Service!Acknowledge, Service!Becomes
    <2> QED BY <2>4 DEF Service!Next
  <1>2. ASSUME NEW t \in Tasks, CallerRuns(t) PROVE [Service!Next]_Service!vars
    <2>1. UNCHANGED <<worker, ends, sessionLink>> /\ P!Caller(t)
      BY <1>0, <1>2, SameCaller
         DEF CallerRuns, sessionLink, Cmd!Caller, Cmd!CallBeforeStart, Cmd!GetCommand,
             Cmd!GetCommandTimesOut, Cmd!Enqueue, Cmd!EnqueueTimesOut, Cmd!Return, Cmd!agentVars
    <2>2. CASE P!Stays
      BY <2>1, <2>2 DEF P!Stays, Service!vars
    <2>3. CASE P!Moves(t, "none", "queued") /\ worker # "down"
      <3>1. Service!Send(t)
        BY <2>1, <2>3 DEF P!Moves, Service!Send, Service!Becomes
      <3> QED BY <3>1 DEF Service!Next
    <2>4. CASE P!Moves(t, "done", "none")
      <3>1. Service!Return(t)
        BY <2>1, <2>4 DEF P!Moves, Service!Return, Service!Becomes
      <3> QED BY <3>1 DEF Service!Next
    <2> QED BY <2>1, <2>2, <2>3, <2>4, P!CallerChanges
  <1>3. ASSUME NEW t \in Tasks, NewCall(t) PROVE [Service!Next]_Service!vars
    <2>1. PICK o \in Ops : Cmd!Call(t, o)
      BY <1>3 DEF NewCall
    <2>2. UNCHANGED <<worker, sessionLink>> /\ P!Call(t, o) /\ o \in {"publish", "subscribe", "ping"}
      BY <1>0, <2>1, SameCall, CommandsAssumption
         DEF Cmd!Call, Cmd!agentVars, sessionLink, Cmd!Operations
    <2>3. Service!NewCall(t, o)
      BY <2>2, P!CallChanges DEF Service!NewCall
    <2> QED BY <2>2, <2>3 DEF Service!Next
  <1>4. CASE LoopRuns
    <2>1. /\ worker \in {"recv", "exec", "notify", "release", "process"}
          /\ worker # "down" /\ worker' # "down" /\ pc.agent = "commandLoop"
          /\ sessionLink = (IF ends THEN "down" ELSE "up")
          /\ sessionLink' = (IF ends' THEN "down" ELSE "up")
      <3>1. worker \in {"recv", "exec", "notify", "release", "process"} /\ worker' # "down"
        BY <1>4, LoopStaysIn
      <3>2. pc.agent = "commandLoop" /\ machineLink = "up"
        BY <3>1, LinkOfMachine DEF InStep
      <3>3. sessionLink' = (IF ends' THEN "down" ELSE "up")
        BY <1>0, <3>2 DEF sessionLink, machineLink
      <3> QED BY <3>1, <3>2, <3>3, LinkOfMachine
    <2>2. CASE Cmd!Receive \/ Cmd!ReceiveTimesOut \/ Cmd!Notify \/ (~ends /\ Cmd!Release)
               \/ Cmd!ProcessDone
      <3>1. UNCHANGED <<Cmd!commandState, op>>
        BY <2>2, SameAgentSteps, P!AgentKeepsStates DEF P!Stays
      <3>2. ends' = ends
        BY <2>2 DEF Cmd!Receive, Cmd!ReceiveTimesOut, Cmd!Notify, Cmd!Release, Cmd!ProcessDone,
                    P!Inv, P!TypeOK
      <3> QED BY <2>1, <3>1, <3>2 DEF Service!vars
    <2>3. CASE Cmd!ExecAwaitsAck \/ Cmd!ExecCompletes
      <3>1. PICK t \in Tasks : P!Moves(t, "queued", IF op[t] = "ping" THEN "done" ELSE "sent")
        BY <2>3, SameAgentSteps, P!ExecChanges
      <3>2. ~ends /\ ~ends'
        BY <2>3 DEF Cmd!ExecAwaitsAck, Cmd!ExecCompletes, P!Inv, P!Bookkeeping
      <3>3. Service!Execute(t)
        BY <2>1, <3>1, <3>2 DEF P!Moves, Service!Execute, Service!Becomes
      <3> QED BY <3>3 DEF Service!Next
    <2>4. CASE Cmd!ExecFails
      <3>1. PICK t \in Tasks : P!commandState[t] = "queued" /\ P!SessionTaken({t})
        BY <2>4, SameAgentSteps, P!ExecFailsChanges
      <3>2. ~ends /\ ends'
        BY <2>4 DEF Cmd!ExecFails, P!Inv, P!Bookkeeping
      <3>3. Service!ExecuteFails(t)
        BY <2>1, <3>1, <3>2 DEF P!SessionTaken, Service!ExecuteFails, Service!SessionEnds
      <3> QED BY <3>3 DEF Service!Next
    <2> QED BY <1>4, <2>2, <2>3, <2>4 DEF LoopRuns
  <1> QED BY <1>1, <1>2, <1>3, <1>4

(* The agent is to its callers what AgentService says, for any number of   *)
(* callers, structures, queue places and sockets.                          *)
THEOREM ServiceProvided ==
  ASSUME UsedAsByThing
  PROVE  SysSpec => ProvidesService
  <1>1. SysInit => Service!Init
    BY DEF SysInit, Init, Cmd!Init, Service!Init, sessionLink, Cmd!commandState
  <1>2. SysInv /\ [SysNext]_sysVars => [Service!Next]_Service!vars
    <2> SUFFICES ASSUME SysInv, [SysNext]_sysVars PROVE [Service!Next]_Service!vars
      OBVIOUS
    <2>1. CASE MachineRuns \/ ThingConnects \/ AppRuns \/ Wifi
      BY <2>1, MachineProvides DEF MachineRuns, ThingConnects, AppRuns, Wifi
    <2>2. CASE StartSystem \/ EnterLoop \/ LeaveLoop
      BY <2>2, JointProvides
    <2>3. CASE \/ \E s \in Cmd!Slots : AckArrives(s)
               \/ \E t \in Tasks : CallerRuns(t) \/ NewCall(t)
               \/ LoopRuns
      BY <2>3, CommandsProvide
    <2>4. CASE UNCHANGED sysVars
      BY <2>4 DEF sysVars, vars, cmdVars, Service!vars, sessionLink, Cmd!commandState,
                  Cmd!Owners, Cmd!InWork, Cmd!Elems
    <2> QED BY <2>1, <2>2, <2>3, <2>4 DEF SysNext
  <1> QED BY <1>1, <1>2, SysInvariance, PTL DEF SysSpec, ProvidesService, Service!Spec

(* A session that ends takes the calls whose acknowledgement it owed with  *)
(* it for good: no later session concludes one, so its caller never        *)
(* returns from the wait "for the callback to be called" (mqttagent.c:499).*)
THEOREM OrphansWaitForGood ==
  ASSUME UsedAsByThing
  PROVE  SysSpec => [][\A t \in Tasks :
                         Cmd!commandState[t] = "orphan"
                           => Cmd!commandState'[t] = "orphan" /\ calls'[t] = "wait"]_sysVars
  <1>1. ASSUME [Service!Next]_Service!vars, NEW t \in Tasks, Cmd!commandState[t] = "orphan"
        PROVE  Cmd!commandState'[t] = "orphan"
    <2>0. Cmd!commandState = [u \in Tasks |-> Cmd!commandState[u]]
      BY DEF Cmd!commandState
    <2>1. CASE Cmd!commandState' = Cmd!commandState
      BY <1>1, <2>1
    <2>2. ASSUME NEW c \in Tasks, NEW state, Service!Becomes(c, state),
                 Cmd!commandState[c] # "orphan"
          PROVE  Cmd!commandState'[t] = "orphan"
      BY <1>1, <2>0, <2>2 DEF Service!Becomes
    <2>3. ASSUME NEW failed, Service!SessionEnds(failed),
                 \A c \in failed : Cmd!commandState[c] = "queued"
          PROVE  Cmd!commandState'[t] = "orphan"
      BY <1>1, <2>3 DEF Service!SessionEnds
    <2>4. CASE Service!Start \/ Service!SessionUp \/ Service!Announce \/ Service!SessionLost
      BY <2>1, <2>3, <2>4 DEF Service!Start, Service!SessionUp, Service!Announce,
                              Service!SessionLost
    <2>5. ASSUME NEW c \in Tasks, NEW o, Service!NewCall(c, o)
          PROVE  Cmd!commandState'[t] = "orphan"
      BY <2>1, <2>5 DEF Service!NewCall
    <2>6. ASSUME NEW c \in Tasks,
                 \/ Service!Send(c) \/ Service!Execute(c) \/ Service!ExecuteFails(c)
                 \/ Service!Acknowledge(c) \/ Service!Return(c)
          PROVE  Cmd!commandState'[t] = "orphan"
      BY <2>2, <2>3, <2>6 DEF Service!Send, Service!Execute, Service!ExecuteFails,
                              Service!Acknowledge, Service!Return
    <2> QED BY <1>1, <2>1, <2>4, <2>5, <2>6 DEF Service!Next, Service!vars
  <1>2. ASSUME NEW t \in Tasks, Cmd!commandState'[t] = "orphan" PROVE calls'[t] = "wait"
    BY <1>2 DEF Cmd!commandState
  <1>3. [Service!Next]_Service!vars =>
          \A t \in Tasks : Cmd!commandState[t] = "orphan"
                             => Cmd!commandState'[t] = "orphan" /\ calls'[t] = "wait"
    BY <1>1, <1>2
  <1> QED BY <1>3, ServiceProvided, PTL DEF ProvidesService, Service!Spec
=============================================================================
