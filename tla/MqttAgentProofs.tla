-------------------------- MODULE MqttAgentProofs --------------------------
(***************************************************************************)
(* The connection state machine, for any number of sockets, any observers  *)
(* and any calls of the application; what is announced of sessions, for    *)
(* the calls MQTTThing makes.                                              *)
(***************************************************************************)
EXTENDS MqttAgent, TLAPS, WellFoundedInduction

(* The lowest free socket is free.                                         *)
LEMMA NewSocketFree ==
  ASSUME FreeSockets # {}
  PROVE  NewSocket \in Sockets \ open
  <1>1. FreeSockets \subseteq Nat
    BY MaxSocketsAssumption DEF FreeSockets, Sockets
  <1> DEFINE Less == {ss \in Nat \X Nat : ss[1] < ss[2]}
  <1>2. IsWellFoundedOn(Less, Nat)
    BY NatLessThanWellFounded DEF OpToRel
  <1>3. PICK s \in FreeSockets : \A r \in FreeSockets : s <= r
    <2>1. PICK s \in FreeSockets : \A r \in FreeSockets : <<r, s>> \notin Less
      <3> HIDE DEF Less
      <3> QED BY <1>1, <1>2, WFMin
    <2>2. \A r \in FreeSockets : ~(r < s)
      BY <1>1, <2>1
    <2> QED BY <1>1, <2>2
  <1>4. NewSocket \in FreeSockets
    BY <1>3 DEF NewSocket
  <1> QED BY <1>4 DEF FreeSockets

-----------------------------------------------------------------------------
(* NeverStranded, also while the agent task does not exist.                *)
OnItsWay ==
  xConnState = "Offline" /\ xRecon =>
    \/ \E th \in Threads : pc[th] \in SetPlaces \cup {"clearRecon"}
    \/ told = "unheard"

(* The inductive invariant.                                                *)
Inv == TypeOK /\ OnItsWay

(* Initially xRecon is clear.                                              *)
LEMMA InitInv == Init => Inv
  <1> SUFFICES ASSUME Init PROVE Inv
    OBVIOUS
  <1> USE DEF Init, Threads, AgentPlaces, AppPlaces, SetPlaces, MQTTState
  <1>1. 0 \in Sockets
    BY MaxSocketsAssumption DEF Sockets
  <1>2. /\ pc \in [Threads -> AgentPlaces \cup AppPlaces]
        /\ pc.agent = "down" /\ pc.app = "idle"
    OBVIOUS
  <1>3. target \in [Threads -> MQTTState]
    OBVIOUS
  <1>4. TypeOK
    BY <1>1, <1>2, <1>3 DEF TypeOK, WifiStates
  <1> QED BY <1>4 DEF Inv, OnItsWay

(* setConnState, by either task.                                           *)
LEMMA SetConnStateInv ==
  ASSUME Inv, NEW th \in Threads, WriteState(th) \/ Observe(th) \/ CheckRecon(th)
  PROVE  Inv'
  <1> USE DEF Inv, TypeOK, OnItsWay, Threads, MQTTState, appVars, AgentPlaces, AppPlaces, SetPlaces
  <1>1. CASE WriteState(th)
    BY <1>1 DEF WriteState, GoTo
  <1>2. CASE Observe(th)
    BY <1>2 DEF Observe, GoTo, SetConnStateReturns
  <1>3. CASE CheckRecon(th)
    BY <1>3 DEF CheckRecon, GoTo, SetConnState, SetConnStateReturns
  <1> QED BY <1>1, <1>2, <1>3

(* The agent task outside setConnState.                                    *)
LEMMA AgentInv ==
  ASSUME Inv,
         \/ LoopTCPReq \/ NoSocket \/ OpenSocket \/ TCPConnects \/ TCPConnFails
         \/ LoopTCPConned \/ MQTTConnects \/ MQTTConnectFails
         \/ LoopMQTTReq \/ LoopMQTTConned \/ LoopOnline \/ CommandLoopFails
         \/ LoopMQTTRecon \/ ReconDelayEnds
  PROVE  Inv'
  <1> USE DEF Inv, TypeOK, OnItsWay, Threads, MQTTState, appVars, AgentPlaces, AppPlaces, SetPlaces,
              GoTo, SetConnState, LoopIn
  <1>1. CASE LoopTCPReq \/ LoopTCPConned \/ LoopOnline
    BY <1>1 DEF LoopTCPReq, LoopTCPConned, LoopOnline
  <1>2. CASE NoSocket
    BY <1>2 DEF NoSocket
  <1>3. CASE OpenSocket
    BY <1>3, NewSocketFree DEF OpenSocket
  <1>4. CASE TCPConnects \/ TCPConnFails
    BY <1>4 DEF TCPConnects, TCPConnFails
  <1>5. CASE MQTTConnects \/ MQTTConnectFails
    BY <1>5 DEF MQTTConnects, MQTTConnectFails
  <1>6. CASE LoopMQTTReq \/ LoopMQTTConned
    BY <1>6 DEF LoopMQTTReq, LoopMQTTConned
  <1>7. CASE CommandLoopFails \/ ReconDelayEnds
    BY <1>7 DEF CommandLoopFails, ReconDelayEnds
  <1>8. CASE LoopMQTTRecon
    BY <1>8 DEF LoopMQTTRecon, CloseSocket
  <1> QED BY <1>1, <1>2, <1>3, <1>4, <1>5, <1>6, <1>7, <1>8

(* The calls of the application keep the variables in their types ...      *)
LEMMA AppTypeOK ==
  ASSUME TypeOK,
         \/ Connect \/ Start \/ CloseTransport \/ CloseClearsRecon
         \/ Stop \/ StopCloses \/ DeleteTask \/ SetData \/ SetObserver
  PROVE  TypeOK'
  <1> USE DEF TypeOK, MQTTState, appVars
  <1> DEFINE PcOK == /\ pc \in [Threads -> AgentPlaces \cup AppPlaces]
                     /\ pc.agent \in AgentPlaces /\ pc.app \in AppPlaces
  <1>1. PcOK' /\ target' \in [Threads -> MQTTState]
    <2> USE DEF Threads, AgentPlaces, AppPlaces, SetPlaces, GoTo, SetConnState
    <2>1. CASE Connect \/ CloseClearsRecon \/ StopCloses
      BY <2>1 DEF Connect, CloseClearsRecon, StopCloses
    <2>2. CASE Start \/ CloseTransport \/ Stop
      BY <2>2 DEF Start, CloseTransport, Stop
    <2>3. CASE DeleteTask
      BY <2>3 DEF DeleteTask
    <2>4. CASE SetData \/ SetObserver
      BY <2>4 DEF SetData, SetObserver
    <2> QED BY <2>1, <2>2, <2>3, <2>4
  <1>2. xConnState' \in MQTTState /\ observer' \in Observers
    BY DEF Connect, Start, CloseTransport, CloseClearsRecon, Stop, StopCloses,
           DeleteTask, SetData, SetObserver
  <1>3. xSock' \in Sockets \cup {-1} /\ open' \subseteq Sockets
    BY MaxSocketsAssumption
    DEF Connect, Start, CloseTransport, CloseClearsRecon, Stop, StopCloses,
        DeleteTask, SetData, SetObserver, CloseSocket, Sockets
  <1>4. told' \in {"nothing", "online", "offline", "unheard"}
    BY DEF Connect, Start, CloseTransport, CloseClearsRecon, Stop, StopCloses,
           DeleteTask, SetData, SetObserver
  <1>5. /\ xRecon' \in BOOLEAN /\ stopping' \in BOOLEAN /\ will' \in BOOLEAN
        /\ wifi' \in WifiStates /\ skipped' \in BOOLEAN
    BY FlagsAssumption
    DEF Connect, Start, CloseTransport, CloseClearsRecon, Stop, StopCloses,
        DeleteTask, SetData, SetObserver
  <1> QED BY <1>1, <1>2, <1>3, <1>4, <1>5

(* ... and leave no agent in Offline that is to reconnect.                 *)
LEMMA AppOnItsWay ==
  ASSUME Inv,
         \/ Connect \/ Start \/ CloseTransport \/ CloseClearsRecon
         \/ Stop \/ StopCloses \/ DeleteTask \/ SetData \/ SetObserver
  PROVE  OnItsWay'
  <1> USE DEF Inv, TypeOK, OnItsWay, Threads, AgentPlaces, AppPlaces, SetPlaces,
              GoTo, SetConnState, AppIdle
  <1>1. CASE Connect
    BY <1>1 DEF Connect
  <1>2. CASE Start
    BY <1>2 DEF Start
  <1>3. CASE CloseTransport \/ CloseClearsRecon
    BY <1>3 DEF CloseTransport, CloseClearsRecon
  <1>4. CASE Stop \/ StopCloses
    BY <1>4 DEF Stop, StopCloses
  <1>5. CASE DeleteTask
    BY <1>5 DEF DeleteTask
  <1>6. CASE SetData \/ SetObserver
    BY <1>6 DEF SetData, SetObserver
  <1> QED BY <1>1, <1>2, <1>3, <1>4, <1>5, <1>6

(* The invariant is inductive.                                             *)
LEMMA NextInv == Inv /\ [Next]_vars => Inv'
  <1> SUFFICES ASSUME Inv, [Next]_vars PROVE Inv'
    OBVIOUS
  <1>1. CASE UNCHANGED vars \/ WifiLost \/ WifiJoined
    <2>1. TypeOK'
      BY <1>1 DEF vars, appVars, WifiLost, WifiJoined, WifiStates, Inv, TypeOK
    <2>2. OnItsWay'
      BY <1>1 DEF vars, appVars, WifiLost, WifiJoined, Inv, OnItsWay
    <2> QED BY <2>1, <2>2 DEF Inv
  <1>2. CASE Next /\ ~(WifiLost \/ WifiJoined)
    BY <1>2, SetConnStateInv, AgentInv, AppTypeOK, AppOnItsWay
    DEF Next, Run, RunOffline, App, AppInCall, Threads, Inv
  <1> QED BY <1>1, <1>2

(* The inductive invariant holds in every reachable state.                 *)
THEOREM Invariance == Spec => []Inv
  BY InitInv, NextInv, PTL DEF Spec

(* Every variable keeps its type, through every use of the agent.          *)
THEOREM TypeCorrect == Spec => []TypeOK
  <1>1. Inv => TypeOK
    BY DEF Inv
  <1> QED BY <1>1, Invariance, PTL

(* An agent asked to reconnect never rests in Offline, through closes,     *)
(* stops and restarts, unless no callback followed the Offline.            *)
THEOREM Stranded == Spec => []NeverStranded
  <1>1. Inv => NeverStranded
    BY DEF Inv, OnItsWay, NeverStranded
  <1> QED BY <1>1, Invariance, PTL

-----------------------------------------------------------------------------
(* Used as MQTTThing does: no call but connect and start, and an observer  *)
(* with both callbacks.                                                    *)
UsedAsByThing ==
  AppCalls = {} /\ \A o \in Observers : {"MQTTOnline", "MQTTOffline"} \subseteq o

(* Then only the agent task moves the state, but for the one connect.      *)
OneWriter ==
  /\ will = TRUE /\ stopping = FALSE
  /\ pc.app \in {"idle", "setState", "observe"}
  /\ pc.app # "idle" => pc.agent = "down" /\ target.app = "TCPReq"
  /\ pc.app = "setState" => xConnState = "Offline"
  /\ pc.app = "observe" => xConnState = "TCPReq"
  /\ pc.agent = "down" => xConnState \in {"Offline", "TCPReq"} /\ open = {}

(* Where the agent task is tells the state it found, and what it writes    *)
(* into the state is what follows on it.                                   *)
InOrder ==
  /\ pc.agent \in {"connect", "connecting"} => xConnState = "TCPReq"
  /\ pc.agent = "mqttConnect" => xConnState = "TCPConned"
  /\ pc.agent = "commandLoop" => xConnState = "Online"
  /\ pc.agent = "delay" => xConnState = "MQTTRecon"
  /\ pc.agent = "checkRecon" => xConnState = "Offline"
  /\ pc.agent = "setState" =>
       <<xConnState, target.agent>> \in
         { <<"TCPReq", "TCPConned">>, <<"TCPReq", "Offline">>,
           <<"TCPConned", "MQTTReq">>, <<"TCPConned", "Offline">>,
           <<"MQTTReq", "MQTTConned">>, <<"MQTTConned", "Online">>,
           <<"Online", "Offline">>,
           <<"Offline", "MQTTRecon">>, <<"MQTTRecon", "TCPReq">> }

(* From TCPConned on the socket is open.  Before a connection is tried it  *)
(* is closed, with all others, unless a reconnection skipped that.         *)
SocketStands ==
  /\ xConnState \in {"TCPConned", "MQTTReq", "MQTTConned", "Online"} => xSock \in open
  /\ pc.agent = "setState" /\ target.agent = "TCPConned" => xSock \in open
  /\ NoSocketLeak
  /\ ~skipped /\ (\/ pc.agent \in {"connect", "delay"}
                  \/ pc.agent = "setState" /\ target.agent = "TCPReq"
                  \/ pc.agent \in {"loop", "observe"} /\ xConnState = "TCPReq") =>
       open = {}

(* Online is what was last told from the callback of one Online to that of *)
(* the next Offline.                                                       *)
ToldTruly ==
  /\ told # "unheard"
  /\ told = "online" =>
       xConnState = "Online" \/ (xConnState = "Offline" /\ pc.agent = "observe")
  /\ xConnState = "Online" => (pc.agent = "observe" <=> told # "online")

(* The inductive invariant of the agent used by MQTTThing.                 *)
SessionInv == Inv /\ OneWriter /\ InOrder /\ SocketStands /\ ToldTruly

(* Initially there is no task, no socket and no announcement.              *)
LEMMA InitSessionInv == Init => SessionInv
  <1> SUFFICES ASSUME Init PROVE SessionInv
    OBVIOUS
  <1>1. pc.agent = "down" /\ pc.app = "idle"
    BY DEF Init
  <1> QED BY <1>1, InitInv
    DEF Init, SessionInv, OneWriter, InOrder, SocketStands, NoSocketLeak, ToldTruly

(* setConnState of the agent task.                                         *)
LEMMA AgentSetsState ==
  ASSUME UsedAsByThing, SessionInv,
         WriteState("agent") \/ Observe("agent") \/ CheckRecon("agent")
  PROVE  OneWriter' /\ InOrder' /\ SocketStands' /\ ToldTruly'
  <1> USE DEF SessionInv, Inv, TypeOK, Threads, AgentPlaces, AppPlaces, SetPlaces,
              OneWriter, InOrder, SocketStands, NoSocketLeak, ToldTruly, appVars
  <1>1. CASE WriteState("agent")
    <2>1. /\ pc' = [pc EXCEPT !["agent"] = "observe"]
          /\ xConnState' = target.agent
          /\ UNCHANGED <<will, stopping, target, xSock, open, told, skipped>>
      BY <1>1 DEF WriteState, GoTo
    <2>2. OneWriter'
      BY <1>1, <2>1 DEF WriteState
    <2>3. InOrder'
      BY <1>1, <2>1 DEF WriteState
    <2>4. SocketStands'
      BY <1>1, <2>1 DEF WriteState
    <2>5. ToldTruly'
      BY <1>1, <2>1 DEF WriteState
    <2> QED BY <2>2, <2>3, <2>4, <2>5
  <1>2. CASE Observe("agent")
    BY <1>2 DEF Observe, GoTo, SetConnStateReturns, UsedAsByThing
  <1>3. CASE CheckRecon("agent")
    BY <1>3 DEF CheckRecon, GoTo, SetConnState, SetConnStateReturns
  <1> QED BY <1>1, <1>2, <1>3

(* A connection is built on a socket of its own.                           *)
LEMMA AgentConnects ==
  ASSUME SessionInv,
         LoopTCPReq \/ NoSocket \/ OpenSocket \/ TCPConnects \/ TCPConnFails
  PROVE  OneWriter' /\ InOrder' /\ SocketStands' /\ ToldTruly'
  <1> USE DEF SessionInv, Inv, TypeOK, Threads, AgentPlaces, AppPlaces, SetPlaces,
              OneWriter, InOrder, SocketStands, NoSocketLeak, ToldTruly, appVars,
              GoTo, SetConnState, LoopIn
  <1>1. CASE LoopTCPReq
    BY <1>1 DEF LoopTCPReq
  <1>2. CASE NoSocket
    BY <1>2 DEF NoSocket
  <1>3. CASE OpenSocket
    BY <1>3 DEF OpenSocket
  <1>4. CASE TCPConnects
    BY <1>4 DEF TCPConnects
  <1>5. CASE TCPConnFails
    BY <1>5 DEF TCPConnFails
  <1> QED BY <1>1, <1>2, <1>3, <1>4, <1>5

(* A session is built on the connection, lost, and reconnected.            *)
LEMMA AgentHoldsSession ==
  ASSUME SessionInv,
         \/ LoopTCPConned \/ MQTTConnects \/ MQTTConnectFails
         \/ LoopMQTTReq \/ LoopMQTTConned \/ LoopOnline \/ CommandLoopFails
         \/ LoopMQTTRecon \/ ReconDelayEnds
  PROVE  OneWriter' /\ InOrder' /\ SocketStands' /\ ToldTruly'
  <1> USE DEF SessionInv, Inv, TypeOK, Threads, AgentPlaces, AppPlaces, SetPlaces,
              OneWriter, InOrder, SocketStands, NoSocketLeak, ToldTruly, appVars,
              GoTo, SetConnState, LoopIn
  <1>1. CASE LoopTCPConned
    BY <1>1 DEF LoopTCPConned
  <1>2. CASE MQTTConnects
    BY <1>2 DEF MQTTConnects
  <1>3. CASE MQTTConnectFails
    BY <1>3 DEF MQTTConnectFails
  <1>4. CASE LoopMQTTReq
    BY <1>4 DEF LoopMQTTReq
  <1>5. CASE LoopMQTTConned
    BY <1>5 DEF LoopMQTTConned
  <1>6. CASE LoopOnline
    BY <1>6 DEF LoopOnline
  <1>7. CASE CommandLoopFails
    BY <1>7 DEF CommandLoopFails
  <1>8. CASE LoopMQTTRecon
    BY <1>8 DEF LoopMQTTRecon, CloseSocket
  <1>9. CASE ReconDelayEnds
    BY <1>9 DEF ReconDelayEnds
  <1> QED BY <1>1, <1>2, <1>3, <1>4, <1>5, <1>6, <1>7, <1>8, <1>9

(* The one connect, the one start, and the calls that are not made.        *)
LEMMA ThingCalls ==
  ASSUME UsedAsByThing, SessionInv,
         AppInCall \/ DeleteTask \/ Start \/ Connect \/ CloseTransport
         \/ Stop \/ SetData \/ SetObserver
  PROVE  OneWriter' /\ InOrder' /\ SocketStands' /\ ToldTruly'
  <1> USE DEF SessionInv, Inv, TypeOK, Threads, AgentPlaces, AppPlaces, SetPlaces,
              OneWriter, InOrder, SocketStands, NoSocketLeak, ToldTruly, appVars,
              GoTo, SetConnState, AppIdle
  <1>1. ~(CloseTransport \/ CloseClearsRecon \/ Stop \/ StopCloses \/ DeleteTask
         \/ SetData \/ SetObserver \/ CheckRecon("app"))
    BY DEF CloseTransport, CloseClearsRecon, Stop, StopCloses, DeleteTask, SetData,
           SetObserver, CheckRecon, UsedAsByThing
  <1>2. CASE WriteState("app")
    BY <1>2 DEF WriteState
  <1>3. CASE Observe("app")
    BY <1>3 DEF Observe, SetConnStateReturns
  <1>4. CASE Start
    BY <1>4 DEF Start, UsedAsByThing
  <1>5. CASE Connect
    BY <1>5 DEF Connect, UsedAsByThing
  <1> QED BY <1>1, <1>2, <1>3, <1>4, <1>5 DEF AppInCall

(* The invariant is inductive.                                             *)
LEMMA NextSessionInv ==
  ASSUME UsedAsByThing
  PROVE  SessionInv /\ [Next]_vars => SessionInv'
  <1> SUFFICES ASSUME SessionInv, [Next]_vars PROVE SessionInv'
    OBVIOUS
  <1>1. Inv'
    BY NextInv DEF SessionInv
  <1>2. CASE UNCHANGED vars \/ WifiLost \/ WifiJoined
    <2>1. OneWriter'
      BY <1>2 DEF vars, appVars, WifiLost, WifiJoined, SessionInv, OneWriter
    <2>2. InOrder'
      BY <1>2 DEF vars, WifiLost, WifiJoined, SessionInv, InOrder
    <2>3. SocketStands'
      BY <1>2 DEF vars, WifiLost, WifiJoined, SessionInv, SocketStands, NoSocketLeak
    <2>4. ToldTruly'
      BY <1>2 DEF vars, WifiLost, WifiJoined, SessionInv, ToldTruly
    <2> QED BY <1>1, <2>1, <2>2, <2>3, <2>4 DEF SessionInv
  <1>3. CASE Next /\ ~(WifiLost \/ WifiJoined)
    BY <1>1, <1>3, AgentSetsState, AgentConnects, AgentHoldsSession, ThingCalls
    DEF Next, Run, RunOffline, App, SessionInv
  <1> QED BY <1>2, <1>3

(* The inductive invariant holds in every reachable state.                 *)
THEOREM SessionInvariance ==
  ASSUME UsedAsByThing
  PROVE  Spec => []SessionInv
  BY InitSessionInv, NextSessionInv, PTL DEF Spec

(* The MQTT handshake and the command loop run on an open socket, and a    *)
(* session that accepts commands has been announced.                       *)
THEOREM SessionOnOpenSocket ==
  ASSUME UsedAsByThing
  PROVE  Spec => []SessionStands
  <1>1. SessionInv => SessionStands
    BY DEF SessionInv, InOrder, SocketStands, ToldTruly, SessionStands
  <1> QED BY <1>1, SessionInvariance, PTL

(* A socket is lost only by a reconnection that finds wifi lost.           *)
THEOREM SocketKept ==
  ASSUME UsedAsByThing
  PROVE  Spec => []NoSocketLeak
  <1>1. SessionInv => NoSocketLeak
    BY DEF SessionInv, SocketStands
  <1> QED BY <1>1, SessionInvariance, PTL

-----------------------------------------------------------------------------
(* Every step of the agent is a step of Connection, or none.               *)
LEMMA StepRefinesConnection ==
  ASSUME UsedAsByThing, SessionInv, SessionInv', [Next]_vars
  PROVE  [C!Next]_C!vars
  <1> USE DEF C!Next, C!vars, C!Build, C!Lose, C!Announce, link
  <1> USE DEF SessionInv, Inv, TypeOK, MQTTState, OneWriter, InOrder, ToldTruly
  <1>1. CASE UNCHANGED <<xConnState, told>>
    BY <1>1
  <1>2. CASE WriteState("agent")
    BY <1>2 DEF WriteState
  <1>3. CASE WriteState("app")
    BY <1>3 DEF WriteState
  <1>4. CASE Observe("agent") \/ Observe("app")
    BY <1>4 DEF Observe, UsedAsByThing
  <1>5. WriteState("agent") \/ WriteState("app") \/ Observe("agent") \/ Observe("app")
        \/ UNCHANGED <<xConnState, told>>
    BY DEF vars, Next, Run, RunOffline, App, AppInCall, AppIdle, CheckRecon,
           LoopTCPReq, NoSocket, OpenSocket, TCPConnects, TCPConnFails, LoopTCPConned,
           MQTTConnects, MQTTConnectFails, LoopMQTTReq, LoopMQTTConned, LoopOnline,
           CommandLoopFails, LoopMQTTRecon, ReconDelayEnds, Connect, Start,
           CloseTransport, CloseClearsRecon, Stop, StopCloses, DeleteTask, SetData,
           SetObserver, WifiLost, WifiJoined, UsedAsByThing
  <1> QED BY <1>1, <1>2, <1>3, <1>4, <1>5

(* The state machine implements Connection: sessions are built in order,   *)
(* announced once they stand, and their loss before another is built.      *)
THEOREM ConnectionAnnounced ==
  ASSUME UsedAsByThing
  PROVE  Spec => AnnouncesConnection
  <1>1. Init => C!Init
    BY DEF Init, C!Init, link
  <1>2. SessionInv /\ SessionInv' /\ [Next]_vars => [C!Next]_C!vars
    BY StepRefinesConnection
  <1> QED BY <1>1, <1>2, SessionInvariance, PTL DEF Spec, AnnouncesConnection, C!Spec
=============================================================================
