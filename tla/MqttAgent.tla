----------------------------- MODULE MqttAgent -----------------------------
(***************************************************************************)
(* The connection state machine of mqttagent.c: the run loop of the agent  *)
(* task, mqttagent_setConnState with its observer callbacks, and the       *)
(* connect / start / close calls of the task that uses the agent, over     *)
(* the sockets tcptransport.c opens and closes.                            *)
(*                                                                         *)
(* Nothing protects xConnState and xRecon: the tasks run with the same     *)
(* priority under a time-slicing scheduler, so another task may run        *)
(* between any two accesses.  Each access is a step of its own.            *)
(*                                                                         *)
(* The command loop ends only with an error here: it would end with        *)
(* MQTTSuccess after a terminate or disconnect command, and nothing in the *)
(* repository sends one.                                                   *)
(***************************************************************************)
EXTENDS Integers

CONSTANTS
  MaxSockets,   \* sockets the TCP/IP stack has
  WifiDrops,    \* whether the access point is ever lost
  Recon,        \* the values connect is called with for recon
  AppCalls,     \* the calls made beside connect-then-start: see below
  Observers     \* the observers set: each is the set of its callbacks

ASSUME MaxSocketsAssumption == MaxSockets \in Nat \ {0}
ASSUME FlagsAssumption == WifiDrops \in BOOLEAN /\ Recon \subseteq BOOLEAN
ASSUME AppCallsAssumption == AppCalls \subseteq {"connect", "close", "stop", "observe"}
ASSUME ObserversAssumption == Observers \subseteq SUBSET {"MQTTOnline", "MQTTOffline"}

Sockets == 0 .. (MaxSockets - 1)

MQTTState ==
  {"Offline", "TCPReq", "TCPConned", "MQTTReq", "MQTTConned", "MQTTRecon", "Online"}

VARIABLES
  xConnState,   \* the state the run loop switches on
  xRecon,       \* whether to reconnect after a loss
  pc,           \* where the two tasks are: see AgentPlaces and AppPlaces
  target,       \* the state a task is about to write in setConnState
  stopping,     \* the application is inside mqttagent_stop
  observer,     \* the callbacks that are set; {} also if pObserver is null
  will,         \* the topic of the will is set, and not freed by a stop
  xSock,        \* the agent's socket; -1 if socket() failed
  open,         \* the sockets that are open in the stack
  wifi,         \* what the driver says of the link: see WifiStates
  told,         \* history: the last observer callback; "unheard" after an
                \* Offline that no callback and so no reconnection followed
  skipped       \* history: a reconnection found wifi failed and closed no socket

WifiStates ==
  { "joined",
    "down",        \* no link; CYW43_LINK_DOWN is 0
    "failed" }     \* joining failed, no network, bad password: below 0

appVars == <<stopping, observer, will>>

vars == <<xConnState, xRecon, pc, target, stopping, observer, will, xSock, open,
          wifi, told, skipped>>

Threads == {"agent", "app"}

SetPlaces == {"setState", "observe", "checkRecon"}   \* inside setConnState

AgentPlaces ==
  { "down",          \* the task does not exist
    "loop",          \* about to switch on xConnState
    "connect",       \* in tcptrans_connect, before socket()
    "connecting",    \* in connect()
    "mqttConnect",   \* in MQTT_Connect
    "commandLoop",   \* in MQTTAgent_CommandLoop
    "delay" }        \* in the delay before a reconnection
  \cup SetPlaces

AppPlaces ==
  { "idle",
    "clearRecon",    \* in close, about to clear xRecon
    "stopClose",     \* in stop, about to close the socket
    "delete" }       \* in stop, about to delete the agent task
  \cup SetPlaces

Init ==
  /\ xConnState = "Offline"        \* mqttagent_setData
  /\ xRecon = FALSE
  /\ pc = [agent |-> "down", app |-> "idle"]
  /\ target = [agent |-> "Offline", app |-> "Offline"]
  /\ stopping = FALSE
  /\ observer \in Observers       \* mqttagent_setObserver
  /\ will = TRUE
  /\ xSock = 0                     \* tcptrans_init
  /\ open = {}
  /\ wifi = "joined"
  /\ told = "nothing"
  /\ skipped = FALSE

-----------------------------------------------------------------------------
(* mqttagent_setConnState, called by either task.                          *)

(* A task goes to its next place.                                          *)
GoTo(th, place) == pc' = [pc EXCEPT ![th] = place]

(* A task calls setConnState(s).                                           *)
SetConnState(th, s) ==
  /\ target' = [target EXCEPT ![th] = s]
  /\ GoTo(th, "setState")

(* setConnState returns.  It is the last thing the calling function does,  *)
(* except in stop: the agent is back in its loop, an API call returns.     *)
SetConnStateReturns(th) ==
  GoTo(th, IF th = "agent" THEN "loop" ELSE IF stopping THEN "delete" ELSE "idle")

WriteState(th) ==
  /\ pc[th] = "setState"
  /\ xConnState' = target[th]
  /\ GoTo(th, "observe")
  /\ UNCHANGED <<appVars, xRecon, target, xSock, open, wifi, told, skipped>>

(* The switch reads xConnState again, then the callback runs, if set.  The *)
(* reconnection is part of the branch with the offline callback.           *)
Observe(th) ==
  /\ pc[th] = "observe"
  /\ \/ /\ xConnState = "Offline" /\ "MQTTOffline" \in observer
        /\ told' = "offline"
        /\ GoTo(th, "checkRecon")
     \/ /\ xConnState = "Offline" /\ "MQTTOffline" \notin observer
        /\ told' = "unheard"
        /\ SetConnStateReturns(th)
     \/ /\ xConnState = "Online"
        /\ told' = IF "MQTTOnline" \in observer THEN "online" ELSE "nothing"
        /\ SetConnStateReturns(th)
     \/ /\ xConnState \notin {"Offline", "Online"}
        /\ SetConnStateReturns(th)
        /\ UNCHANGED told
  /\ UNCHANGED <<appVars, xConnState, xRecon, target, xSock, open, wifi, skipped>>

(* Mutant: nobody reconnects after the offline callback.                   *)
CheckRecon_Forgets(th) ==
  /\ pc[th] = "checkRecon"
  /\ SetConnStateReturns(th)
  /\ UNCHANGED <<appVars, xConnState, xRecon, target, xSock, open, wifi, told, skipped>>

(* After the offline callback: setConnState(MQTTRecon), if wanted.         *)
CheckRecon(th) ==
  /\ pc[th] = "checkRecon"
  /\ IF xRecon THEN SetConnState(th, "MQTTRecon")
               ELSE SetConnStateReturns(th) /\ UNCHANGED target
  /\ UNCHANGED <<appVars, xConnState, xRecon, xSock, open, wifi, told, skipped>>

-----------------------------------------------------------------------------
(* The transport (tcptransport.c).                                         *)

(* Mutant: the connection is torn down without closesocket.                *)
CloseSocket_Forgets == UNCHANGED open

(* tcptrans_close.  xSock keeps its value.                                 *)
CloseSocket == open' = open \ {xSock}

(* Mutant: one socket too many.                                            *)
FreeSockets_OffByOne == (0 .. MaxSockets) \ open

(* socket(): the stack hands out its lowest free socket, or none.          *)
FreeSockets == Sockets \ open

NewSocket == CHOOSE s \in FreeSockets : \A r \in FreeSockets : s <= r

-----------------------------------------------------------------------------
(* The agent task: one iteration of the loop per state.                    *)

LoopIn(s) == pc.agent = "loop" /\ xConnState = s

(* wifi_isJoined(): a link that is down and did not fail counts as joined. *)
isJoined == wifi # "failed"

(* While wifi is not joined the loop only waits and looks again.           *)
LoopTCPReq ==
  /\ LoopIn("TCPReq")
  /\ isJoined
  /\ GoTo("agent", "connect")
  /\ UNCHANGED <<appVars, xConnState, xRecon, target, xSock, open, wifi, told, skipped>>

(* Mutant: the result of socket() is not looked at.                        *)
NoSocket_Ignored ==
  /\ pc.agent = "connect"
  /\ FreeSockets = {}
  /\ xSock' = -1
  /\ SetConnState("agent", "TCPConned")
  /\ UNCHANGED <<appVars, xConnState, xRecon, open, wifi, told, skipped>>

(* The name is resolved or the wait for it timed out; socket() fails.      *)
NoSocket ==
  /\ pc.agent = "connect"
  /\ FreeSockets = {}
  /\ xSock' = -1
  /\ SetConnState("agent", "Offline")
  /\ UNCHANGED <<appVars, xConnState, xRecon, open, wifi, told, skipped>>

OpenSocket ==
  /\ pc.agent = "connect"
  /\ FreeSockets # {}
  /\ xSock' = NewSocket
  /\ open' = open \cup {NewSocket}
  /\ GoTo("agent", "connecting")
  /\ UNCHANGED <<appVars, xConnState, xRecon, target, wifi, told, skipped>>

TCPConnects ==
  /\ pc.agent = "connecting"
  /\ wifi = "joined"
  /\ xSock \in open
  /\ SetConnState("agent", "TCPConned")
  /\ UNCHANGED <<appVars, xConnState, xRecon, xSock, open, wifi, told, skipped>>

(* connect() fails; the socket stays open.                                 *)
TCPConnFails ==
  /\ pc.agent = "connecting"
  /\ SetConnState("agent", "Offline")
  /\ UNCHANGED <<appVars, xConnState, xRecon, xSock, open, wifi, told, skipped>>

LoopTCPConned ==
  /\ LoopIn("TCPConned")
  /\ GoTo("agent", "mqttConnect")
  /\ UNCHANGED <<appVars, xConnState, xRecon, target, xSock, open, wifi, told, skipped>>

(* CONNECT was sent and CONNACK received on an open socket.  MQTT_Connect  *)
(* refuses the will mqttagent_doConnect always passes if it has no topic.  *)
MQTTConnects ==
  /\ pc.agent = "mqttConnect"
  /\ will
  /\ wifi = "joined"
  /\ xSock \in open
  /\ SetConnState("agent", "MQTTReq")
  /\ UNCHANGED <<appVars, xConnState, xRecon, xSock, open, wifi, told, skipped>>

(* Mutant: the state stays TCPConned and the handshake is tried again.     *)
MQTTConnectFails_KeepsState ==
  /\ pc.agent = "mqttConnect"
  /\ GoTo("agent", "loop")
  /\ UNCHANGED <<appVars, xConnState, xRecon, target, xSock, open, wifi, told, skipped>>

MQTTConnectFails ==
  /\ pc.agent = "mqttConnect"
  /\ SetConnState("agent", "Offline")
  /\ UNCHANGED <<appVars, xConnState, xRecon, xSock, open, wifi, told, skipped>>

LoopMQTTReq ==
  /\ LoopIn("MQTTReq")
  /\ SetConnState("agent", "MQTTConned")
  /\ UNCHANGED <<appVars, xConnState, xRecon, xSock, open, wifi, told, skipped>>

LoopMQTTConned ==
  /\ LoopIn("MQTTConned")
  /\ SetConnState("agent", "Online")
  /\ UNCHANGED <<appVars, xConnState, xRecon, xSock, open, wifi, told, skipped>>

LoopOnline ==
  /\ LoopIn("Online")
  /\ GoTo("agent", "commandLoop")
  /\ UNCHANGED <<appVars, xConnState, xRecon, target, xSock, open, wifi, told, skipped>>

(* Mutant: a lost session is reconnected without telling the observer.     *)
CommandLoopFails_Silently ==
  /\ pc.agent = "commandLoop"
  /\ SetConnState("agent", "MQTTRecon")
  /\ UNCHANGED <<appVars, xConnState, xRecon, xSock, open, wifi, told, skipped>>

(* The loop returns an error; the socket is not closed here.               *)
CommandLoopFails ==
  /\ pc.agent = "commandLoop"
  /\ SetConnState("agent", "Offline")
  /\ UNCHANGED <<appVars, xConnState, xRecon, xSock, open, wifi, told, skipped>>

(* The old socket is closed only if wifi is joined at this moment.         *)
LoopMQTTRecon ==
  /\ LoopIn("MQTTRecon")
  /\ IF isJoined THEN CloseSocket /\ UNCHANGED skipped
                 ELSE UNCHANGED open /\ skipped' = TRUE
  /\ GoTo("agent", "delay")
  /\ UNCHANGED <<appVars, xConnState, xRecon, target, xSock, wifi, told>>

ReconDelayEnds ==
  /\ pc.agent = "delay"
  /\ SetConnState("agent", "TCPReq")
  /\ UNCHANGED <<appVars, xConnState, xRecon, xSock, open, wifi, told, skipped>>

(* Everything but the command loop.                                        *)
RunOffline ==
  \/ WriteState("agent") \/ Observe("agent") \/ CheckRecon("agent")
  \/ LoopTCPReq \/ NoSocket \/ OpenSocket \/ TCPConnects \/ TCPConnFails
  \/ LoopTCPConned \/ MQTTConnects \/ MQTTConnectFails
  \/ LoopMQTTReq \/ LoopMQTTConned
  \/ LoopMQTTRecon \/ ReconDelayEnds

Run == RunOffline \/ LoopOnline

-----------------------------------------------------------------------------
(* The application task.  MQTTThing calls connect once, then start.        *)

AppIdle == pc.app = "idle"

Connect ==
  /\ AppIdle
  /\ "connect" \in AppCalls \/ (pc.agent = "down" /\ xConnState = "Offline")
  /\ \E recon \in Recon : xRecon' = recon
  /\ SetConnState("app", "TCPReq")
  /\ UNCHANGED <<appVars, xConnState, xSock, open, wifi, told, skipped>>

Start ==
  /\ AppIdle
  /\ pc.agent = "down"
  /\ xConnState # "Offline" \/ "stop" \in AppCalls
  /\ xSock' = 0
  /\ GoTo("agent", "loop")
  /\ UNCHANGED <<appVars, xConnState, xRecon, target, open, wifi, told, skipped>>

(* mqttagent_close, in its three assignments.                              *)
CloseTransport ==
  /\ AppIdle
  /\ "close" \in AppCalls
  /\ CloseSocket
  /\ GoTo("app", "clearRecon")
  /\ UNCHANGED <<appVars, xConnState, xRecon, target, xSock, wifi, told, skipped>>

CloseClearsRecon ==
  /\ pc.app = "clearRecon"
  /\ xRecon' = FALSE
  /\ SetConnState("app", "Offline")
  /\ UNCHANGED <<appVars, xConnState, xSock, open, wifi, told, skipped>>

(* mqttagent_stop: an agent that is not Offline is closed, xRecon stays.   *)
Stop ==
  /\ AppIdle
  /\ "stop" \in AppCalls
  /\ stopping' = TRUE
  /\ GoTo("app", IF xConnState # "Offline" THEN "stopClose" ELSE "delete")
  /\ UNCHANGED <<observer, will, xConnState, xRecon, target, xSock, open, wifi, told, skipped>>

StopCloses ==
  /\ pc.app = "stopClose"
  /\ CloseSocket
  /\ SetConnState("app", "Offline")
  /\ UNCHANGED <<appVars, xConnState, xRecon, xSock, wifi, told, skipped>>

(* vTaskDelete, wherever the agent task is, also between an Offline and    *)
(* the reconnection that would follow it; the will is freed.               *)
DeleteTask ==
  /\ pc.app = "delete"
  /\ pc' = [agent |-> "down", app |-> "idle"]
  /\ stopping' = FALSE
  /\ will' = FALSE
  /\ told' = IF xConnState = "Offline" THEN "unheard" ELSE told
  /\ UNCHANGED <<observer, xConnState, xRecon, target, xSock, open, wifi, skipped>>

(* mqttagent_setData, before the agent is started again; the will's memory *)
(* may not be had.                                                         *)
SetData ==
  /\ AppIdle
  /\ "stop" \in AppCalls
  /\ pc.agent = "down"
  /\ xConnState' = "Offline"
  /\ xRecon' = FALSE
  /\ will' \in BOOLEAN
  /\ UNCHANGED <<stopping, observer, pc, target, xSock, open, wifi, told, skipped>>

SetObserver ==
  /\ AppIdle
  /\ "observe" \in AppCalls
  /\ observer' \in Observers
  /\ UNCHANGED <<stopping, will, xConnState, xRecon, pc, target, xSock, open, wifi, told, skipped>>

(* The application inside a call.                                          *)
AppInCall ==
  \/ WriteState("app") \/ Observe("app") \/ CheckRecon("app")
  \/ CloseClearsRecon \/ StopCloses

App == AppInCall \/ DeleteTask \/ Start

-----------------------------------------------------------------------------
(* The radio link, and the task that keeps joining it (mqttthing.c).       *)
WifiLost ==
  /\ WifiDrops
  /\ wifi = "joined"
  /\ wifi' \in {"down", "failed"}
  /\ UNCHANGED <<appVars, xConnState, xRecon, pc, target, xSock, open, told, skipped>>

WifiJoined ==
  /\ wifi # "joined"
  /\ wifi' = "joined"
  /\ UNCHANGED <<appVars, xConnState, xRecon, pc, target, xSock, open, told, skipped>>

Next ==
  \/ Run \/ CommandLoopFails
  \/ App
  \/ Connect \/ CloseTransport \/ Stop \/ SetData \/ SetObserver
  \/ WifiLost \/ WifiJoined

Spec == Init /\ [][Next]_vars

(* Both tasks are scheduled again and again.  A broken connection ends the *)
(* command loop (keep-alive); a connection attempt that could succeed      *)
(* again and again does at last; wifi is joined again.                     *)
CommandLoopNoticesLoss == CommandLoopFails /\ (wifi # "joined" \/ xSock \notin open)

Fairness ==
  /\ WF_vars(Run)
  /\ WF_vars(App)
  /\ WF_vars(Connect /\ pc.agent = "down")
  /\ WF_vars(CommandLoopNoticesLoss)
  /\ SF_vars(TCPConnects)
  /\ SF_vars(MQTTConnects)
  /\ WF_vars(WifiJoined)

FairSpec == Spec /\ Fairness

-----------------------------------------------------------------------------
TypeOK ==
  /\ xConnState \in MQTTState
  /\ xRecon \in BOOLEAN
  /\ pc \in [Threads -> AgentPlaces \cup AppPlaces]
  /\ pc.agent \in AgentPlaces /\ pc.app \in AppPlaces
  /\ target \in [Threads -> MQTTState]
  /\ stopping \in BOOLEAN /\ will \in BOOLEAN
  /\ observer \in Observers
  /\ xSock \in Sockets \cup {-1}
  /\ open \subseteq Sockets
  /\ wifi \in WifiStates
  /\ told \in {"nothing", "online", "offline", "unheard"}
  /\ skipped \in BOOLEAN

(* An agent asked to reconnect never rests in Offline: as long as it is    *)
(* there, one of the tasks is still inside setConnState and will move it   *)
(* on, in whatever order the two tasks interleave, through closes, stops   *)
(* and restarts.  The exceptions are an Offline that found no callback and *)
(* one that a stop cut off from its reconnection.                          *)
NeverStranded ==
  xConnState = "Offline" /\ xRecon /\ pc.agent # "down" =>
    \/ \E th \in Threads : pc[th] \in SetPlaces \cup {"clearRecon"}
    \/ told = "unheard"

(* The MQTT handshake and the command loop run on an open socket, and a    *)
(* session that accepts commands has been announced (MQTTOnline).          *)
SessionStands ==
  /\ pc.agent \in {"mqttConnect", "commandLoop"} => xSock \in open
  /\ pc.agent = "commandLoop" => told = "online"

(* As long as every reconnection found wifi joined, no socket is lost: the *)
(* only one open is the one tcptrans_close would close.                    *)
NoSocketLeak == ~skipped => open \subseteq {xSock}

(* The observer sees sessions built in order, announced once, and lost.    *)
link ==
  CASE xConnState \in {"MQTTReq", "MQTTConned", "Online"} -> "session"
    [] xConnState = "TCPConned" -> "tcp"
    [] OTHER -> "none"

C == INSTANCE Connection

AnnouncesConnection == C!Spec

(* An agent that is to reconnect never stops trying: it opens connection   *)
(* after connection, or is in a session.                                   *)
KeepsTrying ==
  <>[](xRecon /\ isJoined /\ pc.agent # "down" /\ told # "unheard") =>
    []<>(pc.agent \in {"connect", "commandLoop"})

(* If wifi stays joined from some time on and no reconnection ever found   *)
(* it lost, the agent gets Online again and again.                         *)
ReconnectsWhileJoined ==
  (<>[](wifi = "joined") /\ []~skipped) => []<>(xConnState = "Online")

(* "Network offline, awaiting reconnect" (l.296): if wifi stays joined     *)
(* from some time on, the agent gets Online again and again.               *)
Reconnects == <>[](wifi = "joined") => []<>(xConnState = "Online")
=============================================================================
