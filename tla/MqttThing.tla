----------------------------- MODULE MqttThing -----------------------------
(***************************************************************************)
(* The thing of mqttthing.c: its task, which joins wifi, starts the agent, *)
(* announces "online" after every connection, pings and joins wifi again,  *)
(* and the application tasks that publish and subscribe through it.  All   *)
(* of them format the topic they want into the one topicBuffer of the      *)
(* thing and hand the agent a pointer to it; nothing serialises them.      *)
(*                                                                         *)
(* The agent is what AgentService says it is to its clients, and what      *)
(* AgentSystem implements.  Of its steps the thing sees the callback when  *)
(* a session stands, and that a packet is composed from the topic buffer   *)
(* when the agent executes the command.  With fewer tasks than structures  *)
(* in the pool a command is refused only before the agent is started.      *)
(*                                                                         *)
(* Time is left out: when the keep-alive ping is due is a free choice.     *)
(***************************************************************************)
EXTENDS Integers

CONSTANTS
  Apps,       \* the application tasks
  AppTopics   \* the topics they publish and subscribe to

ASSUME AppsAssumption == "thing" \notin Apps
ASSUME TopicsAssumption == AppTopics \cap {"STATUS", "nothing"} = {}

Callers == Apps \cup {"thing"}

Topics == AppTopics \cup {"STATUS", "nothing"}

Retries == 3    \* retries in wifi_join

VARIABLES
  pc,            \* where each task is: see ThingPlaces and AppPlaces
  asked,         \* the topic of the call a task is in, or was in last
  topicBuffer,   \* the topic in the thing's buffer
  statusUpdateNeeded,
  attempts,      \* of wifi_join
  wifi,          \* what the driver says of the link: see WifiStates
  started, link, op, command,   \* the agent: see AgentService
  announced,     \* history: the status was sent in the current session
  late           \* history: a session came up before the last status was cleared

Service == INSTANCE AgentService WITH Clients <- Callers

vars == <<pc, op, asked, command, topicBuffer, statusUpdateNeeded, attempts,
          wifi, started, link, announced, late>>

WifiStates ==
  { "joined",
    "down",       \* no link; CYW43_LINK_DOWN is 0
    "failed" }    \* joining failed, no network, bad password: below 0

NotJoined == WifiStates \ {"joined"}

ThingPlaces ==
  { "boot",       \* before wifi_init
    "returned",   \* the task function returned: wifi_init failed
    "join",       \* in wifi_join
    "setup",      \* about to format the topic of the will
    "start",      \* about to copy it, and to connect and start the agent
    "check",      \* top of the loop: about to read the connection state
    "flag",       \* about to read statusUpdateNeeded
    "clear",      \* about to clear it
    "keepalive",  \* about to compare the timestamps
    "rejoin" }    \* about to look at wifi_isJoined

CallPlaces ==
  { "topic",      \* about to format the topic into the buffer
    "call",       \* about to send the command
    "wait" }      \* waiting for the notification

Init ==
  /\ Service!Init
  /\ pc = [c \in Callers |-> IF c = "thing" THEN "boot" ELSE "idle"]
  /\ op = [c \in Callers |-> "publish"]
  /\ asked = [c \in Callers |-> "STATUS"]
  /\ topicBuffer = "nothing"
  /\ statusUpdateNeeded = FALSE
  /\ attempts = 0
  /\ wifi = "down"
  /\ announced = FALSE
  /\ late = FALSE

GoTo(c, place) == pc' = [pc EXCEPT ![c] = place]

serviceVars == <<started, link, op, command>>
historyVars == <<announced, late>>

-----------------------------------------------------------------------------
(* Joining wifi.                                                           *)

WifiInit ==
  /\ pc["thing"] = "boot"
  /\ GoTo("thing", "join")
  /\ attempts' = 0
  /\ UNCHANGED <<asked, topicBuffer, statusUpdateNeeded, wifi, serviceVars, historyVars>>

WifiInitFails ==
  /\ pc["thing"] = "boot"
  /\ GoTo("thing", "returned")
  /\ UNCHANGED <<asked, topicBuffer, statusUpdateNeeded, attempts, wifi, serviceVars, historyVars>>

(* Where wifi_join was called: before the agent was started, or from the   *)
(* loop.  Its result is not looked at.                                     *)
AfterJoin == IF started THEN "check" ELSE "setup"

JoinSucceeds ==
  /\ pc["thing"] = "join"
  /\ wifi' = "joined"
  /\ GoTo("thing", AfterJoin)
  /\ UNCHANGED <<asked, topicBuffer, statusUpdateNeeded, attempts, serviceVars, historyVars>>

(* Mutant: the attempts are counted, but never looked at.                  *)
JoinFails_Forever ==
  /\ pc["thing"] = "join"
  /\ attempts' = attempts + 1
  /\ wifi' \in NotJoined
  /\ UNCHANGED pc
  /\ UNCHANGED <<asked, topicBuffer, statusUpdateNeeded, serviceVars, historyVars>>

(* With noGiveUp = true the attempts are counted, and the third is the     *)
(* last one.  What the driver says after a failed attempt depends on why   *)
(* it failed.                                                              *)
JoinFails ==
  /\ pc["thing"] = "join"
  /\ attempts' = attempts + 1
  /\ wifi' \in NotJoined
  /\ IF attempts' >= Retries THEN GoTo("thing", AfterJoin) ELSE UNCHANGED pc
  /\ UNCHANGED <<asked, topicBuffer, statusUpdateNeeded, serviceVars, historyVars>>

-----------------------------------------------------------------------------
(* The thing's task, up to the loop: the will's topic goes through the     *)
(* topic buffer, too, where mqttagent_setData copies it from.              *)

FormatWill ==
  /\ pc["thing"] = "setup"
  /\ topicBuffer' = "STATUS"
  /\ GoTo("thing", "start")
  /\ UNCHANGED <<asked, statusUpdateNeeded, attempts, wifi, serviceVars, historyVars>>

StartAgent ==
  /\ pc["thing"] = "start"
  /\ Service!Start
  /\ GoTo("thing", "check")
  /\ UNCHANGED <<asked, topicBuffer, statusUpdateNeeded, attempts, wifi, historyVars>>

-----------------------------------------------------------------------------
(* The loop of the thing's task.                                           *)

CheckOnline ==
  /\ pc["thing"] = "check"
  /\ GoTo("thing", IF link = "down" THEN "rejoin" ELSE "flag")
  /\ UNCHANGED <<asked, topicBuffer, statusUpdateNeeded, attempts, wifi, serviceVars, historyVars>>

CheckStatus ==
  /\ pc["thing"] = "flag"
  /\ IF statusUpdateNeeded
       THEN /\ Service!NewCall("thing", "publish")
            /\ asked' = [asked EXCEPT !["thing"] = "STATUS"]
            /\ GoTo("thing", "topic")
       ELSE GoTo("thing", "keepalive") /\ UNCHANGED <<asked, serviceVars>>
  /\ UNCHANGED <<topicBuffer, statusUpdateNeeded, attempts, wifi, historyVars>>

(* The flag is cleared whatever the publish returned.                      *)
ClearStatus ==
  /\ pc["thing"] = "clear"
  /\ statusUpdateNeeded' = FALSE
  /\ GoTo("thing", "keepalive")
  /\ UNCHANGED <<asked, topicBuffer, attempts, wifi, serviceVars, historyVars>>

KeepAlive ==
  /\ pc["thing"] = "keepalive"
  /\ \/ Service!NewCall("thing", "ping") /\ GoTo("thing", "call")
     \/ UNCHANGED serviceVars /\ GoTo("thing", "rejoin")
  /\ UNCHANGED <<asked, topicBuffer, statusUpdateNeeded, attempts, wifi, historyVars>>

(* wifi_isJoined(): a link that is down and did not fail counts as joined. *)
isJoined == wifi # "failed"

(* Mutant: wifi is looked at only when the agent is online.                *)
Rejoin_OnlyOnline ==
  /\ pc["thing"] = "rejoin"
  /\ IF ~isJoined /\ link # "down" THEN attempts' = 0 /\ GoTo("thing", "join")
                                   ELSE UNCHANGED attempts /\ GoTo("thing", "check")
  /\ UNCHANGED <<asked, topicBuffer, statusUpdateNeeded, wifi, serviceVars, historyVars>>

Rejoin ==
  /\ pc["thing"] = "rejoin"
  /\ IF isJoined THEN UNCHANGED attempts /\ GoTo("thing", "check")
                 ELSE attempts' = 0 /\ GoTo("thing", "join")
  /\ UNCHANGED <<asked, topicBuffer, statusUpdateNeeded, wifi, serviceVars, historyVars>>

Thing ==
  \/ WifiInit \/ WifiInitFails \/ JoinFails
  \/ FormatWill \/ StartAgent
  \/ CheckOnline \/ CheckStatus \/ ClearStatus \/ KeepAlive \/ Rejoin

-----------------------------------------------------------------------------
(* The blocking calls, of the thing's task and of the applications'.       *)

(* mqttthing_publish and mqttthing_subscribe.                              *)
AppCalls(a, o, t) ==
  /\ pc[a] = "idle"
  /\ Service!NewCall(a, o)
  /\ asked' = [asked EXCEPT ![a] = t]
  /\ GoTo(a, "topic")
  /\ UNCHANGED <<topicBuffer, statusUpdateNeeded, attempts, wifi, historyVars>>

FormatTopic(c) ==
  /\ pc[c] = "topic"
  /\ topicBuffer' = asked[c]
  /\ GoTo(c, "call")
  /\ UNCHANGED <<asked, statusUpdateNeeded, attempts, wifi, serviceVars, historyVars>>

(* Mutant: the thing clears the flag after its ping, too.                  *)
AfterCall_Clears(c) == IF c \in Apps THEN "idle" ELSE "clear"

(* Where a task goes on when its call returned.                            *)
AfterCall(c) ==
  IF c \in Apps THEN "idle" ELSE IF op[c] = "publish" THEN "clear" ELSE "rejoin"

(* Before the agent is started the command is refused: a publish returns,  *)
(* a subscribe waits all the same.                                         *)
SendCommand(c) ==
  /\ pc[c] = "call"
  /\ IF started
       THEN Service!Send(c) /\ GoTo(c, "wait")
       ELSE /\ UNCHANGED serviceVars
            /\ GoTo(c, IF op[c] = "publish" THEN AfterCall(c) ELSE "wait")
  /\ UNCHANGED <<asked, topicBuffer, statusUpdateNeeded, attempts, wifi, historyVars>>

Return(c) ==
  /\ pc[c] = "wait"
  /\ Service!Return(c)
  /\ GoTo(c, AfterCall(c))
  /\ UNCHANGED <<asked, topicBuffer, statusUpdateNeeded, attempts, wifi, historyVars>>

Caller(c) == FormatTopic(c) \/ SendCommand(c) \/ Return(c)

-----------------------------------------------------------------------------
(* The agent.                                                              *)

(* setConnState(Online), before the callback.                              *)
SessionUp ==
  /\ Service!SessionUp
  /\ announced' = FALSE
  /\ UNCHANGED <<pc, asked, topicBuffer, statusUpdateNeeded, attempts, wifi, late>>

(* The last status is out, or failed, but its flag is not cleared.         *)
StatusConcluding ==
  \/ pc["thing"] = "clear"
  \/ pc["thing"] = "wait" /\ op["thing"] = "publish" /\ command["thing"] # "queued"

(* Mutant: only the application is told, the flag is not set.              *)
OnlineCallback_NoStatus ==
  /\ Service!Announce
  /\ late' = (late \/ StatusConcluding)
  /\ UNCHANGED <<pc, asked, topicBuffer, statusUpdateNeeded, attempts, wifi, announced>>

(* MQTTOnlineCallback, then the command loop.                              *)
OnlineCallback ==
  /\ Service!Announce
  /\ statusUpdateNeeded' = TRUE
  /\ late' = (late \/ StatusConcluding)
  /\ UNCHANGED <<pc, asked, topicBuffer, attempts, wifi, announced>>

(* The command is executed: a publish or subscribe packet is composed from *)
(* what the topic buffer holds now.                                        *)
Execute(c) ==
  /\ Service!Execute(c)
  /\ announced' = (announced \/ (c = "thing" /\ op[c] = "publish"))
  /\ UNCHANGED <<pc, asked, topicBuffer, statusUpdateNeeded, attempts, wifi, late>>

Acknowledge(c) ==
  /\ Service!Acknowledge(c)
  /\ UNCHANGED <<pc, asked, topicBuffer, statusUpdateNeeded, attempts, wifi, historyVars>>

(* The end of a session.                                                   *)
Unannounced ==
  /\ announced' = FALSE
  /\ UNCHANGED <<pc, asked, topicBuffer, statusUpdateNeeded, attempts, wifi, late>>

ExecuteFails(c) == Service!ExecuteFails(c) /\ Unannounced

SessionLost == Service!SessionLost /\ Unannounced

WifiLost ==
  /\ wifi = "joined"
  /\ wifi' \in NotJoined
  /\ UNCHANGED <<pc, asked, topicBuffer, statusUpdateNeeded, attempts, serviceVars, historyVars>>

-----------------------------------------------------------------------------
(* Everything but new calls of the application.                            *)
System ==
  \/ Thing \/ JoinSucceeds
  \/ \E c \in Callers : Caller(c) \/ Execute(c) \/ ExecuteFails(c) \/ Acknowledge(c)
  \/ SessionUp \/ OnlineCallback \/ SessionLost \/ WifiLost

Next ==
  \/ System
  \/ \E a \in Apps, o \in {"publish", "subscribe"}, t \in AppTopics : AppCalls(a, o, t)

Spec == Init /\ [][Next]_vars

(* Every task is scheduled again and again, an access point that is tried  *)
(* again and again is joined at last, the agent gets online when wifi is   *)
(* joined often enough, and it serves every command and acknowledgement    *)
(* unless the session ends first; without wifi it does end (keep-alive).   *)
Fairness ==
  /\ WF_vars(Thing)
  /\ SF_vars(JoinSucceeds)
  /\ \A c \in Callers :
       /\ WF_vars(Caller(c))
       /\ SF_vars(Execute(c) \/ ExecuteFails(c))
       /\ SF_vars(Acknowledge(c))
  /\ SF_vars(SessionUp /\ wifi = "joined")
  /\ WF_vars(OnlineCallback)
  /\ WF_vars(SessionLost /\ wifi # "joined")

FairSpec == Spec /\ Fairness

-----------------------------------------------------------------------------
TypeOK ==
  /\ pc \in [Callers -> ThingPlaces \cup CallPlaces \cup {"idle"}]
  /\ op \in [Callers -> {"publish", "subscribe", "ping"}]
  /\ asked \in [Callers -> Topics]
  /\ command \in [Callers -> Service!CommandStates]
  /\ topicBuffer \in Topics
  /\ statusUpdateNeeded \in BOOLEAN
  /\ attempts \in 0 .. Retries
  /\ wifi \in WifiStates
  /\ started \in BOOLEAN
  /\ link \in {"down", "announcing", "up"}
  /\ announced \in BOOLEAN
  /\ late \in BOOLEAN

(* The task waits for an acknowledgement that was lost with its session.   *)
Stuck(c) == command[c] = "orphan"

(* The thing's own command waits for a session, the session for wifi, and  *)
(* wifi for the thing, the only one who joins it.                          *)
Circle == command["thing"] = "queued" /\ link = "down" /\ wifi # "joined"

(* The link is down and wifi_isJoined() does not say so: after a plain     *)
(* loss of the link, or a third attempt to join that left the driver in    *)
(* that state.                                                             *)
Unnoticed == wifi = "down" /\ pc["thing"] \notin {"boot", "join"}

(* Whatever wifi_join returns, a thing that is not caught in a call of its *)
(* own joins wifi again: the loop looks at the link every round, online or *)
(* not (mqttthing.c:115).  It does so only after a failure the driver      *)
(* reports: "Returns if joined to the network and we have a link"          *)
(* (wifihelper.c:133) does not hold of a link that is just down.           *)
RejoinsUnlessCaught ==
  (wifi # "joined" /\ pc["thing"] # "returned") ~>
    (wifi = "joined" \/ Unnoticed \/ Stuck("thing") \/ Circle \/ pc["thing"] = "returned")

(* A call waits for ever only for an acknowledgement lost with its         *)
(* session, or because nobody joins wifi, the thing being caught in a call *)
(* of its own or the loss unnoticed: without these three, every call with  *)
(* a command returns, through any number of outages.                       *)
ReturnsUnlessCaught ==
  []((\A c \in Callers : ~Stuck(c)) /\ ~Circle /\ ~Unnoticed) =>
    \A c \in Callers :
      (pc[c] = "wait" /\ command[c] # "none") ~> (pc[c] # "wait")

(* "Finally let others know we are online" (mqttthing.c:29): every session *)
(* is announced by a status message, or ends first; unless one came up     *)
(* while the thing was still concluding the status before, whose flag is   *)
(* then cleared with the new one's.                                        *)
AnnouncedUnlessLate ==
  []~late => (link = "up" ~> (announced \/ link # "up" \/ Stuck("thing")))

(* What is left of it at every moment: while a session stands its status   *)
(* was sent or is still asked for, so that the flag is never cleared for a *)
(* session that was not announced; with the same exception.                *)
StatusOwed ==
  link = "up" /\ ~late => announced \/ statusUpdateNeeded

(* "Publishing to TESTTEMP" (test/main.c:155): a publish or subscribe goes *)
(* to the topic its caller named.  The agent composes the packet from the  *)
(* buffer when it executes the command, so the buffer must hold that topic *)
(* as long as the command is queued.                                       *)
TopicsIntact ==
  \A c \in Callers :
    command[c] = "queued" /\ op[c] # "ping" => topicBuffer = asked[c]
=============================================================================
