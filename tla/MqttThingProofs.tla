-------------------------- MODULE MqttThingProofs --------------------------
(***************************************************************************)
(* The thing and its applications, for any number of application tasks and *)
(* topics.                                                                 *)
(***************************************************************************)
EXTENDS MqttThing, TLAPS

-----------------------------------------------------------------------------
(* The thing takes its steps as written, and the other tasks only the      *)
(* calls.  The agent is started when the loop is entered.                  *)
Places ==
  /\ \A a \in Apps : pc[a] \in CallPlaces \cup {"idle"} /\ op[a] # "ping"
  /\ pc["thing"] # "idle" /\ op["thing"] # "subscribe"
  /\ pc["thing"] \in {"topic", "clear"} => op["thing"] = "publish"
  /\ pc["thing"] = "join" => attempts < Retries
  /\ pc["thing"] \in {"boot", "returned", "setup", "start"} => ~started
  /\ pc["thing"] \in {"check", "flag", "clear", "keepalive", "rejoin"} \cup CallPlaces => started

(* A command is under way only while its caller waits.  A caller waits     *)
(* without one only if it subscribed before the agent was started.         *)
Calls ==
  /\ ~started => link = "down" /\ \A c \in Callers : command[c] = "none"
  /\ \A c \in Callers : command[c] # "none" => pc[c] = "wait"
  /\ \A c \in Callers : pc[c] = "wait" /\ command[c] = "none" => op[c] = "subscribe"

(* A status that is about to be cleared was sent in the session that       *)
(* stands.                                                                 *)
Told ==
  /\ announced => link = "up"
  /\ link = "up" /\ ~late /\ StatusConcluding => announced

(* The inductive invariant.                                                *)
Inv == TypeOK /\ Places /\ Calls /\ Told /\ StatusOwed

(* Initially no task is in a call, and there is no session.                *)
LEMMA InitInv == Init => Inv
  <1> SUFFICES ASSUME Init PROVE Inv
    OBVIOUS
  <1> USE AppsAssumption DEF Init, Callers, Service!Init
  <1>1. pc["thing"] = "boot" /\ \A a \in Apps : pc[a] = "idle"
    OBVIOUS
  <1>2. TypeOK
    <2>1. pc \in [Callers -> ThingPlaces \cup CallPlaces \cup {"idle"}]
      BY DEF ThingPlaces
    <2>2. /\ op \in [Callers -> {"publish", "subscribe", "ping"}]
          /\ command \in [Callers -> Service!CommandStates]
      BY DEF Service!CommandStates
    <2>3. asked \in [Callers -> Topics] /\ topicBuffer \in Topics
      BY DEF Topics
    <2>4. attempts \in 0 .. Retries
      BY DEF Retries
    <2> QED BY <2>1, <2>2, <2>3, <2>4 DEF TypeOK, WifiStates
  <1>3. Places /\ Calls
    BY <1>1 DEF Places, Calls, CallPlaces
  <1>4. Told /\ StatusOwed
    BY <1>1 DEF Told, StatusOwed, StatusConcluding
  <1> QED BY <1>2, <1>3, <1>4 DEF Inv

-----------------------------------------------------------------------------
(* The steps of the thing.                                                 *)
LEMMA ThingInv == Inv /\ (Thing \/ JoinSucceeds) => Inv'
  <1> SUFFICES ASSUME Inv, Thing \/ JoinSucceeds PROVE Inv'
    OBVIOUS
  <1> USE AppsAssumption
      DEF Inv, TypeOK, Places, Calls, Told, StatusOwed, Callers, ThingPlaces, CallPlaces, Topics,
          Retries, GoTo, StatusConcluding, serviceVars, historyVars, AfterJoin, WifiStates, NotJoined
  <1>1. CASE WifiInit \/ WifiInitFails
    BY <1>1 DEF WifiInit, WifiInitFails
  <1>2. CASE JoinFails \/ JoinSucceeds
    <2>1. CASE JoinFails
      BY <2>1 DEF JoinFails
    <2>2. CASE JoinSucceeds
      BY <2>2 DEF JoinSucceeds
    <2> QED BY <1>2, <2>1, <2>2
  <1>3. CASE FormatWill
    BY <1>3 DEF FormatWill
  <1>4. CASE StartAgent
    BY <1>4 DEF StartAgent, Service!Start
  <1>5. CASE CheckOnline \/ Rejoin
    BY <1>5 DEF CheckOnline, Rejoin
  <1>6. CASE CheckStatus
    <2>0. pc["thing"] = "flag" /\ UNCHANGED <<topicBuffer, statusUpdateNeeded, attempts, wifi,
                                             started, link, command, announced, late>>
      BY <1>6 DEF CheckStatus, Service!NewCall
    <2>1. CASE /\ op' = [op EXCEPT !["thing"] = "publish"]
               /\ asked' = [asked EXCEPT !["thing"] = "STATUS"]
               /\ pc' = [pc EXCEPT !["thing"] = "topic"]
      BY <2>0, <2>1
    <2>2. CASE op' = op /\ asked' = asked /\ pc' = [pc EXCEPT !["thing"] = "keepalive"]
      BY <2>0, <2>2
    <2> QED BY <1>6, <2>1, <2>2 DEF CheckStatus, Service!NewCall
  <1>7. CASE ClearStatus
    BY <1>7 DEF ClearStatus
  <1>8. CASE KeepAlive
    <2>0. pc["thing"] = "keepalive" /\ UNCHANGED <<asked, topicBuffer, statusUpdateNeeded, attempts,
                                                  wifi, started, link, command, announced, late>>
      BY <1>8 DEF KeepAlive, Service!NewCall
    <2>1. CASE op' = [op EXCEPT !["thing"] = "ping"] /\ pc' = [pc EXCEPT !["thing"] = "call"]
      BY <2>0, <2>1
    <2>2. CASE op' = op /\ pc' = [pc EXCEPT !["thing"] = "rejoin"]
      BY <2>0, <2>2
    <2> QED BY <1>8, <2>1, <2>2 DEF KeepAlive, Service!NewCall
  <1> QED BY <1>1, <1>2, <1>3, <1>4, <1>5, <1>6, <1>7, <1>8 DEF Thing

(* The calls of the applications, and the steps of a call.                 *)
LEMMA CallerInv ==
  ASSUME Inv, NEW c \in Callers,
         \/ Caller(c)
         \/ \E o \in {"publish", "subscribe"}, t \in AppTopics : c \in Apps /\ AppCalls(c, o, t)
  PROVE  Inv'
  <1> USE AppsAssumption
      DEF Inv, TypeOK, Places, Calls, Told, StatusOwed, Callers, ThingPlaces, CallPlaces, Topics,
          GoTo, StatusConcluding, serviceVars, historyVars, AfterCall, Service!Becomes
  <1>1. ASSUME NEW o \in {"publish", "subscribe"}, NEW t \in AppTopics, c \in Apps,
               AppCalls(c, o, t)
        PROVE  Inv'
    BY <1>1 DEF AppCalls, Service!NewCall
  <1>2. CASE FormatTopic(c)
    BY <1>2 DEF FormatTopic
  <1>3. CASE SendCommand(c)
    BY <1>3 DEF SendCommand, Service!Send, Service!CommandStates
  <1>4. CASE Return(c)
    BY <1>4 DEF Return, Service!Return, Service!CommandStates
  <1> QED BY <1>1, <1>2, <1>3, <1>4 DEF Caller

(* The steps of the agent and of the link.                                 *)
LEMMA AgentInv ==
  ASSUME Inv,
         \/ SessionUp \/ OnlineCallback \/ SessionLost \/ WifiLost
         \/ \E c \in Callers : Execute(c) \/ ExecuteFails(c) \/ Acknowledge(c)
  PROVE  Inv'
  <1> USE AppsAssumption
      DEF Inv, TypeOK, Places, Calls, Told, StatusOwed, Callers,
          StatusConcluding, serviceVars, historyVars, Unannounced, Service!Becomes,
          Service!CommandStates
  <1>1. CASE SessionUp
    BY <1>1 DEF SessionUp, Service!SessionUp
  <1>2. CASE OnlineCallback
    BY <1>2 DEF OnlineCallback, Service!Announce
  <1>3. CASE SessionLost
    BY <1>3 DEF SessionLost, Service!SessionLost, Service!SessionEnds
  <1>4. CASE WifiLost
    BY <1>4 DEF WifiLost, WifiStates, NotJoined
  <1>5. ASSUME NEW c \in Callers, Execute(c) PROVE Inv'
    BY <1>5 DEF Execute, Service!Execute
  <1>6. ASSUME NEW c \in Callers, ExecuteFails(c) PROVE Inv'
    BY <1>6 DEF ExecuteFails, Service!ExecuteFails, Service!SessionEnds
  <1>7. ASSUME NEW c \in Callers, Acknowledge(c) PROVE Inv'
    BY <1>7 DEF Acknowledge, Service!Acknowledge
  <1> QED BY <1>1, <1>2, <1>3, <1>4, <1>5, <1>6, <1>7

(* Every step keeps the invariant.                                         *)
LEMMA NextInv == Inv /\ [Next]_vars => Inv'
  <1> SUFFICES ASSUME Inv, [Next]_vars PROVE Inv'
    OBVIOUS
  <1>1. CASE UNCHANGED vars
    BY <1>1 DEF vars, Inv, TypeOK, Places, Calls, Told, StatusOwed, StatusConcluding
  <1>2. CASE \E a \in Apps, o \in {"publish", "subscribe"}, t \in AppTopics : AppCalls(a, o, t)
    BY <1>2, CallerInv DEF Callers
  <1>3. CASE System
    BY <1>3, ThingInv, CallerInv, AgentInv DEF System
  <1> QED BY <1>1, <1>2, <1>3 DEF Next

(* The invariant holds throughout.                                         *)
LEMMA Invariance == Spec => []Inv
  BY InitInv, NextInv, PTL DEF Spec

(* Every variable keeps its type; wifi_join tries three times at most.     *)
THEOREM TypeCorrect == Spec => []TypeOK
  <1>1. Inv => TypeOK
    BY DEF Inv
  <1> QED BY <1>1, Invariance, PTL

(* The flag is not cleared for a session that was not announced, unless it *)
(* came up while the status before was being concluded.                    *)
THEOREM StatusIsOwed == Spec => []StatusOwed
  <1>1. Inv => StatusOwed
    BY DEF Inv
  <1> QED BY <1>1, Invariance, PTL

-----------------------------------------------------------------------------
(* Used by the thing and its applications, the agent is what AgentService  *)
(* says: they only take steps of its clients.                              *)
LEMMA StepUsesService == [Next]_vars => [Service!Next]_Service!vars
  <1> SUFFICES ASSUME [Next]_vars PROVE [Service!Next]_Service!vars
    OBVIOUS
  <1> USE DEF serviceVars, historyVars
  <1>a. UNCHANGED serviceVars => UNCHANGED Service!vars
    BY DEF Service!vars
  <1>b. "thing" \in Callers /\ Apps \subseteq Callers
    BY DEF Callers
  <1>1. CASE UNCHANGED vars
    BY <1>1 DEF vars, Service!vars
  <1>2. CASE Thing \/ JoinSucceeds
    <2>1. UNCHANGED serviceVars \/ Service!Start \/ Service!NewCall("thing", "publish")
          \/ Service!NewCall("thing", "ping")
      BY <1>2 DEF Thing, WifiInit, WifiInitFails, JoinFails, JoinSucceeds, FormatWill, StartAgent,
                  CheckOnline, CheckStatus, ClearStatus, KeepAlive, Rejoin
    <2> QED BY <1>a, <1>b, <2>1 DEF Service!Next
  <1>3. ASSUME NEW c \in Callers, Caller(c) PROVE [Service!Next]_Service!vars
    <2>1. UNCHANGED serviceVars \/ Service!Send(c) \/ Service!Return(c)
      BY <1>3 DEF Caller, FormatTopic, SendCommand, Return
    <2> QED BY <1>a, <2>1 DEF Service!Next
  <1>4. ASSUME NEW a \in Apps, NEW o \in {"publish", "subscribe"}, NEW t \in AppTopics,
               AppCalls(a, o, t)
        PROVE  [Service!Next]_Service!vars
    BY <1>b, <1>4 DEF AppCalls, Service!Next
  <1>5. ASSUME NEW c \in Callers, Execute(c) \/ ExecuteFails(c) \/ Acknowledge(c)
        PROVE  [Service!Next]_Service!vars
    BY <1>5 DEF Execute, ExecuteFails, Acknowledge, Service!Next
  <1>6. CASE SessionUp \/ OnlineCallback \/ SessionLost
    BY <1>6 DEF SessionUp, OnlineCallback, SessionLost, Service!Next
  <1>7. CASE WifiLost
    BY <1>7, <1>a DEF WifiLost
  <1> QED BY <1>1, <1>2, <1>3, <1>4, <1>5, <1>6, <1>7 DEF Next, System

(* What AgentSystem implements is what the thing is built on.              *)
THEOREM ServiceUsed == Spec => Service!Spec
  <1>1. Init => Service!Init
    BY DEF Init
  <1> QED BY <1>1, StepUsesService, PTL DEF Spec, Service!Spec

-----------------------------------------------------------------------------
(* A call that waits and has no command that could still be concluded.     *)
Caught(c) == pc[c] = "wait" /\ command[c] \in {"none", "orphan"}

(* A caller without a command is an application that subscribed before the *)
(* agent was started.                                                      *)
THEOREM CaughtInSubscribe ==
  Spec => [](\A c \in Callers :
               Caught(c) /\ ~Stuck(c) => c \in Apps /\ op[c] = "subscribe")
  <1>1. Inv => \A c \in Callers : Caught(c) /\ ~Stuck(c) => c \in Apps /\ op[c] = "subscribe"
    BY DEF Inv, Places, Calls, Caught, Stuck, Callers
  <1> QED BY <1>1, Invariance, PTL

(* What is caught stays caught: no later session, and nothing the thing    *)
(* does, brings such a call back.                                          *)
LEMMA CaughtStep ==
  ASSUME Inv, [Next]_vars, NEW c \in Callers, Caught(c)
  PROVE  Caught(c)'
  <1> USE AppsAssumption
      DEF Caught, Inv, TypeOK, Places, Calls, Callers, GoTo, serviceVars, historyVars
  <1>1. CASE UNCHANGED vars
    BY <1>1 DEF vars
  <1>2. CASE Thing \/ JoinSucceeds
    <2>1. pc["thing"] # "wait" /\ (\A d \in Apps : pc'[d] = pc[d]) /\ command' = command
      <3>1. CASE WifiInit \/ WifiInitFails \/ JoinFails \/ JoinSucceeds
        BY <3>1 DEF WifiInit, WifiInitFails, JoinFails, JoinSucceeds
      <3>2. CASE FormatWill \/ StartAgent
        BY <3>2 DEF FormatWill, StartAgent, Service!Start
      <3>3. CASE CheckOnline \/ CheckStatus \/ ClearStatus \/ KeepAlive \/ Rejoin
        BY <3>3 DEF CheckOnline, CheckStatus, ClearStatus, KeepAlive, Rejoin, Service!NewCall
      <3> QED BY <1>2, <3>1, <3>2, <3>3 DEF Thing
    <2> QED BY <2>1
  <1>3. ASSUME NEW d \in Callers, Caller(d) PROVE Caught(c)'
    BY <1>3 DEF Caller, FormatTopic, SendCommand, Return, Service!Send, Service!Return,
                Service!Becomes
  <1>4. ASSUME NEW a \in Apps, NEW o \in {"publish", "subscribe"}, NEW t \in AppTopics,
               AppCalls(a, o, t)
        PROVE  Caught(c)'
    BY <1>4 DEF AppCalls, Service!NewCall
  <1>5. ASSUME NEW d \in Callers, Execute(d) \/ ExecuteFails(d) \/ Acknowledge(d)
        PROVE  Caught(c)'
    BY <1>5 DEF Execute, ExecuteFails, Acknowledge, Service!Execute, Service!ExecuteFails,
                Service!Acknowledge, Service!SessionEnds, Service!Becomes, Unannounced
  <1>6. CASE SessionUp \/ OnlineCallback \/ SessionLost \/ WifiLost
    BY <1>6 DEF SessionUp, OnlineCallback, SessionLost, WifiLost, Service!SessionUp,
                Service!Announce, Service!SessionLost, Service!SessionEnds, Unannounced
  <1> QED BY <1>1, <1>2, <1>3, <1>4, <1>5, <1>6 DEF Next, System

(* A caught call never returns.                                            *)
THEOREM CaughtForGood == Spec => [][\A c \in Callers : Caught(c) => Caught(c)']_vars
  <1>1. Inv /\ [Next]_vars => \A c \in Callers : Caught(c) => Caught(c)'
    BY CaughtStep
  <1> QED BY <1>1, Invariance, PTL DEF Spec

(* A link that went down unnoticed is not joined again: wifi_isJoined()    *)
(* keeps saying that it is, whatever the agent and the applications do.    *)
THEOREM UnnoticedForGood == Spec => [][Unnoticed => Unnoticed']_vars
  <1>1. ASSUME Inv, [Next]_vars, Unnoticed PROVE Unnoticed'
    <2> USE <1>1, AppsAssumption
        DEF Inv, TypeOK, Places, Callers, Unnoticed, GoTo, serviceVars, historyVars
    <2>1. CASE UNCHANGED vars
      BY <2>1 DEF vars
    <2>2. CASE Thing \/ JoinSucceeds
      BY <2>2 DEF Thing, WifiInit, WifiInitFails, JoinFails, JoinSucceeds, FormatWill, StartAgent,
                  CheckOnline, CheckStatus, ClearStatus, KeepAlive, Rejoin, isJoined
    <2>3. ASSUME NEW c \in Callers, Caller(c) PROVE Unnoticed'
      BY <2>3 DEF Caller, FormatTopic, SendCommand, Return, AfterCall
    <2>4. ASSUME NEW a \in Apps, NEW o \in {"publish", "subscribe"}, NEW t \in AppTopics,
                 AppCalls(a, o, t)
          PROVE  Unnoticed'
      BY <2>4 DEF AppCalls
    <2>5. ASSUME NEW c \in Callers, Execute(c) \/ ExecuteFails(c) \/ Acknowledge(c)
          PROVE  Unnoticed'
      BY <2>5 DEF Execute, ExecuteFails, Acknowledge, Unannounced
    <2>6. CASE SessionUp \/ OnlineCallback \/ SessionLost \/ WifiLost
      BY <2>6 DEF SessionUp, OnlineCallback, SessionLost, WifiLost, Unannounced
    <2> QED BY <2>1, <2>2, <2>3, <2>4, <2>5, <2>6 DEF Next, System
  <1>2. Inv /\ [Next]_vars => (Unnoticed => Unnoticed')
    BY <1>1
  <1> QED BY <1>2, Invariance, PTL DEF Spec

-----------------------------------------------------------------------------
(* A task that formats a topic, or has formatted one that was not yet      *)
(* copied (the will's) or composed into a packet.                          *)
Formats(c) ==
  \/ pc[c] \in {"setup", "start", "topic"}
  \/ op[c] # "ping" /\ (pc[c] = "call" \/ command[c] = "queued")

(* What the code does not see to: one task at a time.                      *)
OneFormats == \A c, d \in Callers : Formats(c) /\ Formats(d) => c = d

(* The will has the topic it is meant to have.                             *)
WillIntact == pc["thing"] = "start" => topicBuffer = "STATUS"

(* Then the buffer keeps what was formatted.                               *)
BufferKept ==
  /\ \A c \in Callers :
       op[c] # "ping" /\ (pc[c] = "call" \/ command[c] = "queued") => topicBuffer = asked[c]
  /\ WillIntact

(* No step of one task spoils the buffer of another.                       *)
LEMMA StepKeepsBuffer == Inv /\ OneFormats /\ BufferKept /\ [Next]_vars => BufferKept'
  <1> SUFFICES ASSUME Inv, OneFormats, BufferKept, [Next]_vars PROVE BufferKept'
    OBVIOUS
  <1> USE AppsAssumption
      DEF Inv, TypeOK, Places, Calls, Callers, GoTo, serviceVars, historyVars, Formats, OneFormats,
          WillIntact, BufferKept, Service!CommandStates
  <1>1. CASE UNCHANGED vars
    BY <1>1 DEF vars
  <1>2. CASE WifiInit \/ WifiInitFails \/ JoinFails \/ JoinSucceeds
    BY <1>2 DEF WifiInit, WifiInitFails, JoinFails, JoinSucceeds, AfterJoin
  <1>3. CASE FormatWill
    BY <1>3 DEF FormatWill
  <1>4. CASE StartAgent
    BY <1>4 DEF StartAgent, Service!Start
  <1>5. CASE CheckOnline \/ ClearStatus \/ Rejoin
    BY <1>5 DEF CheckOnline, ClearStatus, Rejoin
  <1>6. CASE CheckStatus
    <2>0. pc["thing"] = "flag" /\ UNCHANGED <<topicBuffer, command>>
      BY <1>6 DEF CheckStatus, Service!NewCall
    <2>1. CASE /\ op' = [op EXCEPT !["thing"] = "publish"]
               /\ asked' = [asked EXCEPT !["thing"] = "STATUS"]
               /\ pc' = [pc EXCEPT !["thing"] = "topic"]
      BY <2>0, <2>1
    <2>2. CASE op' = op /\ asked' = asked /\ pc' = [pc EXCEPT !["thing"] = "keepalive"]
      BY <2>0, <2>2
    <2> QED BY <1>6, <2>1, <2>2 DEF CheckStatus, Service!NewCall
  <1>7. CASE KeepAlive
    <2>0. pc["thing"] = "keepalive" /\ UNCHANGED <<asked, topicBuffer, command>>
      BY <1>7 DEF KeepAlive, Service!NewCall
    <2>1. CASE op' = [op EXCEPT !["thing"] = "ping"] /\ pc' = [pc EXCEPT !["thing"] = "call"]
      BY <2>0, <2>1
    <2>2. CASE op' = op /\ pc' = [pc EXCEPT !["thing"] = "rejoin"]
      BY <2>0, <2>2
    <2> QED BY <1>7, <2>1, <2>2 DEF KeepAlive, Service!NewCall
  <1>8. ASSUME NEW c \in Callers, FormatTopic(c) PROVE BufferKept'
    BY <1>8 DEF FormatTopic
  <1>9. ASSUME NEW c \in Callers, SendCommand(c) PROVE BufferKept'
    BY <1>9 DEF SendCommand, Service!Send, Service!Becomes, AfterCall
  <1>10. ASSUME NEW c \in Callers, Return(c) PROVE BufferKept'
    BY <1>10 DEF Return, Service!Return, Service!Becomes, AfterCall
  <1>11. ASSUME NEW a \in Apps, NEW o \in {"publish", "subscribe"}, NEW t \in AppTopics,
                AppCalls(a, o, t)
         PROVE  BufferKept'
    BY <1>11 DEF AppCalls, Service!NewCall
  <1>12. ASSUME NEW c \in Callers, Execute(c) \/ ExecuteFails(c) \/ Acknowledge(c)
         PROVE  BufferKept'
    BY <1>12 DEF Execute, ExecuteFails, Acknowledge, Service!Execute, Service!ExecuteFails,
                 Service!Acknowledge, Service!SessionEnds, Service!Becomes, Unannounced
  <1>13. CASE SessionUp \/ OnlineCallback \/ SessionLost \/ WifiLost
    BY <1>13 DEF SessionUp, OnlineCallback, SessionLost, WifiLost, Service!SessionUp,
                 Service!Announce, Service!SessionLost, Service!SessionEnds, Unannounced
  <1> QED BY <1>1, <1>2, <1>3, <1>4, <1>5, <1>6, <1>7, <1>8, <1>9, <1>10, <1>11, <1>12, <1>13
          DEF Next, System, Thing, Caller

(* What would be enough for TopicsIntact: one task at a time between the   *)
(* formatting of a topic and the packet, or the will, that is made of it.  *)
(* The mutex of the thing is taken for the timestamp only (l.145).         *)
THEOREM OneAtATimeKeepsTopics == Spec /\ []OneFormats => [](TopicsIntact /\ WillIntact)
  <1>1. Init => BufferKept
    BY DEF Init, BufferKept, WillIntact, Callers, Service!Init
  <1>2. BufferKept => TopicsIntact /\ WillIntact
    BY DEF BufferKept, TopicsIntact
  <1> QED BY <1>1, <1>2, StepKeepsBuffer, Invariance, PTL DEF Spec
=============================================================================
