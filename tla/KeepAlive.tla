----------------------------- MODULE KeepAlive -----------------------------
(***************************************************************************)
(* The keep-alive of mqttthing.c.  lastMessageTimestamp is refreshed by    *)
(* every blocking call of the thing when it returns, and by the agent's    *)
(* online callback; the thing's loop looks at it once a second and pings   *)
(* when it is older than half of MQTTKEEPALIVETIME.  The mutex makes each  *)
(* access atomic, but the loop reads the clock before it takes the mutex,  *)
(* and writes that reading back after the ping.                            *)
(*                                                                         *)
(* The loop's own calls wait without limit, too: the status for its        *)
(* acknowledgement, the ping for a session.  No acknowledgement is         *)
(* promised in any time, or at all.                                        *)
(*                                                                         *)
(* Time is discrete and the variables hold true times.  The code keeps     *)
(* them in a TickType_t, which wraps: its values are the true ones modulo  *)
(* WordSize, and Elapsed is computed from these.                           *)
(*                                                                         *)
(* Wifi stays joined: a link that goes down without wifi is a session that *)
(* ends.  coreMQTT's own keep-alive, in MQTT_ProcessLoop, is left out.     *)
(***************************************************************************)
EXTENDS Integers

CONSTANTS
  WordSize,       \* 2^32, the values of TickType_t
  HalfKeepAlive,  \* MQTTKEEPALIVETIME * 1000 / 2 (mqttagent.h: 60 seconds)
  LoopPeriod,     \* the vTaskDelay of the loop
  RoundLag,       \* what the steps of one round take together
  MaxTime         \* bound of the model: when time ends

ASSUME TimesAssumption ==
  WordSize \in Nat /\ HalfKeepAlive \in Nat /\ LoopPeriod \in Nat \ {0}
  /\ RoundLag \in Nat /\ MaxTime \in Nat

KeepAliveTime == 2 * HalfKeepAlive   \* what the broker was promised

ASSUME WideEnough == WordSize > KeepAliveTime

Period == LoopPeriod + 2 * RoundLag   \* from one comparison to the next, at most

ASSUME FastEnough == 2 * Period <= HalfKeepAlive

(* How long after the last packet the timestamp may be refreshed, or the   *)
(* next comparison be made, with enough of KeepAliveTime left.             *)
Slack == HalfKeepAlive - Period

VARIABLES
  time,      \* the tick count
  pc,        \* the loop: see Places
  timer,     \* what is left of its delay, or of RoundLag
  read,      \* currentTime, the loop's reading of the clock
  stamped,   \* lastMessageTimestamp
  statusUpdateNeeded,
  link,      \* "down", "announcing" (Online, in the callback), "up"
  heard,     \* when the broker was last sent a packet
  overdue,   \* history: since then a call that was refused or acknowledged
             \* after Slack refreshed the timestamp, or kept the loop waiting
  raced,     \* history: stamped was written since the loop read the clock
  pinged     \* history: the reading with which the last ping was decided

vars == <<time, pc, timer, read, stamped, statusUpdateNeeded, link, heard,
          overdue, raced, pinged>>

Places ==
  { "check",    \* top of the loop: about to read the connection state
    "publish",  \* in mqttagent_mqttPublish, the status is not sent yet
    "confirm",  \* the status is sent: it waits for the acknowledgement
    "clear",    \* the publish returned: about to clear statusUpdateNeeded
    "read",     \* about to read the clock
    "compare",  \* about to take the mutex and to compare
    "ping",     \* in mqttagent_mqttPing
    "stamp",    \* the ping returned: about to write the timestamp
    "sleep",    \* in vTaskDelay
    "stuck" }   \* the ping was refused, or the acknowledgement of the
                \* status was lost with its session: it waits for ever

Init ==
  /\ time = 0
  /\ pc = "check"
  /\ timer = RoundLag
  /\ read = 0
  /\ stamped = 0
  /\ statusUpdateNeeded = FALSE
  /\ link = "down"
  /\ heard = 0
  /\ overdue = FALSE
  /\ raced = FALSE
  /\ pinged = -WordSize

loopVars == <<pc, timer, read, pinged>>
sessionVars == <<link, statusUpdateNeeded>>
sentVars == <<heard, overdue>>

(* A packet is sent to the broker.                                         *)
PacketSent == heard' = time /\ overdue' = FALSE

-----------------------------------------------------------------------------
(* The loop of the thing.                                                  *)

(* Mutant: the delay is converted for a tick of half the rate.             *)
Sleep_Doubled ==
  /\ pc' = "sleep"
  /\ timer' = 2 * LoopPeriod
  /\ read' = 0
  /\ raced' = FALSE

(* currentTime goes out of scope.                                          *)
Sleep ==
  /\ pc' = "sleep"
  /\ timer' = LoopPeriod
  /\ read' = 0
  /\ raced' = FALSE

(* Mutant: the difference is not taken modulo the word.                    *)
Elapsed_Wide(now, stamp) == (now % WordSize) - (stamp % WordSize)

(* currentTime - ttlTimestamp, both unsigned.                              *)
Elapsed(now, stamp) == ((now % WordSize) - (stamp % WordSize)) % WordSize

CheckOnline ==
  /\ pc = "check"
  /\ IF link = "down"
       THEN Sleep
       ELSE /\ pc' = IF statusUpdateNeeded THEN "publish" ELSE "read"
            /\ UNCHANGED <<timer, read, raced>>
  /\ UNCHANGED <<time, stamped, sessionVars, sentVars, pinged>>

(* The agent executes the publish.                                         *)
ExecuteStatus ==
  /\ pc = "publish"
  /\ link = "up"
  /\ PacketSent
  /\ pc' = "confirm"
  /\ UNCHANGED <<time, timer, read, stamped, sessionVars, raced, pinged>>

(* The publish returns: refused, or acknowledged after whatever time.      *)
StatusReturns ==
  /\ pc \in {"publish", "confirm"}
  /\ pc' = "clear"
  /\ UNCHANGED <<time, timer, read, stamped, sessionVars, sentVars, raced, pinged>>

(* The timestamp is not refreshed.                                         *)
ClearStatus ==
  /\ pc = "clear"
  /\ statusUpdateNeeded' = FALSE
  /\ pc' = "read"
  /\ UNCHANGED <<time, timer, read, stamped, link, sentVars, raced, pinged>>

ReadClock ==
  /\ pc = "read"
  /\ read' = time
  /\ raced' = FALSE
  /\ pc' = "compare"
  /\ UNCHANGED <<time, timer, stamped, sessionVars, sentVars, pinged>>

Compare ==
  /\ pc = "compare"
  /\ IF Elapsed(read, stamped) > HalfKeepAlive
       THEN pc' = "ping" /\ pinged' = read /\ UNCHANGED <<timer, read, raced>>
       ELSE Sleep /\ UNCHANGED pinged
  /\ UNCHANGED <<time, stamped, sessionVars, sentVars>>

(* The agent executes the ping, which completes with its sending.          *)
ExecutePing ==
  /\ pc = "ping"
  /\ link = "up"
  /\ PacketSent
  /\ pc' = "stamp"
  /\ UNCHANGED <<time, timer, read, stamped, sessionVars, raced, pinged>>

(* No structure, or no room in the queue.                                  *)
PingRefused ==
  /\ pc = "ping"
  /\ pc' = "stuck"
  /\ UNCHANGED <<time, timer, read, stamped, sessionVars, sentVars, raced, pinged>>

(* Mutant: the timestamp stays as it is.                                   *)
StampPing_Forgets ==
  /\ pc = "stamp"
  /\ Sleep
  /\ UNCHANGED <<time, stamped, sessionVars, sentVars, pinged>>

(* Whatever the ping returned; the clock is not read again.                *)
StampPing ==
  /\ pc = "stamp"
  /\ stamped' = read
  /\ Sleep
  /\ UNCHANGED <<time, sessionVars, sentVars, pinged>>

Wake ==
  /\ pc = "sleep"
  /\ timer = 0
  /\ pc' = "check"
  /\ timer' = RoundLag
  /\ UNCHANGED <<time, read, stamped, sessionVars, sentVars, raced, pinged>>

Loop ==
  \/ CheckOnline \/ ExecuteStatus \/ StatusReturns \/ ClearStatus
  \/ ReadClock \/ Compare
  \/ ExecutePing \/ PingRefused \/ StampPing \/ Wake

-----------------------------------------------------------------------------
(* mqttthing_publish and mqttthing_subscribe of the application tasks.     *)

(* The clock is read and the timestamp written under the mutex.            *)
Refresh ==
  /\ stamped' = time
  /\ overdue' = (time > heard + Slack)
  /\ raced' = (raced \/ pc = "compare")

(* The agent executes their command.                                       *)
CallSends ==
  /\ link = "up"
  /\ PacketSent
  /\ UNCHANGED <<time, loopVars, stamped, sessionVars, raced>>

(* They return at any time: a call is acknowledged after whatever time, a  *)
(* publish may be refused or fail.  The timestamp is refreshed all the     *)
(* same.                                                                   *)
CallReturns ==
  /\ Refresh
  /\ UNCHANGED <<time, loopVars, sessionVars, heard>>

-----------------------------------------------------------------------------
(* The session.                                                            *)

(* CONNECT was sent; setConnState(Online), before the callback.            *)
SessionUp ==
  /\ link = "down"
  /\ link' = "announcing"
  /\ PacketSent
  /\ UNCHANGED <<time, loopVars, stamped, statusUpdateNeeded, raced>>

(* MQTTOnlineCallback; a command of the loop that waited for the session   *)
(* is executed next.                                                       *)
OnlineCallback ==
  /\ link = "announcing"
  /\ link' = "up"
  /\ statusUpdateNeeded' = TRUE
  /\ Refresh
  /\ timer' = IF pc \in {"publish", "ping"} THEN RoundLag ELSE timer
  /\ UNCHANGED <<time, pc, read, heard, pinged>>

(* A command whose packet the transport did not take is concluded; a       *)
(* status that waits for its acknowledgement never is.                     *)
SessionLost ==
  /\ link = "up"
  /\ link' = "down"
  /\ \/ pc # "confirm" /\ UNCHANGED pc
     \/ pc = "publish" /\ pc' = "clear"
     \/ pc = "ping" /\ pc' = "stamp"
     \/ pc = "confirm" /\ pc' = "stuck"
  /\ UNCHANGED <<time, timer, read, stamped, statusUpdateNeeded, sentVars, raced, pinged>>

-----------------------------------------------------------------------------
(* The loop has no time limit while a command of its own waits for a       *)
(* session, or its status for an acknowledgement.                          *)
Blocked ==
  \/ pc \in {"publish", "ping"} /\ link # "up"
  \/ pc \in {"confirm", "stuck"}

Tick ==
  /\ time < MaxTime
  /\ Blocked \/ timer > 0
  /\ timer' = IF Blocked THEN timer ELSE timer - 1
  /\ time' = time + 1
  /\ overdue' = (overdue \/ (pc = "confirm" /\ time' + timer > heard + Slack))
  /\ UNCHANGED <<pc, read, stamped, sessionVars, heard, raced, pinged>>

Next ==
  \/ Tick \/ Loop
  \/ CallSends \/ CallReturns
  \/ SessionUp \/ OnlineCallback \/ SessionLost

Spec == Init /\ [][Next]_vars

-----------------------------------------------------------------------------
TypeOK ==
  /\ time \in Nat
  /\ pc \in Places
  /\ timer \in 0 .. IF pc = "sleep" THEN LoopPeriod ELSE RoundLag
  /\ read \in 0 .. time
  /\ stamped \in 0 .. time
  /\ link \in {"down", "announcing", "up"}
  /\ statusUpdateNeeded \in BOOLEAN
  /\ heard \in 0 .. time
  /\ overdue \in BOOLEAN
  /\ raced \in BOOLEAN
  /\ pinged \in {-WordSize} \cup 0 .. time

(* "we send a keepalive ping" (mqttthing.c:21): the broker is never left   *)
(* without a packet for longer than it was promised, also when the clock   *)
(* wraps and however the writes of the timestamp interleave.  There are    *)
(* two exceptions.  The last packet may have been followed, after Slack,   *)
(* by the return of a refused or slowly acknowledged call, which refreshes *)
(* the timestamp (l.143), or by a status still waiting for its             *)
(* acknowledgement (l.95).  And the loop may be stuck, in a refused ping   *)
(* (mqttagent.c:584) or in a status whose session ended (l.514).           *)
BrokerHears ==
  link = "up" /\ ~overdue /\ pc # "stuck" => time <= heard + KeepAliveTime

(* A late write of an old reading, an outage or the wrap of the clock      *)
(* never make the thing ping more than once in half the keep-alive time;   *)
(* only a call that writes its timestamp between the loop's reading of the *)
(* clock and its comparison (l.100, l.102) does: the unsigned difference   *)
(* is then nearly 2^32.                                                    *)
PingsSpaced ==
  [][pc = "compare" /\ pc' = "ping" => raced \/ read > pinged + HalfKeepAlive]_vars
=============================================================================
