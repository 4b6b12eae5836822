---------------------------- MODULE AgentSystem ----------------------------
(***************************************************************************)
(* The agent as a whole: the connection state machine (MqttAgent) and the  *)
(* command path (AgentCommands) are the same task.  mqttagent_run is in    *)
(* case Online exactly while MQTTAgent_CommandLoop runs, what ends the     *)
(* loop is what takes the state machine to Offline, and mqttagent_start    *)
(* starts both.  Callers call at any time, Online or not.                  *)
(*                                                                         *)
(* The agent is used as MQTTThing does: connect, start, nothing else.      *)
(*                                                                         *)
(* AgentCommands assumes that the agent gets into its command loop again   *)
(* and again; here that follows from the state machine, wherever the state *)
(* machine does get there.                                                 *)
(***************************************************************************)
EXTENDS MqttAgent

CONSTANTS Tasks, Ops, PoolSize, QueueLength, NULL   \* see AgentCommands

ASSUME UsedByThing == AppCalls = {}

VARIABLES
  pool, initStatus,                                     \* the pool
  calls, op, held, notif, result, confirmed,            \* the callers
  cmd, queue,                                           \* the command path
  worker, cur, code, ends, acks, live,                  \* the command loop
  lost, abandoned

Cmd == INSTANCE AgentCommands WITH pc <- calls, agent <- worker

(* What AgentCommands assumes of the constants.                            *)
ASSUME CommandsAssumption ==
  /\ PoolSize \in Nat \ {0} /\ QueueLength \in Nat \ {0}
  /\ Ops \subseteq Cmd!Operations
  /\ NULL \notin Cmd!Slots /\ NULL \notin Tasks
  /\ NULL \notin Cmd!Operations \cup Cmd!Statuses

cmdVars == <<pool, initStatus, calls, op, held, notif, result, confirmed, cmd, queue,
             worker, cur, code, ends, acks, live, lost, abandoned>>

sysVars == <<vars, cmdVars>>

SysInit == Init /\ Cmd!Init

-----------------------------------------------------------------------------
(* Steps that both halves take.                                            *)

StartSystem == Start /\ Cmd!StartAgent

(* mqttagent_run calls MQTTAgent_CommandLoop.                              *)
EnterLoop == LoopOnline /\ Cmd!Connect

(* MQTTAgent_CommandLoop returns an error: a packet could not be read, or  *)
(* the command in work could not be sent.                                  *)
LeaveLoop ==
  /\ CommandLoopFails
  /\ Cmd!ProcessFails \/ (ends /\ Cmd!Release)

-----------------------------------------------------------------------------
(* Steps of one half.                                                      *)

(* An acknowledgement comes in over the open connection.                   *)
AckArrives(s) == wifi = "joined" /\ xSock \in open /\ Cmd!Ack(s) /\ UNCHANGED vars

(* One round of the command loop, without its end.                         *)
LoopRuns ==
  /\ \/ Cmd!Receive \/ Cmd!ReceiveTimesOut
     \/ Cmd!ExecAwaitsAck \/ Cmd!ExecCompletes \/ Cmd!ExecFails
     \/ Cmd!Notify \/ (~ends /\ Cmd!Release) \/ Cmd!ProcessDone
  /\ UNCHANGED vars

CallerRuns(t) == Cmd!Caller(t) /\ UNCHANGED vars

NewCall(t) == \E o \in Ops : Cmd!Call(t, o) /\ UNCHANGED vars

MachineRuns == RunOffline /\ UNCHANGED cmdVars

AppRuns == AppInCall /\ UNCHANGED cmdVars

ThingConnects == Connect /\ UNCHANGED cmdVars

Wifi == (WifiLost \/ WifiJoined) /\ UNCHANGED cmdVars

SysNext ==
  \/ StartSystem \/ EnterLoop \/ LeaveLoop
  \/ \E s \in Cmd!Slots : AckArrives(s)
  \/ \E t \in Tasks : CallerRuns(t) \/ NewCall(t)
  \/ LoopRuns \/ MachineRuns \/ ThingConnects \/ AppRuns \/ Wifi

SysSpec == SysInit /\ [][SysNext]_sysVars

(* As in the two halves, but for what each assumed of the other.           *)
SysFairness ==
  /\ WF_sysVars(MachineRuns \/ EnterLoop)
  /\ WF_sysVars(StartSystem \/ ThingConnects \/ AppRuns)
  /\ WF_sysVars(LoopRuns \/ LeaveLoop)
  /\ SF_sysVars(LeaveLoop /\ (wifi # "joined" \/ xSock \notin open))
  /\ SF_sysVars(MachineRuns /\ TCPConnects)
  /\ SF_sysVars(MachineRuns /\ MQTTConnects)
  /\ WF_sysVars(Wifi /\ WifiJoined)
  /\ \A t \in Tasks : WF_sysVars(CallerRuns(t))
  /\ \A s \in Cmd!Slots : SF_sysVars(AckArrives(s))

SysFairSpec == SysSpec /\ SysFairness

-----------------------------------------------------------------------------
SysTypeOK == TypeOK /\ Cmd!TypeOK

(* The two halves never get out of step: commands are worked on in case    *)
(* Online and nowhere else, and an acknowledgement is only owed by a       *)
(* session that stands now, announced and on an open socket: what an       *)
(* earlier session owed is not waited for in a later one (cleanSession).   *)
OneTask ==
  /\ worker = "down" <=> pc.agent = "down"
  /\ worker \in {"recv", "exec", "notify", "release", "process"} <=> pc.agent = "commandLoop"
  /\ live # {} => pc.agent = "commandLoop" /\ told = "online" /\ xSock \in open

(* What AgentCommands assumes of the state machine: with wifi joined for   *)
(* good and no socket lost the agent does take its steps, the one into the *)
(* command loop included.                                                  *)
ConnectsAgain ==
  (<>[](wifi = "joined") /\ []~skipped) => WF_cmdVars(Cmd!Agent)

(* A command accepted at any time, Online or not, is concluded through any *)
(* number of outages, unless its acknowledgement was lost with a session.  *)
CallsSurviveOutages ==
  (<>[](wifi = "joined") /\ []~skipped) => Cmd!AcceptedCallReturns

-----------------------------------------------------------------------------
(* What the callers see of all this, without task, pool, queue and socket. *)

(* A session is up from its announcement until the command loop fails; it  *)
(* is over already while the command that failed is concluded.             *)
sessionLink ==
  IF xConnState # "Online" \/ pc.agent = "setState" \/ ends THEN "down"
  ELSE IF pc.agent = "observe" THEN "announcing" ELSE "up"

Service == INSTANCE AgentService
             WITH Clients <- Tasks, started <- (worker # "down"), link <- sessionLink,
                  command <- Cmd!commandState

(* The agent is to its callers what AgentService says: a command accepted  *)
(* at any time is executed once, in a session that stands and has been     *)
(* announced, and concluded by what came of it in that session; a session  *)
(* takes the acknowledgements it owes with it, and nothing else.           *)
ProvidesService == Service!Spec
=============================================================================
