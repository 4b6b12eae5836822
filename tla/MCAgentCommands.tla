-------------------------- MODULE MCAgentCommands --------------------------
(* Instances of AgentCommands for TLC.                                     *)
EXTENDS AgentCommands, TLC

CONSTANTS t1, t2, t3

TwoTasks   == {t1, t2}
ThreeTasks == {t1, t2, t3}
Calls      == Operations
AckedCalls == {"publish", "subscribe"}
Publishes  == {"publish"}
NoRefusal  == {"publish", "ping"}

TaskSymmetry == Permutations(Tasks)
=============================================================================
