------------------------------ MODULE MqttTask ------------------------------
(***************************************************************************)
(* The calls of mqtttask.c: mqtttask_publish, _subscribe and _ping hand    *)
(* their parameters, which live in the frame of the caller, to a task      *)
(* created for the call.  That child copies them, sends the command,       *)
(* passes the status to its parent by a notification, and waits for the    *)
(* command callback before it frees the copies and deletes itself.  The    *)
(* parent waits for the notification of the child, then returns; its frame *)
(* is gone with that.                                                      *)
(*                                                                         *)
(* Nothing in the repository calls these functions any more (mqttagent.c   *)
(* keeps the calls in comments); callers are any tasks.  The agent is      *)
(* external: it accepts a command or not, and calls an accepted one back   *)
(* unless its acknowledgement is lost with the session (AgentCommands).    *)
(***************************************************************************)
CONSTANTS
  Parents,    \* the tasks that call
  Children,   \* the tasks the heap has room for
  NULL

ASSUME NullIsNoParent == NULL \notin Parents

Statuses == {"MQTTSuccess", "MQTTSendFailed"}

ASSUME NullIsNoStatus == NULL \notin Statuses

VARIABLES
  parent,     \* "idle", "create" (params filled), "wait" for the status
  notif,      \* the notification value pending for a parent, or NULL
  child,      \* where a child is: see ChildPlaces
  of,         \* whose params the child was given a pointer to
  status,     \* what MQTTAgent_Publish / _Subscribe / _Ping returned to it
  command,    \* its command: "none", "out", "called" (back), "lost"
  given       \* the child's own notification is pending

vars == <<parent, notif, child, of, status, command, given>>

ChildPlaces ==
  { "none",     \* no such task
    "copy",     \* created: about to read params
    "call",     \* about to send the command
    "report",   \* about to notify params->parentTask
    "wait" }    \* waiting for the callback

Init ==
  /\ parent = [p \in Parents |-> "idle"]
  /\ notif = [p \in Parents |-> NULL]
  /\ child = [k \in Children |-> "none"]
  /\ of = [k \in Children |-> NULL]
  /\ status = [k \in Children |-> NULL]
  /\ command = [k \in Children |-> "none"]
  /\ given = [k \in Children |-> FALSE]

-----------------------------------------------------------------------------
(* The parent.                                                             *)

Call(p) ==
  /\ parent[p] = "idle"
  /\ parent' = [parent EXCEPT ![p] = "create"]
  /\ UNCHANGED <<notif, child, of, status, command, given>>

(* Mutant: parentTask is the handle of the task that is created.           *)
CreateChild_OwnHandle(p) ==
  /\ parent[p] = "create"
  /\ \E k \in Children :
       /\ child[k] = "none"
       /\ child' = [child EXCEPT ![k] = "copy"]
       /\ of' = [of EXCEPT ![k] = k]
  /\ parent' = [parent EXCEPT ![p] = "wait"]
  /\ UNCHANGED <<notif, status, command, given>>

(* The child gets a pointer to the caller's params.                        *)
CreateChild(p) ==
  /\ parent[p] = "create"
  /\ \E k \in Children :
       /\ child[k] = "none"
       /\ child' = [child EXCEPT ![k] = "copy"]
       /\ of' = [of EXCEPT ![k] = p]
  /\ parent' = [parent EXCEPT ![p] = "wait"]
  /\ UNCHANGED <<notif, status, command, given>>

(* xTaskCreate finds no memory for the task; its result is not looked at.  *)
CreateFails(p) ==
  /\ parent[p] = "create"
  /\ \A k \in Children : child[k] # "none"
  /\ parent' = [parent EXCEPT ![p] = "wait"]
  /\ UNCHANGED <<notif, child, of, status, command, given>>

Return(p) ==
  /\ parent[p] = "wait"
  /\ notif[p] # NULL
  /\ notif' = [notif EXCEPT ![p] = NULL]
  /\ parent' = [parent EXCEPT ![p] = "idle"]
  /\ UNCHANGED <<child, of, status, command, given>>

Parent(p) == CreateChild(p) \/ CreateFails(p) \/ Return(p)

-----------------------------------------------------------------------------
(* The child.                                                              *)

(* Mutant: the child lets its parent go on before it copied anything.      *)
CopyParams_NotifiesFirst(k) ==
  /\ child[k] = "copy"
  /\ child' = [child EXCEPT ![k] = "call"]
  /\ notif' = [notif EXCEPT ![of[k]] = "MQTTSuccess"]
  /\ UNCHANGED <<parent, of, status, command, given>>

CopyParams(k) ==
  /\ child[k] = "copy"
  /\ child' = [child EXCEPT ![k] = "call"]
  /\ UNCHANGED <<parent, notif, of, status, command, given>>

SendCommand(k) ==
  /\ child[k] = "call"
  /\ child' = [child EXCEPT ![k] = "report"]
  /\ \E s \in Statuses :
       /\ status' = [status EXCEPT ![k] = s]
       /\ command' = IF s = "MQTTSuccess" THEN [command EXCEPT ![k] = "out"] ELSE command
  /\ UNCHANGED <<parent, notif, of, given>>

(* Mutant: a child whose command was refused only deletes itself.          *)
Report_OnlySuccess(k) ==
  /\ child[k] = "report"
  /\ child' = [child EXCEPT ![k] = IF status[k] = "MQTTSuccess" THEN "wait" ELSE "none"]
  /\ notif' = IF status[k] = "MQTTSuccess"
                THEN [notif EXCEPT ![of[k]] = status[k]] ELSE notif
  /\ UNCHANGED <<parent, of, status, command, given>>

(* params->parentTask is read here, after the command was sent.            *)
Report(k) ==
  /\ child[k] = "report"
  /\ child' = [child EXCEPT ![k] = "wait"]
  /\ notif' = [notif EXCEPT ![of[k]] = status[k]]
  /\ UNCHANGED <<parent, of, status, command, given>>

(* Mutant: the child does not wait for the callback.                       *)
Finish_AtOnce(k) ==
  /\ child[k] = "wait"
  /\ child' = [child EXCEPT ![k] = "none"]
  /\ of' = [of EXCEPT ![k] = NULL]
  /\ status' = [status EXCEPT ![k] = NULL]
  /\ given' = [given EXCEPT ![k] = FALSE]
  /\ UNCHANGED <<parent, notif, command>>

(* The callback notified the child: it frees its copies, deletes itself.   *)
Finish(k) ==
  /\ child[k] = "wait"
  /\ given[k]
  /\ child' = [child EXCEPT ![k] = "none"]
  /\ of' = [of EXCEPT ![k] = NULL]
  /\ status' = [status EXCEPT ![k] = NULL]
  /\ command' = [command EXCEPT ![k] = "none"]
  /\ given' = [given EXCEPT ![k] = FALSE]
  /\ UNCHANGED <<parent, notif>>

Child(k) == CopyParams(k) \/ SendCommand(k) \/ Report(k) \/ Finish(k)

-----------------------------------------------------------------------------
(* The agent task: the command was acknowledged, or failed.                *)
Callback(k) ==
  /\ command[k] = "out"
  /\ command' = [command EXCEPT ![k] = "called"]
  /\ given' = [given EXCEPT ![k] = TRUE]
  /\ UNCHANGED <<parent, notif, child, of, status>>

AckLost(k) ==
  /\ command[k] = "out"
  /\ command' = [command EXCEPT ![k] = "lost"]
  /\ UNCHANGED <<parent, notif, child, of, status, given>>

Next ==
  \/ \E p \in Parents : Call(p) \/ Parent(p)
  \/ \E k \in Children : Child(k) \/ Callback(k) \/ AckLost(k)

Spec == Init /\ [][Next]_vars

(* Every task is scheduled again and again, and the agent concludes every  *)
(* command in some way.                                                    *)
Fairness ==
  /\ \A p \in Parents : WF_vars(Parent(p))
  /\ \A k \in Children : WF_vars(Child(k)) /\ WF_vars(Callback(k) \/ AckLost(k))

FairSpec == Spec /\ Fairness

-----------------------------------------------------------------------------
TypeOK ==
  /\ parent \in [Parents -> {"idle", "create", "wait"}]
  /\ notif \in [Parents -> Statuses \cup {NULL}]
  /\ child \in [Children -> ChildPlaces]
  /\ of \in [Children -> Parents \cup {NULL}]
  /\ status \in [Children -> Statuses \cup {NULL}]
  /\ command \in [Children -> {"none", "out", "called", "lost"}]
  /\ given \in [Children -> BOOLEAN]

UsesParams(k) == child[k] \in {"copy", "call", "report"}

(* The child follows a pointer into its parent's frame until it reports;   *)
(* up to then the parent is still waiting, for this child and no other,    *)
(* and no notification is pending that could let it return earlier.        *)
ParamsAlive ==
  /\ \A k \in Children :
       UsesParams(k) => of[k] \in Parents /\ parent[of[k]] = "wait" /\ notif[of[k]] = NULL
  /\ \A j, k \in Children : UsesParams(j) /\ UsesParams(k) /\ of[j] = of[k] => j = k

(* The agent composes the packet from the child's copies and calls back    *)
(* through the child's frame: both exist as long as the command is out,    *)
(* and what a task finds there is the notification of its own command.     *)
CopiesAlive ==
  \A k \in Children :
    /\ command[k] # "none" => child[k] \in {"report", "wait"}
    /\ given[k] => command[k] = "called"

Served(p) == notif[p] # NULL \/ \E k \in Children : of[k] = p /\ UsesParams(k)

(* A parent whose child was created returns, whatever became of the        *)
(* command: it waits for the status, not for the acknowledgement.          *)
ServedParentReturns == \A p \in Parents : Served(p) ~> parent[p] = "idle"
=============================================================================
