---------------------------- MODULE AgentService ----------------------------
(***************************************************************************)
(* What the agent is to the tasks that call it, without its task, pool,    *)
(* queue and sockets.  Sessions come up, are announced and end.  A client  *)
(* has at most one command, which waits for a session, is executed in it,  *)
(* and then concluded: a ping at once, a publish or subscribe by its       *)
(* acknowledgement, if that comes in the same session.  A session that     *)
(* ends orphans the commands it has not acknowledged.                      *)
(*                                                                         *)
(* AgentSystem implements this; MqttThing is built on it.                  *)
(***************************************************************************)
CONSTANT Clients

VARIABLES
  started,   \* mqttagent_start has run
  link,      \* "down", "announcing" (Online, in the callback), "up"
  op,        \* the call a client is in, or was in last
  command    \* its command: see CommandStates

vars == <<started, link, op, command>>

CommandStates ==
  { "none",      \* no command
    "queued",    \* in the command queue
    "sent",      \* waiting for the acknowledgement
    "done",      \* concluded: the notification is on its way or pending
    "orphan" }   \* the session that owed the acknowledgement is gone

Init ==
  /\ started = FALSE
  /\ link = "down"
  /\ command = [c \in Clients |-> "none"]

Start == ~started /\ started' = TRUE /\ UNCHANGED <<link, op, command>>

-----------------------------------------------------------------------------
(* Sessions.                                                               *)

SessionUp ==
  /\ started
  /\ link = "down"
  /\ link' = "announcing"
  /\ UNCHANGED <<started, op, command>>

Announce ==
  /\ link = "announcing"
  /\ link' = "up"
  /\ UNCHANGED <<started, op, command>>

(* Failed, if any, is the command whose packet the transport did not take. *)
SessionEnds(failed) ==
  /\ link = "up"
  /\ link' = "down"
  /\ command' = [c \in Clients |->
                   IF c \in failed THEN "done"
                   ELSE IF command[c] = "sent" THEN "orphan" ELSE command[c]]
  /\ UNCHANGED <<started, op>>

SessionLost == SessionEnds({})

-----------------------------------------------------------------------------
(* Commands.                                                               *)

NewCall(c, o) ==
  /\ command[c] = "none"
  /\ op' = [op EXCEPT ![c] = o]
  /\ UNCHANGED <<started, link, command>>

Becomes(c, state) ==
  /\ command' = [command EXCEPT ![c] = state]
  /\ UNCHANGED <<started, link, op>>

Send(c) == started /\ command[c] = "none" /\ Becomes(c, "queued")

Execute(c) ==
  /\ link = "up"
  /\ command[c] = "queued"
  /\ Becomes(c, IF op[c] = "ping" THEN "done" ELSE "sent")

ExecuteFails(c) == command[c] = "queued" /\ SessionEnds({c})

Acknowledge(c) == link = "up" /\ command[c] = "sent" /\ Becomes(c, "done")

Return(c) == command[c] = "done" /\ Becomes(c, "none")

Next ==
  \/ Start \/ SessionUp \/ Announce \/ SessionLost
  \/ \E c \in Clients :
       \/ \E o \in {"publish", "subscribe", "ping"} : NewCall(c, o)
       \/ Send(c) \/ Execute(c) \/ ExecuteFails(c) \/ Acknowledge(c) \/ Return(c)

Spec == Init /\ [][Next]_vars
=============================================================================
