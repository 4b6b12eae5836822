--------------------------- MODULE BlockingCalls ---------------------------
(***************************************************************************)
(* What mqttagent_mqttPublish, mqttagent_mqttSubscribe and                 *)
(* mqttagent_mqttPing promise their callers: each task is in at most one   *)
(* call, the work of a call is done at most once and only while the call   *)
(* is open, and the call returns true if and only if it was done.          *)
(***************************************************************************)
CONSTANT Tasks

VARIABLES
  call,       \* "none", "open" (begun), "done" (the broker did the work)
  returned    \* the value the last call returned

vars == <<call, returned>>

Init ==
  /\ call = [t \in Tasks |-> "none"]
  /\ returned = [t \in Tasks |-> FALSE]

Begin(t) ==
  /\ call[t] = "none"
  /\ call' = [call EXCEPT ![t] = "open"]
  /\ UNCHANGED returned

Done(t) ==
  /\ call[t] = "open"
  /\ call' = [call EXCEPT ![t] = "done"]
  /\ UNCHANGED returned

Return(t) ==
  /\ call[t] # "none"
  /\ call' = [call EXCEPT ![t] = "none"]
  /\ returned' = [returned EXCEPT ![t] = (call[t] = "done")]

Next == \E t \in Tasks : Begin(t) \/ Done(t) \/ Return(t)

Spec == Init /\ [][Next]_vars
=============================================================================
