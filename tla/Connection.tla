----------------------------- MODULE Connection -----------------------------
(***************************************************************************)
(* What an observer of the agent may rely on: a session is built in order  *)
(* on a link and announced while it stands; its loss is announced when the *)
(* link is gone, and before another link is built.                         *)
(***************************************************************************)
VARIABLES
  link,    \* "none", "tcp" (a connected socket), "session" (the broker accepted)
  told     \* the last announcement: "nothing", "online", "offline"

vars == <<link, told>>

Init == link = "none" /\ told = "nothing"

Build ==
  /\ \/ link = "none" /\ told # "online" /\ link' = "tcp"
     \/ link = "tcp" /\ link' = "session"
  /\ UNCHANGED told

Lose == link # "none" /\ link' = "none" /\ UNCHANGED told

Announce ==
  /\ \/ link = "session" /\ told # "online" /\ told' = "online"
     \/ link = "none" /\ told' = "offline"
  /\ UNCHANGED link

Next == Build \/ Lose \/ Announce

Spec == Init /\ [][Next]_vars
=============================================================================
