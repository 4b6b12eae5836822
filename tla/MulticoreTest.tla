--------------------------- MODULE MulticoreTest ---------------------------
(***************************************************************************)
(* The application of multicore-test/main.c.  Core 0 makes a reading every *)
(* five seconds and puts it into a queue between the cores, or drops it    *)
(* when the queue is full.  The main task, on core 1, takes at most one    *)
(* reading a second and publishes it through the thing, in a call that     *)
(* returns at once or blocks, for a while or for ever: for AgentCommands   *)
(* and MqttThing say how long.  It ignores what the publish returned.      *)
(*                                                                         *)
(* A reading is its sensorId; its value is always two more.  A tick is a   *)
(* second.                                                                 *)
(***************************************************************************)
EXTENDS Integers, Sequences, Functions

CONSTANTS
  IdCount,        \* 256, the values of uint8_t
  QueueCapacity,  \* 10
  ReadingPeriod   \* 5

ASSUME IdCountAssumption == IdCount \in Nat \ {0}
ASSUME QueueCapacityAssumption == QueueCapacity \in 1 .. IdCount - 1
ASSUME ReadingPeriodAssumption == ReadingPeriod \in Nat \ {0, 1}

VARIABLES
  i,        \* the id of the next reading
  due,      \* seconds to the next reading
  queue,    \* message_queue
  main,     \* the main task: "loop", "publish", "sleep" (in vTaskDelay)
  entry,    \* the reading it took last
  dropped,  \* history: how many readings found the queue full, at most IdCount
  blocked   \* history: seconds main spent publishing since queue was last
            \* empty, at most Patience

vars == <<i, due, queue, main, entry, dropped, blocked>>

(* How long publishing may take before a reading is dropped: the queue     *)
(* fills and the main task sleeps for one of these seconds.                *)
Patience == QueueCapacity * ReadingPeriod - 1

Init ==
  /\ i = 1
  /\ due \in 0 .. ReadingPeriod
  /\ queue = <<>>
  /\ main = "loop"
  /\ entry = 0
  /\ dropped = 0
  /\ blocked = 0

CappedInc(n, cap) == IF n < cap THEN n + 1 ELSE n

(* Mutant: the id has more than eight bits.                                *)
NextId_Wider(id) == id + 1

(* Mutant: the ids start again from 1.                                     *)
NextId_FromOne(id) == IF id = IdCount - 1 THEN 1 ELSE id + 1

(* i++ of a uint8_t.                                                       *)
NextId(id) == (id + 1) % IdCount

(* main, on core 0.  The result of queue_try_add is ignored.               *)
MakeReading ==
  /\ due = 0
  /\ IF Len(queue) < QueueCapacity
       THEN queue' = Append(queue, i) /\ UNCHANGED dropped
       ELSE UNCHANGED queue /\ dropped' = CappedInc(dropped, IdCount)
  /\ i' = NextId(i)
  /\ due' = ReadingPeriod
  /\ UNCHANGED <<main, entry, blocked>>

(* Mutant: the reading is published, but stays in the queue.               *)
TakeReading_Peeks ==
  /\ main = "loop"
  /\ queue # <<>>
  /\ entry' = Head(queue)
  /\ main' = "publish"
  /\ UNCHANGED <<i, due, queue, dropped, blocked>>

(* main_task takes a reading and calls mqttthing_publish.                  *)
TakeReading ==
  /\ main = "loop"
  /\ queue # <<>>
  /\ entry' = Head(queue)
  /\ queue' = Tail(queue)
  /\ main' = "publish"
  /\ blocked' = IF queue' = <<>> THEN 0 ELSE blocked
  /\ UNCHANGED <<i, due, dropped>>

NoReading ==
  /\ main = "loop"
  /\ queue = <<>>
  /\ main' = "sleep"
  /\ UNCHANGED <<i, due, queue, entry, dropped, blocked>>

PublishReturns ==
  /\ main = "publish"
  /\ main' = "sleep"
  /\ UNCHANGED <<i, due, queue, entry, dropped, blocked>>

(* A second passes: neither core has anything to do now.                   *)
Tick ==
  /\ due > 0
  /\ main # "loop"
  /\ due' = due - 1
  /\ IF main = "sleep"
       THEN main' = "loop" /\ UNCHANGED blocked
       ELSE UNCHANGED main /\ blocked' = IF queue = <<>> THEN 0 ELSE CappedInc(blocked, Patience)
  /\ UNCHANGED <<i, queue, entry, dropped>>

Next == MakeReading \/ TakeReading \/ NoReading \/ PublishReturns \/ Tick

Spec == Init /\ [][Next]_vars

-----------------------------------------------------------------------------
TypeOK ==
  /\ i \in 0 .. IdCount - 1
  /\ due \in 0 .. ReadingPeriod
  /\ queue \in Seq(0 .. IdCount - 1)
  /\ Len(queue) <= QueueCapacity
  /\ main \in {"loop", "publish", "sleep"}
  /\ entry \in 0 .. IdCount - 1
  /\ dropped \in 0 .. IdCount
  /\ blocked \in 0 .. Patience

(* The readings under way, in the call and in the queue, have different    *)
(* ids, until so many were dropped that the uint8_t can have come round.   *)
IdsTellApart ==
  dropped < IdCount - QueueCapacity =>
    IsInjective(IF main = "publish" THEN <<entry>> \o queue ELSE queue)

(* The queue of ten bridges 49 seconds: no reading is dropped before       *)
(* the main task was blocked in its publishes for that long since the      *)
(* queue was last empty, in one call or in several.                        *)
BridgesBlocking ==
  [][dropped' # dropped => blocked >= Patience]_vars
=============================================================================
