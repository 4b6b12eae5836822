---------------------------- MODULE CommandPool ----------------------------
(***************************************************************************)
(* The static pool of command structures of freertos_command_pool.c.  The  *)
(* structures commandStructurePool[0 .. PoolSize-1] are handed out through *)
(* a FreeRTOS queue of pointers; here a slot is the index of a structure   *)
(* and  pool  is the content of that queue.  A FreeRTOS queue is a bounded *)
(* sequence and one queue operation is one step: xQueueSendToBack and      *)
(* xQueueReceive run in a critical section.                                *)
(***************************************************************************)
EXTENDS Integers, Sequences

CONSTANTS
  PoolSize,   \* MQTT_COMMAND_CONTEXTS_POOL_SIZE (10 in core_mqtt_config.h)
  NULL        \* the null pointer

ASSUME PoolSizeAssumption == PoolSize \in Nat \ {0}

Slots == 0 .. (PoolSize - 1)

ASSUME NullIsNoSlot == NULL \notin Slots

VARIABLES
  pool,        \* commandStructMessageCtx.queue: the free structures, oldest first
  initStatus   \* guards against populating the queue twice

poolVars == <<pool, initStatus>>

PoolInit ==
  /\ pool = <<>>
  /\ initStatus = "QUEUE_NOT_INITIALIZED"

-----------------------------------------------------------------------------
(* A queue of the message interface (freertos_agent_message.c): a send to  *)
(* a full queue and a receive from an empty one wait up to blockTimeMs,    *)
(* then fail.                                                              *)

HasRoom(q, length) == Len(q) < length

IsEmpty(q) == q = <<>>

Elems(q) == {q[i] : i \in 1 .. Len(q)}

NoDuplicates(q) == \A i, j \in 1 .. Len(q) : q[i] = q[j] => i = j

-----------------------------------------------------------------------------
(* Mutant: the structures are counted from one.                            *)
InitializePool_OffByOne ==
  IF initStatus = "QUEUE_NOT_INITIALIZED"
    THEN /\ pool' = [i \in 1 .. PoolSize |-> i]
         /\ initStatus' = "QUEUE_INITIALIZED"
    ELSE UNCHANGED poolVars

(* Mutant: a second call populates the queue again.                        *)
InitializePool_Always ==
  /\ pool' = [i \in 1 .. PoolSize |-> i - 1]
  /\ initStatus' = "QUEUE_INITIALIZED"

(* Agent_InitializePool: populates the queue once, whoever calls it again. *)
InitializePool ==
  IF initStatus = "QUEUE_NOT_INITIALIZED"
    THEN /\ pool' = [i \in 1 .. PoolSize |-> i - 1]
         /\ initStatus' = "QUEUE_INITIALIZED"
    ELSE UNCHANGED poolVars

(* Mutant: the structure is looked at (xQueuePeek), not taken.             *)
GetSlot_Peeks(s) ==
  /\ initStatus = "QUEUE_INITIALIZED"
  /\ ~IsEmpty(pool)
  /\ s = Head(pool)
  /\ UNCHANGED poolVars

(* Agent_GetCommand hands out the structure  s , the oldest free one.      *)
GetSlot(s) ==
  /\ initStatus = "QUEUE_INITIALIZED"
  /\ ~IsEmpty(pool)
  /\ s = Head(pool)
  /\ pool' = Tail(pool)
  /\ UNCHANGED initStatus

(* Agent_GetCommand gives up: nothing was released for blockTimeMs.        *)
GetSlotTimesOut ==
  /\ initStatus = "QUEUE_INITIALIZED"
  /\ IsEmpty(pool)
  /\ UNCHANGED poolVars

(* Mutant: a release that forgets to send the structure back.              *)
ReleaseSlot_Leaks(s) ==
  /\ initStatus = "QUEUE_INITIALIZED"
  /\ s \in Slots
  /\ UNCHANGED poolVars

(* Agent_ReleaseCommand: a structure of the pool goes back to the end of   *)
(* the queue.  configASSERT(structReturned) halts the system when the      *)
(* queue is full; the step is then not possible.                           *)
ReleaseSlot(s) ==
  /\ initStatus = "QUEUE_INITIALIZED"
  /\ s \in Slots
  /\ HasRoom(pool, PoolSize)
  /\ pool' = Append(pool, s)
  /\ UNCHANGED initStatus
=============================================================================
