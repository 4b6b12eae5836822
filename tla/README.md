# A verification project for pico-simple-mqtt

pico-simple-mqtt is a small MQTT client library for the Raspberry Pi Pico W:
FreeRTOS tasks over lwIP and coreMQTT-Agent. This directory holds TLA+ models
of its concurrent parts, TLC configurations that check them on small instances,
and TLAPS proofs about all of them. Paths below are relative to the repository.

## 1. The system

### Components, their state and operations

| component | source | state | operations |
|---|---|---|---|
| command pool | `configs/CoreMQTT-Agent/freertos_command_pool.c` | queue of free structures, `initStatus` | initialise, get (with timeout), release |
| agent message queue | `configs/CoreMQTT-Agent/freertos_agent_message.c` | a FreeRTOS queue | send, receive (with timeout) |
| blocking calls | `src/mqttagent.c` 470-590, 42-47 | pool, command queue, task notifications | publish, subscribe, ping, command callback |
| command loop | coreMQTT-Agent, a git submodule without content here | pending acknowledgements, session | receive, execute, conclude, acknowledge, end |
| connection state machine | `src/mqttagent.c` 53-413 | `xConnState`, `xRecon`, observer | run loop, connect, start, close, stop |
| TCP transport | `src/tcptransport.c` | `xSock`, `xHost`, DNS semaphore | connect, send, read, close, DNS callback |
| thing | `src/mqttthing.c` | topic buffer, status flag, timestamp with mutex | task loop, publish, subscribe, observer callbacks |
| MQTT task | `src/mqtttask.c` | frames, copies and notifications of child tasks | publish, subscribe, ping (no caller left) |
| wifi helper | `src/wifihelper.c` | the link | init, join, is-joined; address getters |
| test applications | `test/main.c`, `multicore-test/main.c` | message queue between cores | publish, subscribe |
| FreeRTOS support, build, logging | `configs/FreeRTOS-Kernel`, `configs/lwip`, ... | none at run time | - |

### How they interact

An application task calls `mqttthing_publish`, which formats a topic into the
thing's one buffer and calls `mqttagent_mqttPublish`. That takes a command
structure from the pool, puts a pointer to it on the command queue and waits
for a task notification, with no time limit. The agent task, when Online, sits
in `MQTTAgent_CommandLoop`: it executes commands, matches acknowledgements, and
concludes each command by its callback, which notifies the caller through a
pointer into the caller's stack frame, and by releasing the structure. When the
loop ends with an error the state machine goes Offline, tells the observer, and,
if `xRecon` is set, goes on to MQTTRecon, TCPReq and so on to a new, clean
session. The thing's task joins wifi, starts the agent, and then polls once a
second: announce "online", ping, join wifi again. All tasks have the same
priority and FreeRTOS time-slices, so a task may be preempted anywhere; only
FreeRTOS queue and notification calls are atomic.

### What is hard, and what correctness means

* **Pool and queue**: structures are conserved on every path (refused, timed
  out, failed, acknowledged, session lost), never used twice; a release always
  has room (the code asserts it); the command queue cannot fill.
* **Blocking calls**: the callback must never run on a dead frame, never reach
  another call, and the result must be that of the very call; every call returns.
* **State machine**: two tasks write `xConnState` without protection and
  `setConnState` reads it back; an agent asked to reconnect must not get stuck;
  sockets must not leak; observers must see sessions in order.
* **Thing**: one buffer for all callers, a flag that is set by one task and
  cleared by another, and a task that both waits for the network and is the one
  that brings the network back.
* **MQTT task**: two levels of pointers into frames and heap copies that must
  outlive their readers.

`PROJECT.json` lists the hazards one by one with the properties that cover them.

## 2. The modules

| module | models | kind |
|---|---|---|
| `CommandPool` | pool and message queue | component, extended by the next |
| `AgentCommands` | blocking calls, command loop, pool, queue, stop and restart | composition of the whole command path |
| `BlockingCalls` | what a blocking call promises | abstract specification, implemented by `AgentCommands` |
| `MqttAgent` | connection state machine over sockets and wifi, with every call of the agent's interface | component |
| `Connection` | what an observer of the agent may rely on | abstract specification, implemented by `MqttAgent` |
| `AgentSystem` | the agent task: state machine and command path together | composition of `MqttAgent` (extended) and `AgentCommands` (instantiated) |
| `AgentService` | what the agent is to the tasks that call it | abstract specification, implemented by `AgentSystem`, used by `MqttThing` |
| `TcpTransport` | opening a connection: lookup, callback, semaphore, socket | component |
| `MqttThing` | thing task, application tasks, topic buffer, joining wifi | component, over `AgentService` |
| `KeepAlive` | the thing's timestamp, its mutex, the ping, and time | component |
| `MulticoreTest` | readings from core to core and on to the thing | component, over an abstract publish |
| `MqttTask` | the older calls with child tasks | component |
| `MCAgentCommands` | constants for TLC | instance |
| `AgentCommandsProofs`, `MqttAgentProofs`, `AgentSystemProofs`, `TcpTransportProofs`, `MqttThingProofs`, `KeepAliveProofs`, `MulticoreTestProofs`, `MqttTaskProofs` | theorems about the module of the name | proofs |

Operators whose name has an underscore suffix (`Rejoin_OnlyOnline`) are mutants:
plausible wrong versions of the definition below them, each used to see that a
property is able to fail. No specification uses them.

### AgentCommands and CommandPool

State: each caller's place (`pc`: before `Agent_GetCommand`, before the send,
waiting), the structure it holds, its pending notification, the last result;
`pool` and `queue` as sequences of slot numbers; `cmd` the content of the
structures (`owner` stands for `&currentTaskHandle`); and the agent task with
the structure it works on, the return code, the pending acknowledgements `acks`
and the ones the current session still owes, `live`. `acks \ live` are the
orphans: `mqttagent_doConnect` asks for a clean session and nothing cancels or
resumes. One FreeRTOS queue operation is one step. The two kinds of refusal are
the code's: publish returns false, subscribe and ping only log and wait.
`confirmed` is a history variable for `ResultTruthful` and the refinement.

`StopAgent` is `mqttagent_stop`: the agent task is deleted wherever it is, with
the structure it works on. `StartAgent` is `mqttagent_start`, the first time or
again: the command queue and the agent's context, with its pending
acknowledgements, are created anew over whatever they held, the pool only the
first time (`initStatus`). `lost` collects the structures that vanish that way and
`abandoned` the callers whose callback went with them.

The command loop is external: executing, acknowledging, and ending with any
error are modelled from the interface `mqttagent_init` installs (send, recv,
getCommand, releaseCommand) and from what the code does with the results.
Terminate and disconnect commands are left out because nothing sends them.

### MqttAgent

`xConnState`, `xRecon`, `xSock` are the code's. Every access to the shared ones
is its own step: `WriteState`, `Observe` (the switch reads the state back, and
runs the callback), `CheckRecon`. `pc` says where the agent task and the task
that uses the agent are; connection attempts, the handshake and the command loop
are places where the other task can run. `open` is the set of sockets the stack
has open: `socket()` hands out the lowest free one, a failed `connect()` leaves
it open, `tcptrans_close` closes whatever `xSock` names, and MQTTRecon closes
only if `wifi_isJoined()` at that moment. The link may go down at any time. `wifi` is
what the driver says of it: joined, failed (a status below 0) or just down, which is
status 0 and passes the `res >= 0` of `wifi_isJoined` (`isJoined`); connecting, the
handshake and acknowledgements need the real link. Who joins wifi again is left open here.

`AppCalls` says which calls the application makes beside connect-then-start:
connect, close, stop (with setData and a new start) and setObserver, each at any time, a
close also before the start and after a stop. Each is split
where the agent task can come between: `CloseTransport`, `CloseClearsRecon`, then
`setConnState`; `Stop`, `StopCloses`, `setConnState`, `DeleteTask`. An observer is
the set of its callbacks; without `MQTTOffline` the reconnection, which is nested
in the test for that callback, does not happen (`told = "unheard"`). `will` is
whether there is a will topic: stop frees it, setData may fail to allocate it, and
`MQTT_Connect` refuses a will without one.

### AgentSystem

`mqttagent_run` is in case Online exactly while `MQTTAgent_CommandLoop` runs, so
the step into the loop, its end with an error and the start of the task are steps
of both halves; everything else is a step of one of them. An acknowledgement
needs the link and the open socket. `AgentCommands` alone is free to connect at any
time and to lose a session at any time; here both follow from the state machine,
and `ConnectsAgain` checks that the fairness `AgentCommands` assumes of the
agent task is what the state machine delivers.

### AgentService

Between the agent and the tasks that call it: sessions that come up, are announced
and end, and for each client the state of its one command. `AgentSystem` maps to it
by `commandState` (where the structure of a task is: in the queue or being executed,
owed by the session, concluded, or owed by a session that is gone) and `sessionLink`.
A session is over for the callers when a command could not be sent, while the loop
still concludes that command (`ends`), before the state machine writes Offline. The
acknowledgement of a later session concludes nothing: `Acknowledge` needs a command
"sent", and the end of the session has made that an "orphan".

### TcpTransport

The agent task in `tcptrans_connect` (`pc`), what `dns_gethostbyname` returned
(`res`, which the code only logs), the fields of `TCPTransport`, and lwIP: its
sockets (`peer`), its pending lookups, its thread inside `tcptrans_dnsFound`,
where copying the address and giving the semaphore are two steps. A host stands
for the address it resolves to. `Garbage` is an uninitialised `xHost`, or what is
copied when a failed lookup calls back with a null address. `unanswered` is a
history variable: some wait ended without the address of its lookup. From then
on callbacks may be one call late for ever, because a late callback leaves the
semaphore given. Send, read and status only pass data. `MqttAgent` takes one
step for all this: its wait ends, and the address does not matter there.

### MqttThing

The thing's task from `wifi_init` through the loop, one step per access to
shared state; the application tasks; the buffer. The agent is that of `AgentService`,
whose actions are part of the thing's: of an execution the thing sees that the
packet is composed from the buffer, of an announcement the callback that sets the
flag (Online is visible before, as in the code). After the agent is started no command is
refused here: `SystemRefusesNobody` shows that for fewer tasks than structures, and
the pool has ten. Before the start a publish is refused and a subscribe waits for
ever (`CaughtInSubscribe`).

`wifi` is as in `MqttAgent`. The driver does not join again by itself; only `wifi_join`
does, which the loop calls when `wifi_isJoined()` is false. A link that is just down,
after a disassociation or because the third attempt to join left it so, is therefore not
joined again by anybody: `Unnoticed`, and `UnnoticedForGood` proves that it stays so.

### KeepAlive

Time is counted in ticks, and the variables hold true times; the code's values are
these modulo `WordSize`, and the comparison (`Elapsed`) is made on them as the code
makes it, unsigned. The mutex makes each access to the timestamp one step. The
loop reads the clock, then takes the mutex, then pings, then writes its reading
back, each a step between which publishers, the online callback and time go on.
`RoundLag` is what the steps of a round may take together, with the agent's execution
of a command that is queued while the session stands. Beyond that there is no limit: not
for a status or a ping that waits for a session, and not for an acknowledgement, of the
thing's status (`confirm`) or of an application's call. A status whose session ends before
its acknowledgement leaves the loop `stuck` for good, as a refused ping does, while the
agent reconnects and the timestamp is written by the others alone. `overdue` records what
this costs: since the last packet a call that was refused or acknowledged slowly wrote a
timestamp later than `Slack` after that packet (the timestamp is that of the call's
return, not of its sending), or the status kept the loop waiting as long. `Slack` is half
the keep-alive time less a round of the loop: up to there all of it is harmless.

Wifi stays joined, so that the loop never goes into `wifi_join`, which may take long and
pings nobody; that part is `MqttThing`'s. An outage is a session that ends. coreMQTT sends pings of its own
in `MQTT_ProcessLoop`; they are left out, so what is shown is what the thing does.

### MulticoreTest

A tick is a second. Core 0 makes a reading whenever one is due; the main task
takes at most one a second and publishes it, in a call that takes any time. Time
passes only when neither core has anything to do. `blocked` counts the seconds the
main task spent in publishes since the queue was last empty.

### MqttTask

Parents, children, the params pointer (`of`), the two notifications, the
command. `Children` is the memory the heap has for tasks.

## 3. The runs

Passing:

| run | instance | shows |
|---|---|---|
| `agent_commands_safety` | 3 tasks, pool 2, queue 2, stop and start at any time | structures conserved and accounted for, no dangling context, releases have room, queue never full, publish waits only for a command, an abandoned caller stays abandoned |
| `agent_commands_liveness` | 2 tasks, pool 2, queue 1 | accepted calls return unless orphaned or stopped; an empty pool recovers unless all structures are orphaned or lost; the path implements `BlockingCalls`: results are truthful |
| `agent_system_outages` | 2 publishers, pool 1, queue 1, 2 sockets, used as MQTTThing does | session on an open, announced connection; no socket lost while reconnections find wifi joined, then always online again; no session waits for what an earlier one owed; the fairness `AgentCommands` assumes; commands survive outages; implements `Connection` and `AgentService` |
| `mqtt_agent_reuse` | 2 sockets, every call at any time, three observers, with and without recon | never stranded in Offline, keeps trying |
| `tcp_transport_connect` | 2 hosts, 2 sockets, 2 lookups of a host | a connection is to the host asked for unless an answer was missed; every call returns, callback or not |
| `mqtt_thing` | thing and one application task | wifi joined again, calls return, sessions announced, no status forgotten, except in the four situations the properties name: a lost acknowledgement (`Stuck`), the `Circle`, an `Unnoticed` loss of the link, a session that comes up too early (`late`) |
| `keep_alive` | a word of 13 ticks, two rounds of it, half keep-alive 6 | the broker hears from the thing in time, however long acknowledgements take, unless `overdue` or `stuck`; pings are spaced |
| `multicore_readings` | 7 ids, a queue of 3, a reading every 4 seconds | readings are dropped only after the blocking the queue cannot bridge; ids tell readings apart |
| `mqtt_task_calls` | 2 callers, 3 children | frames and copies outlive their readers; a served caller returns |

Counterexamples to what a comment or test says (`findings` in `PROJECT.json`):

| run | what happens |
|---|---|
| `agent_commands_lostack` | a publish whose acknowledgement is lost with its session waits for ever |
| `mqtt_agent_outage` | every outage in which wifi is found failed leaks a socket until none is left |
| `mqtt_thing_topics` | a queued message goes to another caller's topic |

More disagreements can be seen in the models. They have no run of their own; the
passing properties name them as their exceptions.

* A subscribe or ping whose command is refused (pool empty, queue full, agent not
  started) is only logged (`mqttagent.c:549`, `581`) and waits for a callback
  nobody makes (`ChecksStatus`, `Refused`; `stuck` in `KeepAlive`).
* "Join wifi, no errors as we try forever" (`mqttthing.c:60`): the task that joins
  wifi also waits without limit in publish and ping. Caught there without wifi it
  never joins again (`Circle`, `Stuck("thing")`).
* "Returns if joined to the network and we have a link" (`wifihelper.c:133`): the driver's
  status of a link that is down is 0, and `wifi_isJoined` returns `res >= 0`. After a plain
  disassociation the loop does not join again (`Unnoticed`), and the agent tries to
  connect over a link that is not there. (The constant is the Pico SDK's, which is not
  in this repository.)
* The status is published by the task that pings (`mqttthing.c:95`), with a wait that has
  no limit (`mqttagent.c:514`). A slow acknowledgement delays the ping; one that is lost
  with its session ends the loop for good, and nobody pings or joins wifi any more
  (`stuck` in `KeepAlive`, `Stuck("thing")` in `MqttThing`).
* A session that comes up while the thing concludes the last status is never
  announced: `mqttthing.c:96` clears the flag after the publish (`late`).
* A caller whose command is dropped by `mqttagent_stop`, or by the start after it,
  waits for ever, and the structure the agent worked on is lost to the pool, which
  is not created again (`AbandonedForGood`, `lost`).
* `mqttagent_stop` leaves `xRecon` set: its own Offline is followed by MQTTRecon, so
  the state is not Offline afterwards, and an agent task that gets on before it is
  deleted may open a socket nobody closes. It frees the will, so that an agent
  started again without setData is refused by `MQTT_Connect` each time.
* An observer without an offline callback is never reconnected (`mqttagent.c:60`).
* A `mqttagent_close` that meets a connection attempt is overwritten by the agent
  task's next `setConnState`, and a session starts after it returned.
* "It is the responsibility of the application to ensure that the interval between
  Control Packets being sent does not exceed the Keep Alive value"
  (`mqttagent.c:179`): `mqttthing_publish` ignores its result and refreshes the
  timestamp also when nothing was sent, and else with the time of the acknowledgement, not
  of the packet; both postpone the ping (`overdue`).
* A publisher that writes its timestamp between the loop's reading of the clock and
  its comparison makes the unsigned difference huge: a needless ping (`raced`).
* In `mqtttask.c` a caller waits for ever when `xTaskCreate` failed (`CreateFails`),
  and so does a child whose command was refused (`SendCommand`).
* After a DNS timeout `tcptrans_connect` goes on (`tcptransport.c:221` has its return
  commented out) and connects to an older or uninitialised address (`unanswered`).

### Bounds

Three tasks and two structures make the pool run empty with one task waiting and let a
structure pass from one owner to another; a queue of one behind a pool of two fills. Two
or three sockets let a leak be seen and run out. Two hosts tell an answer from the
answer to an earlier call; two lookups of one host let a late answer meet a new lookup.
Retries is the code's 3. In `AgentSystem` two publishers meet over one structure and one
queue place, and two sockets are enough for one to leak; the calls have all three kinds
in the `AgentCommands` runs. `KeepAlive` bounds time (`MaxTime`) at two rounds of the
word; with its constants (`Slack` is 3) the bound of `BrokerHears` is exact: a keep-alive time
one tick shorter is violated, a slack one tick longer is, and so is the property without
either exception. The real constants (30 s, 1 s, and rounds far below) satisfy
`FastEnough` with room; it bounds what the tasks of the program take for a round, not
what the broker takes for an answer. In `MulticoreTest` the history counters stop at `IdCount` and
`Patience`; both bounds are exact there, too. The safety run of `AgentCommands` uses
symmetry of the tasks, which are interchangeable there; runs with liveness do not. No
other counter is unbounded, so no state constraint is needed. `CHECK_DEADLOCK FALSE` is
set only for `MqttThing` (the thing's task function returns if `wifi_init` fails, and
`Circle` is a real standstill), for `MqttTask` (all waiting) and for `KeepAlive` (time
ends).

### Fairness

Tasks of equal priority under a time-slicing scheduler run again and again: weak
fairness of each task's steps. Beyond that only what the environment owes: an
access point that is tried again and again is joined at last, a broker reached
again and again accepts at last, and acknowledges in a session that lives long
enough (strong fairness: the chance may come and go). A session without a
network ends (keep-alive). The first start of the agent is fair, a stop or a
restart never is. Applications are never forced to call, sessions
are never kept alive, and nothing is fair about losing wifi. In
`TcpTransport` only the agent task is fair: the resolver owes nothing. In `MqttAgent` wifi
is joined again by assumption, also from a loss nobody notices; `RejoinsUnlessCaught` in
`MqttThing` is where that comes from, and says when it does not hold (`Unnoticed` is
one of its exceptions, so what is shown of the agent after such a loss is only for the
case that somebody joins wifi all the same). In `MqttThing` the agent gets online
by assumption; `ReconnectsWhileJoined` is where that comes from, with the socket
leak of `mqtt_agent_outage` as the exception.

## 4. What is proved

For any number of tasks, structures and queue places (assuming only that pool and queue
are not empty and NULL is none of the values), `AgentCommandsProofs` shows `Spec => []`
of `TypeOK`, `SlotsConserved`, `NoDanglingContext`, `ResultTruthful` (which also follows
from the contract, and so has no run of its own), `ReleaseHasRoom`, `QueueNeverFull`,
`PublishWaitsForCommand`, `AbandonedForGood`, all of them with the agent stopped and
started at any time, and `Spec => ImplementsContract`: the command path implements
`BlockingCalls`.

The argument: none of these is inductive alone. `Inv` adds `Bookkeeping` (which
variables go together: a task holds a structure exactly while sending it, the
agent one exactly while working; nothing is anywhere before the start; the live
acknowledgements are pending ones) and `Truth` (`confirmed` is false until the
work is done and then equals the success of the code on its way to the caller).
A structure that moves is in one place before and in one other after, by the
lemmas at the beginning on sending to and receiving from a queue; its
owner's wait cannot have ended because no notification is pending and no other
outstanding structure has the same owner. There is one lemma per action and
`NextInv` joins them. A full pool would contain every slot
(`MissingElementLeavesRoom`), so a structure about to be released finds room; the
queue holds distinct slots, so one as long as the pool is never full for a
caller that still holds one. A stop and a restart move structures to `lost`,
from where nothing takes them. `PublishWaitsForCommand` is a second invariant,
relative to `Inv`, and so is `AbandonedForGood`: an abandoned task waits, has no
command outstanding and no notification pending, and only a callback of a command
of its own could change that. The refinement maps a call to "none", "open" or "done".

`PoolAccounted` (for finitely many callers) counts what `SlotsConserved` only places.
A structure that is not in the pool is held, outstanding, about to be released, or
lost; one that is held or outstanding belongs to a call in progress, and two never to
the same one (`OneStructurePerCall`), so those are no more than the calls. The four
parts cover the slots (`CoveredByFour`), and the pool has no element twice. With
fewer callers than structures the caller that asks is not among the calls that have
one, and finds the pool not empty (`FewCallersGetStructures`).

`MqttTaskProofs` shows `ParamsAlive` and `CopiesAlive` for any number of callers
and any amount of memory; the strengthening is that a notification is pending
only for a waiting parent.

`TcpTransportProofs` shows `ConnectsToHost` for any set of hosts and any number
of sockets and lookups. It follows from `OneAnswerPerCall`, which is inductive
with the types: unless a wait has gone unanswered, a call begins with no lookup
pending, no callback running and the semaphore down; a lookup it starts is
pending, being given, or given, and nothing else is.

`MqttAgentProofs` shows `TypeOK` and `NeverStranded` for any number of sockets and every
use of the agent's interface. `NeverStranded` is inductive once it is claimed also while
the agent task does not exist (`OnItsWay`), where a connect or a stop may prepare what
the next start finds. `SessionStands`, `NoSocketLeak` and `AnnouncesConnection` (the
state machine implements `Connection`) hold only for the use MQTTThing makes of the
agent, and are proved under that assumption (`UsedAsByThing`: connect, then start, an
observer with both callbacks). The invariant has four parts: only the agent task writes
the state once it exists (`OneWriter`), where the task is tells the state it found and
the one it writes (`InOrder`), from TCPConned on the socket is open and before a new
attempt none is (`SocketStands`), and the observer knows (`ToldTruly`).

`AgentSystemProofs` shows that every behaviour of the composition is one of the
state machine (`MachineHalf`) and one of the command path (`CommandHalf`), so what
is proved of each holds of the agent as a whole: `SystemTypeCorrect`,
`SystemCommandsSafe`, `SystemConnectionSafe` and `SystemKeepsContract` say so.
`HalvesAreOneTask` proves `OneTask`, with the announced and open session that
`SessionOnOpenSocket` provides. As nobody stops the agent here, the exceptions for
stops go away: nothing is dropped and nobody abandoned (`SystemDropsNothing`, inductive
with the bookkeeping of the command path, which leaves the first start nothing to drop),
and so a started agent refuses no call of fewer tasks than structures, however many
sessions were lost (`SystemRefusesNobody`). The lemmas `Same...` only say that an
operator of `AgentCommands` is the same formula in both instances of it.

`ServiceProvided` proves `ProvidesService`: the agent as a whole implements
`AgentService`, under `UsedAsByThing`. `AgentCommandsProofs` shows, action by action,
what becomes of the commands: where a structure is determines the state of its owner's
command (`StateByPlace`), a step either leaves all states alone (`Stays`) or moves one
(`Moves`), and only the end of a session touches more (`SessionTaken`).
`AgentSystemProofs` shows the same of the session: the state machine brings it up,
announces it, and takes it down only with the command loop (`MachineLink`), which is
where the two meet (`LinkOfMachine`). From the refinement follows what the run
`agent_commands_lostack` finds, for every instance: an orphan stays one, and its caller
waits for ever (`OrphansWaitForGood`).

`MqttThingProofs` shows `TypeOK` and `StatusOwed` for any applications and topics. The
invariant adds where the tasks can be (`Places`), which of them can have a command
(`Calls`; so the guard of `AgentService`'s NewCall takes nothing away from the thing),
and that a status about to be cleared was sent in the session that stands (`Told`).
`ServiceUsed` shows that the thing and its applications take only steps of
`AgentService`, which `AgentSystem` implements. `CaughtForGood` is the safety half of the
exceptions in `RejoinsUnlessCaught` and `ReturnsUnlessCaught`: what is caught stays
caught; and so is `UnnoticedForGood` of a link that is down unnoticed. `OneAtATimeKeepsTopics` is the usage rule that would make `TopicsIntact` true:
if only one task at a time is between formatting a topic and the packet, or the will,
that is made of it, every message and the will keep their topic. The code has no such
rule; the mutex of the thing is taken for the timestamp only.

`KeepAliveProofs` shows `BrokerHears` and `PingsSpaced` for a clock of any word
size and any periods that meet the assumptions, which the code's do (2^32
milliseconds, 30 and 1 seconds), for acknowledgements that take any time or never come,
and for any `MaxTime`. The argument is arithmetic modulo the word. Either the next comparison comes soon after the last
packet, or there is a true time, not long before that packet, at which the clock had
the value of the timestamp, and the next comparison comes before the difference to
it can wrap (`InTime`). A refused or slow call is "soon" while it ends within `Slack` of
the packet, because a whole round still fits behind it (`PeriodFits`); `overdue` is set
exactly when it is not. The timestamp itself may be a late write of an old reading;
only the value the clock had matters.

`MulticoreTestProofs` shows `BridgesBlocking` for any queue and period: the readings
in the queue were made while the main task was blocked, but for the time until the
next one and one second of sleep (`MadeWhileBlocked`). For `IdsTellApart` the readings
under way lie one behind the other on the circle of ids, with the dropped ones
between them (`InTurn`), so two of them cannot meet before as many were dropped as the
circle has room for.

Every safety invariant, action property and refinement that a passing run checks is
proved. Only model-checked: liveness (fairness and ENABLED are beyond the prover):
`AcceptedCallReturns`, `PoolRecovers`, `ConnectReturns`, `ReconnectsWhileJoined`,
`ConnectsAgain`, `CallsSurviveOutages`, `KeepsTrying`, `RejoinsUnlessCaught`,
`ReturnsUnlessCaught`, `AnnouncedUnlessLate` and `ServedParentReturns`.

## 5. What is not modelled

* The content of packets, payloads, names and credentials, and the buffers they
  are in. The one that matters, the shared topic buffer, is modelled.
* Allocation: `mqttthing_init` and `mqttthing_destroy` only allocate and free, before
  and after everything else. The allocation of the will in `mqttagent_setData` and the
  creation of the child tasks of `mqtttask.c` are modelled with their failures. Those of
  the children's copies (`mqtttask.c:50`, `96-97`) are not checked by the code; a failure
  there is a copy to a null pointer, undefined, and is not modelled.
* In `multicore-test/main.c` a `mqttthing_init` that fails: `main_task` returns, and core 0
  goes on filling a queue nobody reads.
* `mqttagent_setSubscribeCallback` and `incomingPublishCallback`
  (`mqttagent.c:33-39`): there is one callback, set before the start, and nothing
  waits for an incoming message.
* coreMQTT's own keep-alive in `MQTT_ProcessLoop`, terminate and disconnect
  commands: coreMQTT and coreMQTT-Agent are submodules without content here.
* Send, read and status of the transport, the getters of addresses, run-time
  statistics: they pass or print data and change no state of the program.
* Logging, build configuration, and the static memory of the idle and timer
  tasks have no behaviour to check.

## 6. Plan

1. `AgentSystem` and `MqttThing` in one module, where joining wifi is a step of the task
   that also waits in publish and ping. Today they meet in `AgentService`: what `MqttThing`
   assumes of the order of the agent's steps is proved of `AgentSystem`, what it assumes
   of their fairness is checked there.
2. `KeepAlive` in that composition, where a session ends when the broker has not heard
   for too long.
3. `AgentSystem` with stops and restarts.
