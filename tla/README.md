# TLA+ models and proofs of ts_owrt_module

`ts_owrt_module` runs on an OpenWrt router.  It polls Modbus and OPC UA
devices at the refresh rates a configuration file gives them and publishes what
it reads to an MQTT broker.  This directory holds TLA+ models of the program,
the TLC configurations that check them on small instances, and proofs, checked
by TLAPS, of what holds for every instance.  Paths below are relative to
`src/src/`; line numbers are those of `PROJECT.json`.

## 1. The system

One process, one main thread, one signal handler.  libmosquitto runs a network
thread of its own; nothing of the program's own code runs in it.  The program
is built without optimisation (`makefile`), so the period flags, which are not
`volatile`, are read from memory at every look, and the model reads them so.

| component | state | operations | correct when |
|---|---|---|---|
| main thread (`main.c`) | `dev_status`, the stage of the loop, `clientData` | `init_sys`, retried until all is ready; then, endlessly, a scan for each raised period flag: survey a client, publish | nothing runs before it is ready; a scan surveys every client of its rate once; a failed survey publishes nothing; no rate starves |
| client queue (`client_queue.c`) | three arrays of indices, three positions | `queueCleen`, `queueAdd`, `queueGetFirst`, `queueGetNext` | arrays hold the configured clients without gaps; the walk ends exactly once, also at a full array |
| refresh timer (`timer.c`) | three flags, a tick counter | `timer_handler_100ms`, start, stop | each flag at its period, across the wrap of the counter |
| client manager (`client_manager.c`) | per client: settings, `connected` | `manager_init_connections`, `manager_receive_data` (reconnect, read, reconnect, read), conversion | `connected` agrees with the connection; a reading is the client's own (kept for one OPC server, section 5); a lost client comes back |
| Modbus (`modbus_connect.c`) | a libmodbus context per client | probe, connect, read, reconnect | what is opened is closed |
| OPC UA (`opc_connect.c`) | ONE global handle for all clients | connect, read, close | no session leaked, none used after it is gone |
| MQTT (`mqtt_connect.c`) | the mosquitto object | `mqtt_init`, `mqtt_send` | retries leave nothing behind |
| published data (`ts_data.c`) | aliases, types, values | count, parse, JSON | text fits and matches the types |
| configuration (`manager_init_config`) | libconfig tree | parse | only settings that later code can use are accepted |
| logger (`logger.c`) | target, level, file | print, archive, switch target | the log is kept, files are opened and closed in pairs |
| open62541 (`open62541.c/.h`), the blocking client | `UA_Client`: state, TCP connection, secure channel, request ids | `UA_Client_connect`, `__UA_Client_Service`, `UA_Client_disconnect`, `UA_Client_delete` | every call ends; a failed connection leaves nothing; an answer belongs to its request |

Interaction: the handler talks to the main thread through the flags only.  The
main thread fills the queue from the manager at start, and then hands the
indices it takes from the queue to the manager.  The manager calls Modbus or
OPC UA; `clientData` carries the reading to the publisher.  Devices, OPC
servers and the broker come and go on their own.

What is hard here: ticks that arrive anywhere in a scan; initialisation that
fails half way and is repeated; the end of the arrays; one handle shared by
clients that each believe they own it; servers that vanish between two steps;
descriptors that are used up over many reconnections; a survey that is retried
inside the call.  `PROJECT.json` lists each hazard at its line with the
properties that watch it, and says why where none does.

## 2. The modules

| module | models | composes / implements |
|---|---|---|
| `TsConst` | refresh rates, the answer "no client" | |
| `ClientQueue` | `client_queue.c` | |
| `Timer` | `timer.c` | |
| `TimerCadence` | the timer alone under any use of it; a history of ticks | `Timer` |
| `MainLoop` | `main.c`: `init_sys` and the endless loop | `ClientQueue` and `Timer`; implements `PollingService` |
| `PollingService` | what is promised: rates become due, scans survey, readings are published | abstract |
| `ClientManager` | `client_manager.c`, `modbus_connect.c`, `opc_connect.c` and the servers | |
| `System` | the main thread in the manager, ticks and servers at any step | `MainLoop` and `ClientManager`; implements both |
| `ClientConfig` | `manager_init_config` for one entry of the list of clients | |
| `DataPath` | configuration, registers and variants, `clientData`, `ts_data.c`, the text published | `ClientConfig` |
| `Mqtt` | `mqtt_connect.c` and the repetitions of `init_sys`; the network thread, the broker | |
| `Logger` | `logger.c`, the files, crashes | |
| `UaClient` | the blocking client of `open62541.c` | implements `OpcSession` |
| `OpcSession` | what a call of `opc_connect.c` promises the manager | abstract |
| `MCMainLoop`, `MCClientManager`, `MCSystem`, `MCDataPath` | instances for TLC | |
| `MainLoopProofs`, `ClientManagerProofs`, `TimerProofs`, `SystemProofs`, `LoggerProofs`, `MqttProofs`, `DataPathProofs`, `UaClientProofs` | theorems | |

Definitions whose name describes a slip (`WrapLate`, `queueCleenKeeps`,
`ReconnectUnchecked`, ...) are not part of any specification.  Each is a
plausible bug in the definition it stands before; putting it in the place of
that definition must break the property named in `PROJECT.json`, which shows
that the property is about the code.

### 2.1 MainLoop

`pc` is where the main thread is.  `init_sys` is four points, in the order of
the function: `init_sys` (stop the timer, connect to the broker unless that was
done), `init_manager` (settings, clear the queue), `fill` (one `queueAdd` per
step), `init_timer` (start the timer and serve, or wait five seconds and
repeat).  The loop is three points: `check` looks at the flag of `stage`,
`survey` has an answer of the queue and asks the manager, `send` has a reading.
Where a step of the code has several outcomes (broker, settings, survey,
`setitimer`) there is one disjunct for each.  `Tick` may come between any two
steps while the timer runs.  The handler writes boolean flags and a counter
nobody else touches, so finer interleaving shows nothing more.  In particular
`InitTimer` is one step from `timer_start` to the first look at a flag
(`main.c:97-104`): a tick in between raises a flag before that look, as a tick
right after the step does.

`_queue` is zeroed memory before `queueCleen`, and 0 is the index of a client:
`Init` has it so.  The configuration file is part of the initial state, chosen
among all files with up to `MAX_CLIENT_NUM + 1` clients, and never changes: it
is read once.  `cfgOk` stands for all the settings other than the number of
clients and their rates.  `clientData` keeps which client the buffer was filled
from; the outcome of a survey is free, because `ClientManager` is about it.

### 2.2 PollingService and the refinement

`PollingService` has no queue and no positions.  `todo` is the set of clients a
scan still has to survey; `MainLoop` computes it from the answer of the queue:
the clients of the rate from that index on.  A flag that is up is a rate that
is `due`.  A flag is cleared at the end of its scan, not at its beginning, so a
tick of a rate during its own scan asks for no second one: `PollingService`
says so openly, as "a rate stays due until a scan of it has ended".

### 2.3 Timer and TimerCadence

One tick is 100 ms.  `TimerCadence` adds `since`, the ticks since each flag was
last raised, and lets the main thread start, stop and clear at any time.
The program has `TIMER_1S = 10` and `TIMER_5S = 50`.  The assumption that
`TIMER_1S` divides `TIMER_5S` is needed: the 1 s flag is raised by a remainder
of the counter, and the longest period sets that counter back to zero.

### 2.4 ClientManager

`context[i]` is the libmodbus context of client `i`: not allocated, without a
socket, with a live one, or with one whose peer has gone.  `handler` is the
global `_handler`: the server of the session and whether it is alive, has lost
its peer, or was closed by the stack after a failed request.  `uaClients`
counts the `UA_Client` objects, `fds` the socket descriptors in use.  `FD_MAX`
stands for the limit of the process on them.

`manager_init_connections` is one step per client; its result is left out,
because main only prints a message of it.  `manager_receive_data` is
`Poll`, then `Reconnect` and one of the `Receive` actions as its branches
require, at most two reads (`attempt`).  Operations of the connections are sets
of outcomes: `checkServer` may fail on a server that is up (refusal, timeout,
or `EINTR` from the tick: the handler is installed without `SA_RESTART`), and
keeps its descriptor in every case but one, when there was none to be had.
`ServerDown` and `ServerUp` may come between any two steps.  Two kinds of OPC
client never get a reading: those of the type `time` (`Unreadable`), whose
answer is refused after the read, and those with a node name too long
(`LongNode`), refused before the handle is looked at.  A dereference of an
invalid pointer ends in `pc = "crashed"`: the NULL handle (`opc_connect.c:75`),
the number printed as a string for an RTU client (`modbus_connect.c:118, 159`),
the address an RTU client has not got (`modbus_connect.c:186`).

External: libmodbus (`modbus_connect` opens a new socket and does not close an
old one; a read fails without a live peer), the session of open62541 (deleting
the client closes its socket; a failed request may close the session), and the
servers.  What the manager relies on in the session is `OpcSession`, which
`UaClient` is shown to implement.

### 2.5 System

`System` extends both modules: it has the variables of each, and `calling`,
which says that main is inside `manager_receive_data`.  `InitConnections` runs
the manager's initialisation between two points of `init_sys`.  Where `MainLoop`
chooses the outcome of a survey, `System` calls the manager (`Call`), which
works step by step (`Work`) until it is idle again or has crashed, and main goes
on with what was returned (`Return`).  Ticks and servers interleave with all of
it.  `ImplementsMainLoop` is what justifies `MainLoop`: with the calls taken
apart every step still is a step of `MainLoop` or a stutter, and the weak fairness
of its main thread holds, that is, a survey always comes to its end.
`ImplementsManager` is the same for the environment `ClientManager` assumes.

### 2.6 ClientConfig and DataPath

An entry of the configuration is what libconfig knows of it: the keys it lacks,
and the values the function compares with something.  `Settings` keeps which
pointers were given, so that `AcceptedConnects` can ask for the ones the first
connection dereferences.  A number is the sequence of its 16-bit words;
`modbusToClientData` puts the words of a reading in the order of the host, and
`InMemory` is the number they make there.  `Meant`, what the device means, has
widths of its own (`WordsOf`, after the types of the configuration) and not the
numbers of words the conversion copies.  A variant of OPC UA has a type of its
own, which nobody compares with the client's: `Taken` is the field after that,
`Garbage` when the types differ.  A field of the data array that was never
written is `Undef`.  `wild` says that main has written beyond the array; from
then on `Overwritten` may crash the program at any step.  `heap` counts buffers
that are not freed.

### 2.7 Mqtt

Each call `mqtt_init` makes into libmosquitto is a step that may fail; the object
of the attempt before stays allocated, `OBJ_MAX` of them fit into memory.
`others` stands for the rest of what `init_sys` waits for.  Each object has a
connection of its own.  The network thread runs for an object once
`mosquitto_loop_start` has succeeded; it notices that its peer is gone some time
after it has, drops what was queued and connects again.  Quality of service is
0: nothing is acknowledged or repeated.

### 2.8 Logger

Disk (`log`, `archives`) and process are kept apart: `Kill` takes the second and
leaves the first, at any step.  `logger_archive` is one step per call that may
fail; an archive counts as written when all of its lines are, because bzip2
keeps the log in one block that `BZ2_bzWriteClose` writes.  Archives are named
after a second of the clock.  Records are numbered, so that a lost one is seen.
A message without a printing function, or without a file for it, is a crash.

### 2.9 UaClient and OpcSession

`todo` is the stack of what the functions that have been entered still have to
do: steps of a connection, a service call, disconnections.  A step that fails
replaces its own part of the stack by the cleaning up that each of the functions around it
does on its own: `Unwinding` counts the disconnections of
`openSecureChannel`, `UA_Client_connectTCPSecureChannel`,
`UA_Client_connectSession` and `UA_Client_connectInternal`.  A service call is a
request sent and its answer, a late answer to another request, the time that is
over, or a connection that breaks.  `OpcSession` takes each call as one step; the
mapping shows it the state of the last moment no call was under way.
The manager side of `OpcSession` is in `ClientManagerProofs` (`SessionUsed`,
`ConnectCovered`, `ReadCovered`).

## 3. The runs

| run | instance | shows |
|---|---|---|
| `main_loop` | 3 cells, every configuration of 0 to 4 clients | the safety of the main loop, that it implements `PollingService` and its fairness, and that every client is surveyed for ever |
| `timer_cadence` | 10 and 50 ticks, the program's own | cadence of the flags |
| `manager_safe` | a TCP and an OPC client, a server each, 10 descriptors | no crash, a context or a handle behind every sign, recovery unless the client's own reconnections lack descriptors |
| `manager_any` | OPC and TCP on one server, RTU and two OPC clients (unreadable type, node name too long) on the other, 4 descriptors | what holds in every configuration: accounting, whose session is signed and read over, when a sign agrees, what is lost for good |
| `system` | a TCP client at 100 ms and an OPC client at 1 s, a server each, 5 descriptors | what is published is the client's own; the composition implements `MainLoop`; delivery for ever |
| `data_path` | registers of one bit, big-endian, `time_t` of 64 bits, more than a hundred lists of clients, 11 lists of elements | values through all conversions; what configurations are accepted |
| `mqtt` | 3 objects, 2 packets | one network thread; recovery |
| `logger` | 4 records, 2 to an archive, 2 seconds | which records survive failures and kills; files |
| `ua_client` | 3 sockets, reads until 7 requests were sent | the calls of the stack as a whole, whatever step fails |
| `timer_minute`, `manager_sign`, `manager_mixed` | the smallest instance each | the disagreements of section 5 |

Bounds.  Three cells give a first, an inner and a last cell, a full array, one
client too many, and all ways to split the clients over the rates; with a
second of two ticks and a longest period of four, every combination of flags
and every moment for them occurs.  Two servers and five clients give `manager_any`
clients that share a server and that do not, and three clients on one handle.
Four descriptors are few enough for the reconnections to use them all up, so
that `Starved` is reached.  Ten in `manager_safe` are enough for the opposite: the
TCP client, which takes two for a connection and one for an attempt that fails, is
connected and recovers several times before the exception of
`RecoversUnlessStarved` can apply, and that exception is of the client itself (`LacksDescriptors(i)`):
one that does not come to reconnect without descriptors has to recover.
In `system` one client of each protocol and two rates are the least in which a
scan has something to confuse; both periods are one tick there, because the cadence
is the subject of `timer_cadence`.  The lists of `data_path` differ from one that
is accepted in one respect each, in every key and every value the code looks at.
Registers of one bit tell the words of a number apart, and a big-endian host is
the one on which the order matters; `ConversionCorrect` has both.  Three objects
in `mqtt` are two failures and a success.  Four records fill two archives, and
two seconds let them have one name or two.  Seven requests are a connection of
five (open, endpoints, create, activate, close) with two reads, and
`requestId` starts again with each connection, so that any number of
reconnections occurs.

Deadlock is checked except where the program may end: `manager_any`, `data_path`
and `mqtt` have crashes, and a crashed process takes no step.

The properties that took thought:

- `FillNeverFails`: whatever the retries of `init_sys`, `queueAdd` cannot
  refuse a client, though it looks for -1 and the arrays begin as zeroes.
- `SurveysOwnClients`: no stale buffer is published, no foreign index surveyed.
- `ImplementsPollingService`: a scan surveys its clients once each, in order,
  and ends, also when the array is full and the position wraps.
- `HandleAccounting`: with all the places that create, overwrite and delete the
  one handle, no session object is lost or deleted twice.
- `StarvedForGood`: the leak of descriptors is fatal.  Once they are gone,
  clients only ever lose their connection.
- `InitSignsOwner`, `RetryReadsOwn`: of the one handle every OPC client thinks
  its own, what does hold with any number of clients and servers.  The
  initialisation signs only the client whose session it is, and a retry never
  uses the session it found.  What is left is the first read of a call, and
  that is refuted: `OwnServer` (`manager_mixed`).
- `ConnectedSign`: holds while there is one OPC client, refuted with two.
- `SignsSettle`: the initialisation may sign a Modbus client whose connection
  was refused; that lasts until its next call and never comes back.
- `PublishesOwnServer`: the same for the whole way from the queue to the
  publisher, with reconnections inside the survey.
- `ImplementsMainLoop`: the composition keeps the promises `MainLoop` makes with
  free outcomes, its fairness included.
- `RecordsKept`: records are lost in exactly two ways, and a kill is none of
  them.
- `DefinedForOneList`: of all lists of elements `init_data` accepts, only the one
  the program is shipped with is published without reading or writing memory
  that is not there.
- `AcceptedConnects`: the checks of the configuration are enough for what the
  connections dereference, with one exception.
- `OneNetworkThread`, `DeliversAgain`: initialisation may fail anywhere and be repeated at any time
  without a thread left over, and an outage of the broker ends.
- `ImplementsSession`: seven steps that may fail, four functions that clean
  up after each other, and a manager that sees a session or none.
- `NestedDisconnect`, `CallsReturn`: disconnecting calls a service that
  disconnects; it is bounded because the state is changed before the call.
- `NoOldAnswers`: a request given up takes its connection with it.

Fairness.  `MainLoop`: the main thread goes on (every call returns: libmodbus,
open62541 and the probe have time-outs), the interval timer goes on, and the
broker and `setitimer` succeed some time if tried for ever.  Nothing is assumed
about the order of the flags: that no rate starves follows from the fixed order
of the loop.  `ClientManager`: a call ends; each client is polled again and
again, which is what `main_loop` shows of the main loop; a server that
answers does not refuse for ever what is tried again for ever.  `System`: the
main thread and the timer go on, and the same about broker, `setitimer` and
servers; nothing about the order of surveys, which follows from the code.
`Mqtt`: the main thread and the network threads go on, and a call that can
succeed does if it is tried for ever.  `UaClient`: the client goes on, because
every wait has a limit; the server need not do anything.  `Logger` and
`DataPath` have no fairness.

## 4. The proofs

Constants are arbitrary: any number of cells, clients, servers and descriptors,
any protocols, and any timer constants within `TimerAssumption`,
`CadenceAssumption`, `QueueAssumption` and `ManagerAssumption`.

`MainLoopProofs`.  The properties are not inductive.  `IInv` adds
what the fill loop has done so far: `Holds(a, S, n)` says that the array holds
exactly the clients of `S` below `n`, ascending, without gaps, and no client
beyond the cell of its own number.  That last clause is why `queueAdd` cannot
fail (`FillCorrect`): a full array would have client `MAX_CLIENT_NUM - 1` or a
later one in its last cell, with fewer than that added.  `PhaseInv` ties `armed` to the loop, `CursorInv`
ties the index to the position.  From `IInv` follow `TypeCorrect`,
`QueueCorrect`, `FillCorrect`, `ReadyCorrect`, `SurveyCorrect`; `Implementation`
maps each step to a step of `PollingService` or a stutter: `FromFirst` and
`FromNext` say how one move of the queue changes the set left to survey.
`Wait(r)` counts the steps main can take before it looks at the flag of rate
`r`: two for every client left in the scan, and a longest scan (`ScanLimit`,
2 * `MAX_CLIENT_NUM` + 2) for every flag that comes before.  `WaitCorrect`:
every step of main makes all these numbers smaller but the one that is zero, and
there a raised flag starts a scan; a tick changes none.  So no rate waits longer
than three scans, whatever the other two do.

`ClientManagerProofs`.  `ManagerIInv` = types, `HandleInv` (one object exactly while
there is a handle, whose socket is counted; none before the first OPC client
has connected) and `FlagInv` (a Modbus client signed connected has a context;
only a client signed connected is read from).  It gives, for every
configuration, `ManagerTypeCorrect`, `HandleCorrect`, `NullContext` and `Starvation`.
So do three facts about signs and readings: `RetryCorrect` rests on
`RetryInv` (in its second read a call is over a connection this very call has
made), `InitSignCorrect` on `OwnSigns` (so far, a signed OPC client finds its own server in the
handle), and `SettleCorrect` is taken step by step (`SettlesStep`).  `OneOpcServer` (all OPC clients have
one server) is the line between the configurations that keep `OwnServer` and
those that do not: `OwnServerInvariance` proves it on the one side, and
`manager_mixed` refutes it on the other.
Under `SafeConfig` (no RTU client, at most one OPC client) `SafeInv` adds that
a signed OPC client has a handle to read from; it gives `CrashFree` and
`SignCorrect`.  Neither half of `SafeConfig` can be left out: `manager_sign` shows
it of the OPC clients, and an RTU client crashes in its first error (section 5).
`CallsEndCorrect`: a call has four steps at most (`CallSteps`), since the retry is
made once, and servers that come and go between them add none.  The last three
theorems tie the manager to the session.  `SessionUsed`: with the handle seen as
`Handle` does, every use of it is a `Connect` or a `Read` of `OpcSession`, and no other
step changes it.  `ConnectCovered` and `ReadCovered` are the converse: whatever
`OpcSession` lets a call do is among the outcomes of `Reconnect` and `ReceiveOpc`, so
that the manager is checked against all a client may do to it.  The converse is
of a server that is up and a session whose peer is still there: of one that
has gone the manager's model expects a read to give the session up at once.
With `SessionImplemented` below this is the whole way from the stack to the
manager.

`TimerProofs`.  Remainders first: `Division` and `Unique` give `ModNext`, what
`(n + 1) % m` is.  `TypeOK /\ SinceIsRemainder` is inductive, because every period
divides the longest (`TickRemainder`); `CadenceCorrect` follows from
`RaisedWhenOver`.

`SystemProofs`.  `LoopImplemented` and `ManagerImplemented` map every step of
the composition to a step of either module or a stutter, so that what is proved
of these holds of it; `SystemTypeCorrect` is put together from both.  For
`PublishedCorrect` (under `OneOpcServer`, whatever the protocols), `CallInv` says what main knows while it is inside the
manager: the client it has called for is the one the queue has given, and the
manager is busy with that one.  `SystemWait` is `Wait` with six steps for each of
`MainLoop`'s: a survey is a call, four steps of the manager and its return.
`SystemWaitCorrect` bounds it by 18 `ScanLimit`, which is where the endings of the
calls and the turns of the flags come together.

`LoggerProofs`.  `IInv` adds to the properties what the archive holds on the way
(`ArchiveHoldsLog`): nothing while it is being written, and all of the log when
the log is about to be erased after a good writing.  `FilesCorrect` and `SmallCorrect` follow; `RecordsCorrect` is
about steps, and follows action by action.

`MqttProofs`.  `IInv` adds `Attempt`: while `mqtt_init` runs main has no
connection, and from its first call on it works on an object it has created.
That is what keeps it from starting a second network thread (`OneNetworkThread`).
`KeptCorrect`: once an attempt has succeeded no later one touches the object main
publishes to.  `ExhaustionCorrect`: objects given up never come back, so that the
exception in `ServesUnlessExhausted` is final.

`DataPathProofs`.  `ConversionCorrect` is the arithmetic of the conversion, for
every type, both orders of bytes and both sizes of `time_t`; `EnoughCopied` says
that it copies as many words as a value of the type has.  `IInv` says that
all settings are those of accepted entries, that a reading is of a configured
client, and that from the sending on the element TEMP holds this reading; from it follow
`ReadingCorrect`, `AcceptedCorrect` and `PublishedReading`.  `DataInv` adds what
becomes of the array: an element has the type `TypeOf` gives it and only three
fields are ever written (`Elements`), the writing of the time and of the reading lies
before the sending (`Progress`), and which variables are set at which point
(`Places`).  The type of an element is that of the last one before it that has
a type, which is a set with one member at most (`TypeOfLast`) and needs no
recursion.  From it follow `TypeCorrect` and `DefinedCorrect`, for lists of
elements of any length: a published element was written only if its type is that of
the field written in its place, which leaves one list.

`UaClientProofs`.  `IInv` says in which order the steps still to do come
(`Ordered`: TCP after the new object, HEL after TCP, the deletion after a
disconnection, a closed session's finish after its request), what that says of
the connection (`Connection`), and that requests the server may still answer are
of an established connection and, except in a disconnection, only the one
waited for (`Requests`).  `TypeCorrect`, `AnswersCorrect` and `LossCorrect`
follow.  `CallInv` is about the call as a whole: how the steps left are arranged
(`Arranged`: those of a connection stand together at the end, a deletion is the
last step or is followed by a new object), which sockets there were before it
(`Unseen`), that client and connection agree between the calls (`Settled`), and
that a disconnection within another finds the session closed (`Closing`).  With
it `NestedCorrect` bounds the disconnections, and `SessionImplemented` is the
refinement of `OpcSession`: a call under way changes nothing that is seen, and
`CallReturns` takes the steps that can be the last, the deletion, the answers to
activate and read, and the end of a disconnection, one by one.
`CallsBounded`: `StepsLeft` gives every step still to do a price that pays for the
steps it is replaced by when it fails (a step of connecting pays for the
disconnection after it), and adds what a session, a request to be sent and late answers
cost.  Every step of a call makes it smaller, and no call begins with more than
272.

All invariants of the passing runs are proved, and all their properties of steps and
refinements of states.  Only model-checked are the properties that need
fairness, which is out of the prover's reach here: that a step which can be
taken is taken.  What must hold besides is proved for these:

| model-checked | its safety part, proved |
|---|---|
| `ImplementsPollingFairness`, `KeepsSurveying` | `WaitCorrect` |
| the fairness in `ImplementsMainLoop` | `SystemWaitCorrect`, `CallsEndCorrect` |
| `CallsReturn` | `CallsBounded`, `NestedCorrect` |
| `ServesUnlessExhausted`, `DeliversAgain` | `KeptCorrect`, `ExhaustionCorrect` |
| `RecoversUnlessStarved`, `PublishesAgain` | `Starvation` (the exception is final) |

The last two rows say less than the others: recovery also waits for a broker or a
server, and no number of steps bounds that.

## 5. Where the code and its comments disagree

| run | the code |
|---|---|
| `timer_minute` | "1m" is five seconds |
| `manager_sign` | a client stays signed connected to a handle another one has closed, and the next read is of NULL |
| `manager_mixed` | "Receive data from client" may receive from the server of another one |

Seen while modelling, and without a run of its own:

- Descriptors leak: the probe leaves its socket open whether it connects or not
  (`modbus_connect.c:46, 49`), and a reconnection forgets the socket the context
  had (`modbus_connect.c:193`), under the heading "Close and open all
  connections" (`modbus_connect.c:175`).  `StarvedForGood` says where that ends.
- A Modbus context not allocated at start is never allocated
  (`modbus_connect.c:215`); `NullContextIsFinal` states it.
- Reporting the first error of an RTU client prints an integer as a string
  (`modbus_connect.c:118`); the model ends in a crash there.
- `manager_init_connections` passes over the OPC clients after the first that
  connects, leaves their sign down and still returns true (its caller only
  prints the difference, and the first survey reconnects); `modbusConnect`
  returns true when `modbus_connect` failed (`modbus_connect.c:88`).
- `logger_init` asks whether `logger_set_log_file` returned more than 0, and it
  returns -1 in failure (`logger.c:317`): the failure is never seen.  On a fresh
  start it is not reached: the report of the failure goes through a NULL
  function (`logger.c:349`), where `logger.h` promises "Default is syslog" and
  the function a return of -1.
- A double word is read as four registers (`client_manager.c:299`) and made of
  two (`client_manager.c:53`).
- The log is erased after an archive that could not be written, and two archives
  of one second overwrite each other: the two exceptions of `RecordsKept`.
- A Modbus type that is neither TCP nor RTU is accepted and asked for no
  address: the exception of `AcceptedConnects`.
- `openSecureChannel` does not look at the result a fault carries
  (`open62541.c:40520`), so that a refused channel counts as one; the calls after
  it fail.  "Close the connection" (`open62541.c:40002`) stands where nothing is
  closed.

## 6. Not modelled

`manager_close_all_connections`, `modbusCloseConnection` (reached only after an
endless loop); `opc_test` (never called); the branches for enumeration values no
configuration produces; build files; texts and log lines, the buffers they are
put together in, and with them the names that `manager_receive_data` copies.

open62541 is a vendored amalgamation of 86 644 lines, 97 % of the repository.
The program calls six of its functions.  `UaClient` has what they do to the
connection: connecting, service calls, waiting, disconnecting, deleting.  Left
out are the parts the program does not reach (server, nodestore, discovery,
subscriptions, asynchronous calls, and encryption, which `open62541.h` does not
enable), the generated types and their binary encoding (tables; a message that
cannot be decoded is an outcome of the model), and the assembly of chunks,
present as the outcome of a wait.  The lines that `map` covers are therefore a
small share of the repository and most of the program's own.

Two details of what is modelled are left out.  The result of
`manager_init_connections` reaches a printed message and nothing else.  An answer of the wrong type to
the opening of the channel leaves a response of which the nonce is used
uninitialised (`open62541.c:40513, 40434`); `UaClient` has the plain success that this looks like at
first, and not what the undefined value may do when it is freed.

What a careful reader might add: the texts, with the buffers of 128 and 256
characters they are put together in.
