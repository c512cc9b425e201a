# Verification of the Matter–Zigbee bridge for RW612

TLA+ specifications of the bridge application in this repository, TLC
configurations that check them on small instances, and TLAPS proofs that hold
for every value of the constants. Paths are relative to `src/`; `ZCB/` stands
for `zigbee_bridge/rt/rw61x/ZCB/` and `BM/` for `bridge-app/nxp/rt/rw61x/main/`.

## 1. The system

The bridge is a Matter application on a FreeRTOS microcontroller (RW612). A
second chip, the Zigbee coordinator, is attached by a UART. Zigbee devices that
join the Zigbee network appear in the Matter fabric as dynamic endpoints.

Tasks and what runs in them:

| task | priority | runs |
|---|---|---|
| UART interrupt | – | puts each byte in a queue of 1024 (`ZCB/serial.c:71-114`) |
| `serialReadTask` | idle+4 | decodes frames, serves the waiters' slots, feeds the callback queue |
| `serialCallbackTask` | idle+3 | runs every `ZCB_Handle*` callback of `ZCB/zcb.c` |
| timer task | FreeRTOS | device and permit-join timers |
| `ZcbMonitor` | 1 | polls the mailbox `ZcbMsg` every 100 ticks, edits Matter endpoints |
| Matter task | of the SDK | reads and writes bridged attributes, sends Zigbee commands |
| Matter shell | of the SDK | `EnumNodes`, `SaveNodes`, `RetrieveNodes` and the `zb-*` commands, added by `patches/example-changes.patch` |

### Inventory

| component | state it keeps | operations | reached by |
|---|---|---|---|
| serial link, `ZCB/SerialLink.c` | five message slots with event groups, transmit mutex and static buffer, listener list, callback queue of five | send a command and wait for its status, wait for a response, queue a received message, dispatch callbacks | calls from callback, Matter and Matter shell tasks; bytes from the driver |
| serial driver, `ZCB/serial.c` | byte queue | interrupt, read, write | interrupt and serial link |
| Zigbee host, `ZCB/zcb.c` | `sZcb`, `JoinedNodes`, `idx`, `savedNodes`, the record in flash, the mailbox | one handler per coordinator message, command senders, save, restore, update of the joined list | callback task; `ZcbMonitor` and shell call `StoreJoinedNode`, `SaveJoinedNodes` |
| device table, `ZCB/ZigbeeDevices.c` | `deviceTable`, timers | add, find, erase, qualify a new device | callback task, timer task, Matter task |
| bridge manager, `BM/src/BridgeMgr.cpp` | `gDevices`, `gRooms`, endpoint counters, mailbox reader | add, remove, restore endpoints, write attributes both ways | `ZcbMonitor`, Matter task, shell |
| bridge devices, `BM/src/Device.cpp` | name, reachability and cluster attributes | setters with change callbacks | bridge manager |
| bridged actions, `BM/src/BridgeActions.cpp` | static action and room tables | start, enable | Matter task |
| stand-alone shell, `ZCB/shell.c`, `cmd.c`, `zigbee_cmd.c` | line buffer, command list | parse and run commands | nobody: compiled, but its registration is commented out (`ZCB/zcb.c:155`) |
| application start, `bridge-app/nxp/common/main/` | Matter SDK objects | initialisation, callbacks of the SDK | SDK |

### What is hard, and what makes each part correct

* Serial link. Up to five tasks wait for answers that are lost, late or
  reordered, in slots that are scanned without a lock. Correct when no slot and
  no copy leaks, nobody reads or frees what is not its own, a call that
  succeeds has its own answer, and every call returns.
* Frame codec. Escaping, checksum and length with 8-bit counters, and bytes lost
  under overrun. Correct when what is decoded is what was encoded, and after
  damage the next frame is found.
* Mailbox between callback task and `ZcbMonitor`. One record, overwritten by
  whoever sends. Correct when a message that was read was sent, is whole and is
  handled once; the last one is always handled.
* Joined and saved nodes. Three tasks edit one list and one flash record; the
  device may restart at any point. Correct when a node is kept with its own
  endpoint until it leaves, and the record after a restart is one that was
  written.
* Device table and qualification. A new device passes through several states,
  each driven by answers that may not come. Correct when a qualified device was
  asked for everything it needs, and a table entry is never handed to two
  devices.
* Dynamic endpoints. Sixteen places for endpoints that are added, removed and
  restored. Correct when an endpoint id stands for one device.

`PROJECT.json` lists the hazards with the line where each bites.

## 2. Plan

In this order, the most important behaviour first:

1. `MessageSlots` – commands, slots, waits, transmit buffer. **Done**, with
   proofs.
2. `NodeJoin` – from the announcement of a node through the mailbox and
   `ZcbMonitor` to an endpoint and the record in flash, with leaves, shell
   commands and restarts. **Done**, with proofs.
3. `SerialFrame` – encoder, decoder, interrupt and byte queue, shown to implement
   `LossyLink` while only delimiters are lost. **Done**, with proofs of its
   invariants, content included.
4. `DeviceTable` – table, attributes, interview, timers, erasure and the callback
   queue. **Done**, with proofs.
5. `BridgeCommands` – bridge devices, attribute reports and commands, composed
   with every action of `NodeJoin`. **Done**, with proofs.

Most safety properties of the passing runs are also theorems; section 5 lists
those that are only model-checked, and liveness is left to TLC.

None of these modules uses `RECURSIVE`: recursion is left to folds.

## 3. Modules

### `MessageSlots` (with `SlotHistory`, `MCMessageSlots`, `MCSlotHistory`, `MessageSlots_proofs`)

`ZCB/SerialLink.c`, lines 196-317 and 557-693. A *client* is a task that sends
commands. Its program counter follows `eSL_SendMessage`:

| `pc` | the code is about to |
|---|---|
| `lock`, `load`, `flush` | take `txMessageMutex`; load the static buffer; write it and give the mutex back |
| `scan` | look at slot `at` in `eSL_MessageWait` |
| `armed`, `blocked` | call `xEventGroupWaitBits`; is blocked in it |
| `woken`, `expired` | clear `u16Type` with, without the bit |
| `collect` | read `pu8Message` of the slot it has released |

One action is one critical section, one blocking call, or the code between two
of them: those are the points where another task may run. `Below` holds the
clients whose priority is below that of `serialReadTask`; they do not run while
that task works on a message. With `Below = {}` a client may run between any
two steps of the reader.

Data kept: which command a message is about, and what `pu8Message` points to
(nothing, the stack of a caller, a copy, freed memory). Sequence numbers and
payloads are left out. A stack buffer holds the command in host byte order and a
copy in network order, so `Differs` compares them as the code does.

The coordinator is external. A command it received puts its status and its
response in `inflight`; each arrives at any time, in any order, or is lost.
`LateReplies = FALSE` says that no wait times out while its answer is still to
come.

`SlotHistory` adds three history variables, which restrict no step. The code marks
a slot as taken by `u16Type` alone, so a slot looks free while a call still has to
read its answer from it, and a claim does not clear the event bit. `spoiled` holds
the calls that shared a slot with another one or met a bit that was left over (or
was about to be set) when they claimed it; `left` the slots with a copy that a wait
did not take, `overwritten` counts the copies whose pointer was replaced.
`AnswerIsOwn` and `CopiesFreedWhenIdle` are stated with them: every other call
reads its own answer, and every other copy is freed, once. Their exceptions are
what `SignalledDataAvailable` and `AllocationSucceeds` are violated by.

**Not in the module**: the callback queue, which the code serves after the slots
(`Dispatch`) and which is in `DeviceTable`; `pvPortMalloc` by other code (`HeapSize` is
what is left for copies).

### `NodeJoin` (with `MCNodeJoin`, `NodeJoin_proofs`, `NodeRecord_proofs`)

`ZCB/zcb.c` 714-1004, 1350-1442 and the parts of `BM/src/BridgeMgr.cpp` that
`ZcbMonitor` runs (109-221, 309-483). Three tasks:

| task | variable | actions |
|---|---|---|
| `serialCallbackTask` | `cb` | `Announce`, `Descriptor`, `Activate`, `Report`, `Leave` begin a handler; `Asked`, `PostAdd`, `LeaveEntry`, `LeaveEnd` go on where it blocked |
| `ZcbMonitor` | `mon` | `TakeWrite`, `TakeRestore`, `TakeAdd` read the mailbox; `Place` is one round of the loop in `AddDeviceEndpoint`; `Check`, `Assign`, `Copy` are `UpdateJoinedNodes`; `Read`, `Write`, `Save` are `StoreJoinedNode` |
| Matter shell | `cli` | `EnumNodes`, `SaveNodes`; `RetrieveNodes` to `RetrieveEnd` are `RestoreJoinedNodes` |

`joined` and `idx` are the code's `JoinedNodes` and `idx`; `saved` is the first
`totalNodes` entries of `savedNodes`, `flash` the file (or `NoFile`); `table` is
what `deviceTable` says of the state of each node; `mail` is `ZcbMsg`;
`gDevices`, `endpoints`, `gIndex`, `curEp`, `firstEp` belong to `BridgeDevMgr`.

Granularity. `serialCallbackTask` is above `ZcbMonitor`, so a handler is atomic
up to a call that blocks, and may come between any two steps of `ZcbMonitor`.
These steps are the reads and writes of `idx`, `JoinedNodes` and `savedNodes`,
which no lock protects. The priority of the Matter shell is the SDK's, and runs
that give shell commands do so while nothing else is under way (`OneAtATime`).

Abstractions:

* A node is its MAC address. `addr` is the short address it has in the network,
  one of `AddressesOf`, chosen at each announcement; an entry keeps the one it was
  made with, as in the code.
* A device carries the node it was made for and `sZcb` the node of its last
  descriptor. The code has no such link: that is what `DeviceAndNodeAgree` is
  about.
* Endpoint ids run to `EndpointLimit`, which stands for `0xFFFF`.
* A write to flash is atomic; the power may fail before or after it.
* `Idx` of `ZCB_HandleDeviceLeave` is uninitialised when the leaving node is not
  in the record: it takes every value up to `DevNum`. `OnlySavedLeave` keeps such
  leaves out.
* `ThisMgr` is NULL when `ZcbMonitor` runs, so before a record exists the first
  endpoint id is what memory holds there: any member of `StaleEndpoints`.
* `halted` stops the model where the code dereferences NULL or leaves an array;
  the code has no guards against the latter, so no property says it never happens.

**Not in the module**: the attribute values (`BridgeCommands`), the steps of the
qualification between `joined`, `described` and `active` (`DeviceTable`), and the
removal of endpoints, which no task requests.

### `SerialFrame` (with `LossyLink`, `MCSerialFrame`, `SerialFrame_proofs`)

`eSL_WriteMessage`, `eSL_ReadMessage` with what they call, and `ZCB/serial.c`.
`FrameOf` is the encoder: header, checksum, payload, escapes. `Buffered` is what
the 8-bit index of the transmit buffer leaves of it. The decoder is a state
machine, one action for each case of `eSL_ReadMessage` (`ReadStart`, `ReadEsc`,
`ReadEnd`, `ReadOther`), with the static locals in `rx` and `sMessage` of
`serialReadTask` in `msg`. `Arrive` is the interrupt, which asserts when the byte
queue is full; `LoseByte` is the interrupt with an error flag, `AddByte` noise on
the line. Every byte carries the number of its frame, a history that the
properties use and the decoder does not see.

`LossyLink` is what a message link promises: what is handed over was put in, is
unchanged, comes in order and at most once. `IsLossyLink` maps `pending` to the
messages from the oldest frame that may still be handed over, and `received` to
what was accepted. A start character resets the decoder but leaves `sMessage` as
it is: a frame that lost its end is complete in there, and an end character that
comes right after the next start hands it over. Its number is therefore kept from
the first byte of its header to that of the next (`origin`).

Abstractions: a byte has `Bits` bits, of which the values below `EscBit` are
escaped; the coordinator frames messages as the host does.

### `DeviceTable` (with `MCDeviceTable`, `DeviceTable_proofs`)

`ZCB/ZigbeeDevices.c`, the handlers of `ZCB/zcb.c` that use the table, and the
callback queue of `ZCB/SerialLink.c`. `serialCallbackTask` is in `h`:

| `h.at` | the code is |
|---|---|
| `idle` | about to take a message from the callback queue (`Handle*`) |
| `loop` | at the top of the loop in `vZDM_NewDeviceQualifyProcess` |
| `ask`, `wait` | about to ask the device; in `eSL_MessageWait` for its answer |
| `next` | in the loop over the clusters that are read or bound |

Devices answer, leave and report in `net` and `air`; messages arrive in any
order, a question or its answer may be lost, a wait may end early because of a
stale event bit (`Wake`) or late (`Timeout`), and the shell's `zb-erasepdm`
clears both tables at any time. `epIndex` is the static `epArrayIndex`, and
`beyond` says whether it has pointed behind the endpoints of an entry. `broken`
stops the model where the code leaves an array or follows a bad pointer; an
expired timer is one of those, for its id is the address of a loop variable.

### `BridgeCommands` (with `MCBridgeCommands`, `BridgeCommands_proofs`)

`BM/src/BridgeMgr.cpp` 488-1034, `BM/src/Device.cpp`, and the senders and
`Bridged` functions of `ZCB/zcb.c`. It EXTENDS `NodeJoin` and adds the Matter
task: `OnOffCommand`, `LevelCommand`, `ColorCommand` begin a command, `FindNode`,
`ReadAddress` and the senders are the steps in which `serialCallbackTask` may
change `JoinedNodes`; `RunWork` is work scheduled by a measurement. Reports go
the other way: `ReportValue` fills memory that is free as soon as the mailbox
points to it (`ReuseMemory`), and `WriteAttribute` casts `gDevices[0]` to the
class of the cluster. `OtherSteps` are all actions of `NodeJoin` that touch
nothing of this.

Two histories serve `CommandReachesNode`: `given` is, for an endpoint, the short
address its node had when `UpdateJoinedNodes` entered it (`EnterEndpoint`), or
`None` if it was entered for another node or for none; `emptied` has the endpoints
whose entry a leave has emptied since (`EmptyEntry`), and `cmd.hit` says that this
happened to the entry a command had already found.

The stack lock of Matter is held from `emberAfSetDynamicEndpoint` to the end of
`UpdateJoinedNodes` and throughout a command (`StackLockFree`).

Locks are taken in one order, so no task waits in a circle: the callback task
and the shell take `bridge_mutex`; `ZcbMonitor` takes `bridge_mutex`, then the
stack lock; the Matter task has the stack lock when it takes the transmit mutex;
`serialReadTask` waits for none of them, and every wait for an answer has a
timeout.

## 4. Runs

Each run checks the MC module whose name it begins with; `MessageSlotsPreempt` and
`MessageSlotsLive` check `MCSlotHistory`.

| run | instance | shows |
|---|---|---|
| `MessageSlotsPreempt` | 2 clients of any priority, 2 slots, a command with a response, late answers, symmetric | `TypeOK`, `ArmedSlotIsHeld`, `SlotsSuffice`, `NoDanglingBuffer`, `AnswerIsOwn`, `CopiesFreedWhenIdle` |
| `MessageSlotsLive` | 2 clients for 1 slot, one command sent without a wait, late answers, fairness | `OwnFrame`, also when a call finds no slot; `AnswerIsOwn` with two commands; `CallReturns` |
| `MessageSlotsRaces` | 2 clients, 2 slots, answers in time | **violated** `SignalledDataAvailable`: a call that was woken gives its slot back (`SerialLink.c:286`), another call claims it and puts the address of its own status there, and the first reads that (`:296`) and frees it (`:231`) |
| `MessageSlotsLeak` | 1 client that reads attributes | **violated** `AllocationSucceeds`: the copy of a response is never freed |
| `NodeJoinRaces` | 2 nodes, 3 announcements, 1 restart, free interleaving, reports, leaves of any node, fairness | `TypeOK`, `SavedOnce`, `SavedEndpointsDistinct`, `JoinedEndpointsDistinct`, `RecordKeeps`, `OnlyIdxMixes`, `JoinCompletes` |
| `NodeJoinOrderly` | 3 nodes, 4 announcements, 1 restart, one event at a time, `RetrieveNodes` | `DeviceAndNodeAgree`, `EndpointFitsNode`, `EndpointIsLive` |
| `NodeJoinSaved` | 3 nodes, 3 announcements, 1 restart, one event at a time, all shell commands, leaves of saved nodes | `RecordMatchesJoined` |
| `NodeJoinOverlap` | 2 nodes announce themselves | **violated** `DeviceAndNodeAgree`: the endpoint is entered for the later node |
| `SerialFrameDelimiters` | 3 frames out of 5 messages, 3 faults, byte queue of 2 | `TypeOK`, `PayloadFits`, `IntactFramesArrive`, `IsLossyLink` |
| `DeviceTableRaces` | 2 devices, 1 leave or erasure, 2 losses, queue of 2, free interleaving | `TypeOK`, `IeeeDistinct`, `ActiveStaysActive`, `AttributesHaveDevice`, `PointersGood` |
| `DeviceTableOrderly` | 2 devices, 3 announcements, a second address, 2 leaves or erasures, 1 loss, one event at a time, fairness | `ReportsAreKnown`, `JoinedBecomesActive`, `AddressFollows` |
| `BridgeCommands` | a sensor, an on/off and a color light that may come back with another address, 2 announcements, 1 restart, one event at a time, fairness | `BridgeTypeOK`, `CommandReachesNode`, `ReportShown` |

The violated properties state what the code's comments and README say; the
findings in `PROJECT.json` quote them. What remains true in spite of each is a
property of a passing run: `AnswerIsOwn`, `CopiesFreedWhenIdle`, `OnlyIdxMixes`.

`BridgeCommands` takes one event of the nodes at a time, which keeps its liveness
check small; a command's steps interleave with each event all the same. `CommandReachesNode`
is proved for every interleaving, and TLC has checked it with `OneAtATime = FALSE`
(`BridgeSpec`, no liveness: 4.7 million states).

More disagreements can be reproduced by a change of constants:

| change | violated | what happens |
|---|---|---|
| `NodeJoinOverlap` with `PROPERTIES LeaveErases` | `LeaveErases` | the first entry of the record is never removed (`ZCB/zcb.c:976`) |
| `NodeJoinOrderly` with `KindOf <- MCSensor`, `Nodes = {n1}` | `EndpointFitsNode` | a sensor comes back from the record as an on/off light (`BM/src/BridgeMgr.cpp:426`) |
| `NodeJoinOrderly` with `RetrieveFirst = FALSE` | `DeviceAndNodeAgree` | `RetrieveNodes` replaces devices in use (`BridgeMgr.cpp:416`) |
| `NodeJoinSaved` with `OnlySavedLeave = FALSE` | `RecordMatchesJoined` | the leave of a node that is not in the record deletes at an uninitialised position, so another node is forgotten (`zcb.c:950-985`) |
| `NodeJoinSaved` with `RetrieveFirst = FALSE` | `RecordMatchesJoined` | `RetrieveNodes` writes the record over the list by position, over nodes that joined since (`zcb.c:836-846`) |
| `NodeJoinSaved` with `INVARIANTS SavedOnce` | `SavedOnce` | `SaveNodes` appends nodes that are saved (`ZCB/zcb.c:786`) |
| `NodeJoinOrderly` with `DevNum = 3` | `DeviceAndNodeAgree` | a node that announces itself three times fills the list, and the next node's endpoint goes to its last entry (`zcb.c:927-934`) |
| `SerialFrameDelimiters` with `Messages <- MCStale`, `Losable = 0..7` written out, `MaxFaults = 1`, `Noise = {}` and `INVARIANTS OnlySentMessages` | `OnlySentMessages` | a frame that lost a byte is accepted: the bytes read are never compared with the length, and the checksum kept from before may match (`SerialLink.c:352`) |
| `SerialFrameDelimiters` with `IndexRange = 16` | `IsLossyLink` | a frame longer than the index can count is sent without its start (`SerialLink.c:471`); payloads of up to 121 bytes, more than the host sends, fit in any case |
| `SerialFrameDelimiters` with `Messages <- MCShifted` and `Noise = {1, 5}` | `IsLossyLink` | after a start character and a byte of noise the body of a frame that lost its start is read as the next bytes of a header, and the checksum of bytes that are only XORed matches |
| `DeviceTableOrderly` with `MaxFaults = 2` | `JoinedBecomesActive` | two unanswered descriptor requests leave `epArrayIndex` above zero, and every later device with one endpoint stays in the interview (`ZCB/ZigbeeDevices.c:361`) |
| `DeviceTableRaces` with `MaxFaults = 6` and `PointersGood` without `~ beyond` | `PointersGood` | each unanswered descriptor request moves `epArrayIndex` on, past the endpoints: the next asks for one from behind the array, and its answer is used without a test (`ZigbeeDevices.c:409-414`, `zcb.c:1376-1378`) |
| `DeviceTableOrderly` with `MaxAttributes = 3`, `MaxGone = 0` | `ReportsAreKnown` | the attributes that have no room in the table are left out, and the device becomes active nevertheless (`ZigbeeDevices.c:170-197`) |
| `DeviceTableOrderly` with `AddressesOf <- MCShared`, `OneAtATime = FALSE`, `MaxJoins = 5`, `MaxGone = 0`, `INVARIANTS ReportsAreKnown`, `CONSTRAINT MCPath` | `ReportsAreKnown` | a late answer of one device is taken for that of another which has its old address by now, and starts an interview of the entry that binds the device under an address it leaves again |
| `BridgeCommands` with `INVARIANTS ReportFitsDevice` | `ReportFitsDevice` | a report of any node is written to `gDevices[0]`, cast to the class of the report's cluster (`BridgeMgr.cpp:693-725`) |

Others are in the models as the code has them, without a property of their own:

* A payload of exactly 256 bytes passes the check of the header and fails that
  of the end character (`SerialLink.c:350`, `396`).
* A device without endpoint 1 stays in the interview, since endpoint 1 is always
  asked for (`ZigbeeDevices.c:419`).
* A device that leaves takes the attributes of those after it along, and memory
  beyond the table (`ZigbeeDevices.c:312`): reports of the others are dropped.
* A device that comes back with a new address keeps its attributes under the old
  one, so its reports are dropped. `JoinedNodes` gets a second entry for it, and
  the one with the endpoint keeps the old address (`zcb.c:927-937`): its commands
  are sent to an address nobody has, until it leaves. `CommandReachesNode` is
  stated for nodes that have the address of their entry (`Stayed`).
* A call that times out while its status arrives, or whose slot another status
  released (`SerialLink.c:576`), leaves a slot to others that it, or the reader, is
  not through with. These are the spoiled calls of `SlotHistory`.
* `totalNodes` wraps (`zcb.c:985`): a node that is not saved leaves while
  `StoreJoinedNode` updates the only saved one, the empty record is saved, and the
  next leave takes one away. `NodeJoinRaces` reaches this in 30 steps, as
  `halted = "overrun"`. The same stands for an append to a full record
  (`zcb.c:889`) and for a restore with `gIndex` at the end (`BridgeMgr.cpp:416`).
* A described node is not saved if a report or another node's descriptor takes the
  mailbox first (`zcb.c:745`), if another announcement has moved `idx`, if a leave
  reads the record again between the search and the save of `StoreJoinedNode`, so
  that the appended node is gone, or if the endpoint ids are used up. `Displaced`
  lists these, and TLC gives a trace for each when it is left out.
* A repeated descriptor makes a second device of a node, and an endpoint id 0 is
  taken for "no endpoint" by `UpdateJoinedNodes`: no entry has the endpoint, and
  commands for it are not sent.
* After several unanswered questions a descriptor is asked for while no endpoint
  is known, and its answer is used through NULL (`ZigbeeDevices.c:409-414`,
  `zcb.c:1376-1378`).
* A descriptor that arrives after a leave makes `ZCB_HandleSimpleDescriptorResponse`
  follow NULL (`zcb.c:1376`).
* A level command without a transition time stops the program
  (`BridgeMgr.cpp:781`, `LevelWithoutTime`), and Matter always reads a light as on,
  since nothing sets `mOn`.
* A command for a node that leaves while the command is looked up goes to address
  zero, the coordinator, or to the node that has taken the entry (`cmd.hit`).
* Zigbee's 0x8000, "no measurement", is shown as the lowest value.

### Bounds

Two clients and two slots are the least with which slots change hands. One
answer of each kind in flight suffices for a late answer to meet a later call.
A heap of one reaches the failing assert at once, a heap of two lets two copies
live. `MessageSlotsPreempt` has one command, so that the clients are symmetric;
that a status is that of the call's own command is checked by `MessageSlotsLive`,
which has two, and one slot for both clients.

Two nodes are the least for one to disturb the other; a third shows what a leave
does to the entries behind the deleted one. `MaxJoins` lets one of
them join, leave and join again beside the other; `MaxRestarts` lets a record be
restored and added to. `DevNum` is 2 in `NodeJoinRaces`, so that the list fills
up, and as large as `MaxJoins` where a property speaks of nodes that found an
entry. `EndpointLimit` is above the ids that are used, except in
`NodeJoinRaces`, where the ids run out. A node sends one descriptor for each
announcement (`MaxDescriptors`), which may be lost.

Bytes of three bits have every kind the code tells apart: the three special
characters, zero, which is escaped as well, and four values that are not. The
five messages are an empty payload, one that looks like a delimiter, one shorter
than, one as long as and one longer than the buffer; three frames let a broken
one stand between two good ones. Three faults are the least that reach the message
held in `sMessage` from the outside: a lost end, a start and an end of noise. The
bytes lost are the start and end characters: for any byte the checksum is no
guarantee, as the table above says.

Two devices share a table of two and an attribute table that one of them fills.
A queue of two is full when a third message comes. One loss takes each branch of
a repeated question, two losses the end of it. `BridgeCommands` has a node of
each class the casts tell apart; measurements of three bits with a range that is
not symmetric, and two values, one of them below the range once it is signed.

### Fairness

`MessageSlots`: `serialReadTask` has the highest priority of the tasks and never
blocks between two reads except for the listener mutex: weak fairness. A client
below it runs in the gaps between bytes, and a mutex that is given back goes to a
waiter: enabled again and again, not always, hence strong fairness. No fairness
is assumed of the coordinator or the wire.

`NodeJoin`: weak fairness of a handler that has begun (`Callback`), of
`ZcbMonitor` and of `RestoreJoinedNodes`. Each is a task that the scheduler runs
once those above it block, and each waits only for a timeout, a tick or
`bridge_mutex`, which `ZcbMonitor` gives back. No fairness is assumed of nodes or
of the user.

`DeviceTable`: weak fairness of `serialCallbackTask` and of arriving messages;
strong fairness of the reports of a device that reports at intervals, which
`AddressFollows` needs. `BridgeCommands`: weak fairness of the callback task,
`ZcbMonitor` and a command that has begun; strong fairness of scheduled work,
since the Matter task's queue is first in, first out and commands cannot keep
work waiting for ever. `SerialFrame` has no liveness property.

## 5. Proofs

Each theorem holds for every value of the constants that satisfies the named
assumptions of the module (TLC evaluates those in every run) and the hypotheses
given below, which are conditions on how the bridge is used; none of them is
hidden in the specification. Hypotheses on the interleaving (`OneAtATime`) and
on what the shell is given are constants that runs set as well, and section 4
names what happens without them. No theorem assumes one event at a time. A theorem without a hypothesis in its row has
none.

| module | theorem | property | hypotheses |
|---|---|---|---|
| `MessageSlots_proofs` | `TypeCorrect`, `NoSlotLeaks`, `FramesAreOwn`, `NoStaleStack`, `SlotsAlwaysSuffice` | `TypeOK`, `ArmedSlotIsHeld`, `OwnFrame`, `NoDanglingBuffer`, `SlotsSuffice` | |
| | `AnswersAreOwn`, `StatusCopiesFreed` | `AnswerIsOwn`, `CopiesFreedWhenIdle` | |
| `NodeJoin_proofs` | `TypeCorrect` | `TypeOK` | |
| | `JoinedEndpointsDiffer`, `ListedEndpointsLive` | `JoinedEndpointsDistinct`, `EndpointIsLive` | no shell command but `SaveNodes` |
| | `EndpointsFitNodes` | `EndpointFitsNode` | no `RetrieveNodes` |
| | `DevicesMixOnlyAtAssign` | `OnlyIdxMixes` | no shell command but `SaveNodes` |
| `NodeRecord_proofs` | `NodeSavedOnce` | `SavedOnce` | no `SaveNodes` |
| | `SavedEndpointsDiffer` | `SavedEndpointsDistinct` | no shell command |
| | `RecordIsKept` | `RecordKeeps` | |
| `BridgeCommands_proofs` | `ImplementsNodeJoin` | `BridgeSpec => Spec` of `NodeJoin` | |
| | `BridgeTypesCorrect` | `BridgeTypeOK` | |
| | `CommandsReachNodes` | `CommandReachesNode` | no shell command but `SaveNodes` |
| `SerialFrame_proofs` | `TypeCorrect`, `PayloadStaysInBuffer` | `TypeOK`, `PayloadFits` | |
| | `FramesSurvive` | `IntactFramesArrive` | `FramesFit`: the frames of the messages that the decoder takes fit the transmit buffer |
| | `DelimitersOnlyAtTheEnds` | of `FrameOf`: start and end characters are the first and last byte only | |
| `DeviceTable_proofs` | `TypeCorrect`, `OneEntryPerDevice`, `ActiveLeftAlone`, `AttributesOfDevices`, `PointersAreGood` | `TypeOK`, `IeeeDistinct`, `ActiveStaysActive`, `AttributesHaveDevice`, `PointersGood` | |
| | `ReportsKnown` | `ReportsAreKnown` | `NoSharedAddress`: no address is ever given to two devices; and in the states in which `attributeTable` is not full |

The commands of the shell overwrite the list by position or append what is saved;
what that does to the properties concerned is in the table of section 4.

### The inductive invariants

`MessageSlots`. `IInv` joins the properties with what a client in each place of
the code has (`MutexOK`, `CallOK`) and what the reader has in hand (`ReaderOK`):
`NoDanglingBuffer`, say, is not inductive without the fact that the reader stores
copies only in a slot whose owner has not left. `SlotsAlwaysSuffice` counts, for
each slot index k, the clients that have reached k (`ScanOK`): at most
`NSlots - k + 1`, because one of those before the scan holds the slot that made
it go on.

`HistInv` is about the calls that are not spoiled. Such a call is alone at its slot
(`AloneOK`), and there is in it either its own stack buffer or the answer to its own
command; once the bit is set, or about to be, it is the answer (`WaitOK`). A status
slot of which the pointer goes to a stack buffer belongs to a call that still waits
for that status, which is `NoDanglingBuffer`, so a message of the right type for
another command does not match. For the copies, `CopiesOK` counts: those allocated
are those in slots and those overwritten, and one in a slot at which there is no
call was left there.

`NodeJoin`. `TypeInv` adds to `TypeOK` that no saved endpoint id is the last one,
for the next id is one above the highest that is saved.

* `OnceInv`: the record in memory is the one in flash outside of
  `StoreJoinedNode`, and while this is about to append a node both lack it
  (`NotFoundStays`): a leave in between only removes.
* `EpInv`: while `ZcbMonitor` is at a device, the current endpoint id is above
  every saved one, and it carries this id to the record and no other.
* `RecordIsKept` needs only the types: no step but `LeaveEntry` takes a node out of
  the record, and `StoreJoinedNode` writes what it has read, with one entry
  changed or added (`KnownStep`). What makes it hold in every interleaving is that
  a leave reads the whole record again before it removes an entry, and that
  `Known` asks, while `StoreJoinedNode` is between its steps, for the node to be in
  `savedNodes` as well.
* `LiveInv`: an endpoint of the list is one of the stack, and the one between
  `Place` and `Assign` is not yet in the list.
* `DevicesMixOnlyAtAssign` (`AtPlace`, with `LiveInv`): the code has no link from a
  device to a node. From `Place` to `Assign` the place of the current device
  alone has the new endpoint id, so that this id is in no entry, and an assignment
  to the entry of the device's own node keeps all pairs right. Handlers only
  remove entries or take free ones (`NodesStay`).

`BridgeCommands`. `ImplementsNodeJoin` maps every step to a step of `NodeJoin` or
a stutter, which carries all theorems about `NodeJoin` over. `BridgeTypesCorrect`
needs to know that a device has the node it was made for as long as its message is
under way (`Named`). `ReachInv` says where the endpoint of each device is: listed
with the short address its node had when it was entered, or about to be entered,
or emptied by a leave since (`Listed`); that no entry has an endpoint that was
emptied (`EmptiedAreGone`), and that zero is entered for nobody (`ZeroUnknown`).
`OnItsWay` says what a command has found so far: while it is looked up the stack
lock keeps `ZcbMonitor` from giving its endpoint away, and an entry with an address
is in use (`EntryInv`), so only a leave changes the entry it has found.

`SerialFrame`. `DecoderInv` adds to the types what each state of the decoder
knows (`Decoding`): in the states of the second byte the first one is in the upper
half, after the header the length fits the buffer, and in the state `data` no
more than `length` bytes are stored. The transmit index wraps at `IndexRange`,
which none of this depends on.

`FramesSurvive` follows every undamaged frame (`FramesKept`): it was handed over,
lies unread as a whole (`Waiting`), or is being read (`Reading`). In the last case
the decoder has taken the bytes of its body before the `i`-th (`Seen`), and the
next one unread is at the place that the encoder gave the `i`-th, or the second
of the two if it is escaped (`Offset`). Two facts about the encoder carry the
induction: where each byte of the body stands in the frame (`FramePlaced`), and
that the escape of an escaped byte is the byte (`EscapeUndone`, from the bits of
numbers in `DataLemmas`). The decoder resynchronises because `StartIsRead` holds
in any state. `FramesFit` is necessary: when a frame is longer than the index can
count, its first bytes are overwritten (TLC: `IndexRange = 14`).

`DeviceTable`. `CalmInv`, of a table whose devices neither left nor moved and with
an index that stayed within the array: each message comes from the address in
the table, an entry has all endpoints the device said or none (`EntryGood`), and
a device that is asked for a descriptor, or answers with one, has an entry with
endpoint 1 (`DescriptorsKnown`).

`ReportsKnown` speaks of devices that may move, so `CalmInv` does not serve. Its
invariant (`KnownInv`) holds while no device left and nothing was erased. An answer
and the entry that the handler works on have the address of the announcement that
added the device, wherever it has moved since (`Placed`); hence an answer is never
used for the entry of another device. Of the entry of an active device every bound
attribute is found (`ActiveKnown`), and while its clusters are being bound each is
found or still to come (`TodoKnown`). The last two need the table not to be full:
`tZDM_AddNewAttributeToAttributeTable` drops what has no room and tells nobody.
Because the table only grows while nobody leaves, a table that is not full now
was not full then, and nothing was left out. The
hypotheses are both necessary (section 4).

`DataLemmas` has what these proofs need of `Min` and `Max`, of removal from
sequences, flattening and what it ranges over, powers of two, bits of numbers and folds. Where a proof on paper uses
induction it takes the least counterexample of a set of numbers (`LeastNat`) or of
finite sets, whose existence the library's theorems give.

### Only model-checked

* Liveness (`CallReturns`, `JoinCompletes`, `JoinedBecomesActive`,
  `AddressFollows`, `ReportShown`): beyond the prover.
* `DeviceAndNodeAgree` and `RecordMatchesJoined`. Both hold only when the network
  does one thing at a time, the latter also only if unsaved nodes stay, and the
  code ensures none of this. What it ensures is `OnlyIdxMixes` and `RecordKeeps`,
  which are proved.
* `IsLossyLink`. It holds while the line loses nothing but delimiters, and the
  interrupt may lose any byte; what holds then is `IntactFramesArrive`, proved as
  `FramesSurvive`.
* The three violated properties, and those in the table of section 4.

## 6. Not modelled

The Matter SDK, the coordinator's firmware and FreeRTOS are not in the
repository: FreeRTOS primitives are modelled by what they promise. `.zap` and
`.matter` data, build files and patches have no behaviour, except for the shell
commands in `patches/example-changes.patch`. `ZCB/shell.c`, `cmd.c` and
`zigbee_cmd.c` never run. Of the Matter shell's `zb-*` commands other than
`zb-erasepdm`, each sends one command, which is a client call of `MessageSlots`.

Left out of `ZCB/zcb.c`: the restart of the coordinator, which makes one call and
asserts that it succeeds (`HandleRestart`); handlers that only log; the address
response, to a question nothing asks; over-the-air updates, which nothing starts.
Left out of `BM/`: removal of endpoints, which nothing requests, names and
locations, composed devices, and the rooms and actions, which are tables filled
at start.
