---------------------------- MODULE BridgeCommands ----------------------------
(***************************************************************************)
(* What the joined nodes are for: commands from Matter to Zigbee and       *)
(* attribute reports from Zigbee to Matter.  BridgeMgr.cpp and Device.cpp  *)
(* of bridge-app/nxp/rt/rw61x/main/src, and the Bridged functions and      *)
(* senders of zcb.c, composed with the tasks of module NodeJoin, of which  *)
(* every action is used.                                                   *)
(*                                                                         *)
(* The Matter task handles a command with the stack lock held; ZcbMonitor  *)
(* holds this lock from emberAfSetDynamicEndpoint to the end of            *)
(* UpdateJoinedNodes.  serialCallbackTask takes no part in this lock and   *)
(* may come between any two steps.                                         *)
(*                                                                         *)
(* A command is its cluster and the endpoint it is for: the arguments      *)
(* travel unchanged.                                                       *)
(* The answer of eSL_SendMessage is not looked at.  Of the attributes only  *)
(* measurements are kept: all others read the same at any time.            *)
(***************************************************************************)
EXTENDS NodeJoin

CONSTANTS
  Bits,      \* bits of an int16_t
  Lowest,    \* minMeasuredValue
  Highest,   \* maxMeasuredValue
  Initial,   \* initialMeasuredValue
  Values,    \* values that nodes report, as read from the message
  Garbage    \* what memory may hold when malloc gave it to someone else

Unsigned == 0..(2^Bits - 1)
Signed   == -(2^(Bits - 1))..(2^(Bits - 1) - 1)
Clusters == {"onoff", "level", "temp", "illum", "occupancy", "other"}
Contents == [cluster : Clusters, value : Unsigned]

ASSUME ValuesAssumption ==
  /\ Bits \in Nat \ {0}
  /\ {Lowest, Highest, Initial} \subseteq Signed
  /\ Lowest <= Initial /\ Initial <= Highest
  /\ Values \subseteq Unsigned
  /\ Garbage \subseteq Contents

VARIABLES
  data,      \* the memory ZcbMsg.msg_data points to, which is free: read only
             \* for a report in the mailbox, and Unread otherwise
  cmd,       \* where the Matter task is
  measured,  \* mMeasurement of each device
  work,      \* devices whose measurement is scheduled for the Matter task
  told,      \* the measurement Matter was told last, for each device
  given,     \* history: for each endpoint, the short address its node had when
             \* the endpoint was entered for it; None if it was entered for
             \* another node, or for none
  emptied,   \* history: endpoints whose entry a leave has emptied
  fate       \* "ok", "cast" (a device used as one of another class) or "die"

deviceVars == <<measured, told, work>>
historyVars == <<given, emptied>>
ownVars    == <<data, deviceVars, historyVars, cmd, fate>>
allVars    == <<vars, ownVars>>

Unread == [cluster |-> "other", value |-> 0]
\* hit is history: a leave has emptied the entry that FindMatchedNodeByEP found.
Ready == [at |-> "ready", k |-> 0, c |-> "none", ep |-> 0, i |-> 0, to |-> None,
          hit |-> FALSE]

BridgeInit ==
  /\ Init
  /\ data = Unread
  /\ cmd = Ready
  /\ measured = [k \in Devices |-> Initial]
  /\ work = {}
  /\ told = [k \in Devices |-> Initial]
  /\ given = [e \in EndpointIds |-> None]
  /\ emptied = {}
  /\ fate = "ok"

-----------------------------------------------------------------------------
(* Attribute reports.                                                      *)

\* The clusters whose reports handleAttribute passes on, by kind of node.
ReportedBy(kind) ==
  CASE kind = "temp"  -> {"temp"}
    [] kind = "onoff" -> {"onoff"}
    [] kind \in {"dimmable", "color"} -> {"onoff", "level"}
    [] OTHER -> {"illum", "occupancy"}

\* ZCB_HandleAttributeReport and handleAttribute: the value goes to memory that
\* is freed as soon as its address is in the mailbox.  Only measurements matter.
ReportValue(n) ==
  /\ Report(n)
  /\ \E c \in ReportedBy(KindOf[n]), v \in Values :
       data' = [cluster |-> c, value |-> IF c = "temp" THEN v ELSE 0]
  /\ UNCHANGED <<deviceVars, historyVars, cmd, fate>>

\* Another malloc gets this memory before ZcbMonitor reads it.
ReuseMemory ==
  /\ mail.msg = "write"
  /\ data' \in Garbage
  /\ UNCHANGED <<vars, deviceVars, historyVars, cmd, fate>>

\* static_cast<int16_t>
AsSigned(u) == IF u < 2^(Bits - 1) THEN u ELSE u - 2^Bits
ClampedAbove(v) == Min({v, Highest})  \* a bug: the lower limit is missing
Clamped(v) == Max({Lowest, Min({v, Highest})})

ChangedAfter(k, v) == measured'[k] # v  \* a bug: compared once it is assigned
ChangedTo(k, v) == measured[k] # v

\* HandleDeviceOnOffStatusChanged and so on: ScheduleReportingCallback.
StatusChanged(k) == work' = work \cup {k}

\* DeviceTempSensor::SetMeasuredValue
SetMeasuredValue(k, v) ==
  /\ measured' = [measured EXCEPT ![k] = v]
  /\ IF ChangedTo(k, v) THEN StatusChanged(k) ELSE UNCHANGED work

\* DeviceOnOff::SetOnOffValue and SetLevelValue keep no value: Matter is asked to
\* read mOn again, which is always true.
SetOnOffValue(k) == StatusChanged(k) /\ UNCHANGED measured

\* The device at matterIndex, which nothing sets: always the first.
Written == 0
Fits(kind) ==
  \/ data.cluster \in {"onoff", "level"} /\ kind = "onoff"
  \/ data.cluster \in {"temp", "illum", "occupancy"} /\ kind = "temp"

\* BRIDGE_WRITE_ATTRIBUTE: WriteAttributeToDynamicEndpoint, which casts the
\* device to the class that goes with the cluster.
WriteAttribute ==
  /\ TakeWrite
  /\ LET dev == gDevices[Written]
     IN  IF dev = None \/ data.cluster = "other" THEN UNCHANGED <<measured, work, fate>>
         ELSE IF ~Fits(dev.kind) THEN fate' = "cast" /\ UNCHANGED <<measured, work>>
         ELSE /\ IF dev.kind = "temp"
                 THEN SetMeasuredValue(Written, Clamped(AsSigned(data.value)))
                 ELSE SetOnOffValue(Written)
              /\ UNCHANGED fate
  /\ data' = Unread
  /\ UNCHANGED <<told, historyVars, cmd>>

-----------------------------------------------------------------------------
(* The devices.                                                            *)

\* Devices that a step made have their initial value and a node.
MadeBy(step) ==
  /\ step
  /\ LET Made == {k \in Devices : gDevices'[k] # gDevices[k]}
     IN  /\ measured' = [k \in Devices |-> IF k \in Made THEN Initial ELSE measured[k]]
         /\ told' = [k \in Devices |-> IF k \in Made THEN Initial ELSE told[k]]
  /\ UNCHANGED <<data, work, historyVars, cmd, fate>>

MakeDevice    == MadeBy(TakeAdd)
RestoreDevice == MadeBy(TakeRestore)

\* The stack lock is free: the Matter task is not in a command.
PlaceDevice ==
  /\ cmd.at = "ready"
  /\ Place
  /\ IF endpoints' # endpoints
     THEN /\ given' = [given EXCEPT ![curEp] = addr[mon.dev.node]]
          /\ emptied' = emptied \ {curEp}
     ELSE UNCHANGED historyVars
  /\ UNCHANGED <<data, deviceVars, cmd, fate>>

\* UpdateJoinedNodes, where it enters the endpoint for a node or for none.
EnterEndpoint ==
  /\ Check \/ Assign
  /\ given' =
       CASE mon.at = "check" /\ mon'.at = "assign" -> given
         [] mon.at = "assign" /\ joined[idx].mac = mon.dev.node ->
              [given EXCEPT ![curEp] = joined[idx].addr]
         [] OTHER -> [given EXCEPT ![curEp] = None]
  /\ UNCHANGED <<data, deviceVars, emptied, cmd, fate>>

\* ZCB_HandleDeviceLeave empties an entry, maybe the one a command has found.
EmptyEntry ==
  /\ LeaveEntry
  /\ LET i == Min(LeavingEntries)
     IN  /\ emptied' = emptied \cup {joined[i].ep}
         /\ cmd' = [cmd EXCEPT !.hit = @ \/ (cmd.at = "read" /\ cmd.i = i)]
  /\ UNCHANGED <<data, deviceVars, given, fate>>

-----------------------------------------------------------------------------
(* The Matter task.                                                        *)

\* The stack lock is free: ZcbMonitor is not in the loop of AddDeviceEndpoint.
\* And a form of the loop that gives it back before UpdateJoinedNodes.
GivenBackEarly == mon.at \in {"sleep", "place", "check"}
StackLockFree == mon.at \in {"sleep", "place"}
MatterTask ==
  /\ halted = "no" /\ StackLockFree /\ cmd.at = "ready"
  /\ UNCHANGED <<vars, data, measured, historyVars>>

\* emberAfExternalAttributeReadCallback for MeasuredValue.
ReadMeasuredValue(k) == told' = [told EXCEPT ![k] = measured[k]]

\* CallReportingCallback, after which Matter's reporting engine reads.
RunWork(k) ==
  /\ MatterTask
  /\ k \in work
  /\ work' = work \ {k}
  /\ ReadMeasuredValue(k)
  /\ UNCHANGED <<cmd, fate>>

\* The clusters of the dynamic endpoints that take commands.
ClustersOf(kind) ==
  CASE kind = "onoff"    -> {"onoff"}
    [] kind = "dimmable" -> {"onoff", "level"}
    [] kind = "color"    -> {"onoff", "level", "color"}
    [] OTHER -> {}

Commanded(k, c) ==
  endpoints[k] # None /\ gDevices[k] # None /\ c \in ClustersOf(gDevices[k].kind)

\* MatterPreCommandReceivedCallback with a command for cluster c that has a
\* counterpart in Zigbee.  The other commands do nothing.
Command(k, c) ==
  /\ MatterTask
  /\ Commanded(k, c)
  /\ cmd' = [Ready EXCEPT !.at = "find", !.k = k, !.c = c, !.ep = endpoints[k]]
  /\ UNCHANGED <<work, told, fate>>

\* Off, On, Toggle
OnOffCommand(k) == Command(k, "onoff")

\* MoveToLevel
LevelCommand(k) == Command(k, "level")

\* MoveToLevel with a transition time of null: Value() stops the program.
LevelWithoutTime(k) ==
  /\ MatterTask
  /\ Commanded(k, "level")
  /\ fate' = "die"
  /\ UNCHANGED <<work, told, cmd>>

\* MoveToHue, MoveToSaturation, MoveToColor, MoveToColorTemperature
ColorCommand(k) == Command(k, "color")

\* The entries in use that have the endpoint; and a form that takes the one
\* announced last.
LastAnnounced(ep) == {idx}
WithEndpoint(ep) == {i \in Entries : joined[i].type # 0 /\ joined[i].ep = ep}

\* FindMatchedNodeByEP
FindNode ==
  /\ halted = "no"
  /\ cmd.at = "find"
  /\ cmd' = IF WithEndpoint(cmd.ep) = {} THEN Ready
            ELSE [cmd EXCEPT !.at = "read", !.i = Min(WithEndpoint(cmd.ep))]
  /\ UNCHANGED <<vars, data, deviceVars, historyVars, fate>>

\* BridgedOnOff and so on: the short address the entry has by now.
ReadAddress ==
  /\ halted = "no"
  /\ cmd.at = "read"
  /\ cmd' = [cmd EXCEPT !.at = "send", !.to = joined[cmd.i].addr]
  /\ UNCHANGED <<vars, data, deviceVars, historyVars, fate>>

SendCommand(c) ==
  /\ halted = "no"
  /\ cmd.at = "send" /\ cmd.c = c
  /\ cmd' = Ready
  /\ UNCHANGED <<vars, data, deviceVars, historyVars, fate>>

\* eOn_Off
SendOnOff == SendCommand("onoff")

\* eLevelControlMoveToLevel
SendMoveToLevel == SendCommand("level")

\* eColorControlMoveToHue and the others
SendColorControl == SendCommand("color")

CommandStep ==
  FindNode \/ ReadAddress \/ SendOnOff \/ SendMoveToLevel \/ SendColorControl

-----------------------------------------------------------------------------
\* The program starts again, with nothing but the file.
BridgeRestart ==
  /\ Restart
  /\ cmd' = Ready
  /\ measured' = [k \in Devices |-> Initial]
  /\ told' = [k \in Devices |-> Initial]
  /\ work' = {}
  /\ UNCHANGED <<data, historyVars, fate>>

\* The steps of NodeJoin that touch nothing of this module.
OtherSteps ==
  /\ \/ \E n \in Nodes :
          \/ \E a \in AddressesOf[n] : Announce(n, a)
          \/ Descriptor(n) \/ LoseDescriptor(n) \/ Activate(n) \/ Leave(n)
     \/ Asked \/ PostAdd \/ LeaveEnd \/ Shell
     \/ Copy \/ Read \/ Write \/ Save
  /\ UNCHANGED ownVars

MonitorStep ==
  WriteAttribute \/ MakeDevice \/ RestoreDevice \/ PlaceDevice \/ EnterEndpoint

\* Nothing is said of what follows a wrong cast.
BridgeNext ==
  /\ fate = "ok"
  /\ \/ OtherSteps \/ MonitorStep \/ EmptyEntry \/ CommandStep \/ BridgeRestart
     \/ ReuseMemory \/ \E n \in Nodes : ReportValue(n)
     \/ \E k \in Devices :
          RunWork(k) \/ OnOffCommand(k) \/ LevelCommand(k) \/ LevelWithoutTime(k)
                     \/ ColorCommand(k)

BridgeSpec == BridgeInit /\ [][BridgeNext]_allVars

\* Every task gets to run, and the queue of the Matter task is first in, first
\* out: commands do not keep scheduled work waiting for ever.
BridgeFairSpec ==
  /\ BridgeSpec
  /\ WF_allVars(fate = "ok" /\ OtherSteps /\ (Callback \/ Monitor))
  /\ WF_allVars(fate = "ok" /\ (MonitorStep \/ EmptyEntry))
  /\ WF_allVars(fate = "ok" /\ CommandStep)
  /\ \A k \in Devices : SF_allVars(fate = "ok" /\ RunWork(k))

-----------------------------------------------------------------------------
(* Properties.                                                             *)

\* The variables of this module have the types of the code's.
BridgeTypeOK ==
  /\ data \in Contents
  /\ cmd \in [at : {"ready", "find", "read", "send"}, k : Devices,
              c : {"none", "onoff", "level", "color"}, ep : EndpointIds,
              i : Entries, to : Addresses \cup {None}, hit : BOOLEAN]
  /\ measured \in [Devices -> Lowest..Highest]
  /\ told \in [Devices -> Lowest..Highest]
  /\ work \subseteq Devices
  /\ given \in [EndpointIds -> Addresses \cup {None}]
  /\ emptied \subseteq EndpointIds
  /\ fate \in {"ok", "cast", "die"}

\* A command for an endpoint is sent to the short address of the node that its
\* device was made for, though the list of nodes changes while it is looked up.
\* It is not sent at all if the node left before, and to whatever address the
\* entry has by then if it leaves between the search and the use of the index
\* (zcb.c:1803 and 1806).  All this is said of endpoints that were entered for
\* their own node (OnlyIdxMixes), and of nodes that still have the address of
\* their entry: one that comes back with another address gets no commands.
Stayed(n, e) == n \in Nodes /\ given[e] = addr[n]
CommandReachesNode ==
  [][ cmd.at # "ready" /\ cmd'.at = "ready" /\ restarts' = restarts
      /\ Stayed(gDevices[cmd.k].node, cmd.ep) =>
        \/ cmd.at = "find" /\ cmd.ep \in emptied
        \/ cmd.at = "send" /\ (cmd.to = addr[gDevices[cmd.k].node] \/ cmd.hit)
    ]_allVars

\* A measurement that ZcbMonitor may still read ends up with Matter, within the
\* limits of the sensor, unless the memory or the mailbox is used for something
\* else first (WriteAttributeToDynamicEndpoint, SetMeasuredValue,
\* ScheduleReportingCallback, HandleReadTempMeasurementAttribute).
Pending(v) ==
  /\ mail.msg = "write"
  /\ data = [cluster |-> "temp", value |-> v]
  /\ gDevices[0] # None /\ gDevices[0].kind = "temp"
ReportShown ==
  \A v \in Values :
    Pending(v) ~>
      \/ told[0] = Clamped(AsSigned(v))
      \/ mail.msg = "write" /\ data # [cluster |-> "temp", value |-> v]
      \/ mail.msg \in {"add", "restore"}
      \/ gDevices[0] = None \/ halted # "no" \/ fate # "ok"

\* A report is written to a device of the class it is cast to.  This fails: see
\* the README (BridgeMgr.cpp:703 and 719).
ReportFitsDevice == fate # "cast"
=============================================================================
