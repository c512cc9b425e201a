------------------------- MODULE BridgeCommands_proofs -------------------------
(***************************************************************************)
(* Proofs about BridgeCommands.  The Matter task and the devices are added *)
(* to NodeJoin without a step that NodeJoin does not allow, so that every  *)
(* theorem about NodeJoin holds of the composition.                        *)
(***************************************************************************)
EXTENDS BridgeCommands, NodeJoin_proofs

-----------------------------------------------------------------------------
(* The composition implements NodeJoin.                                    *)

LEMMA StepOfNodeJoin == [BridgeNext]_allVars => [Next]_vars
<1> SUFFICES ASSUME [BridgeNext]_allVars PROVE Next \/ UNCHANGED vars
  OBVIOUS
<1>1. CASE OtherSteps
  <2>1. ASSUME NEW n \in Nodes,
               \/ \E a \in AddressesOf[n] : Announce(n, a)
               \/ Descriptor(n) \/ LoseDescriptor(n) \/ Activate(n) \/ Leave(n)
        PROVE  Next
    <3>1. NodeEvent(n)
      BY <2>1, Zenon DEF NodeEvent
    <3>. QED  BY <3>1, Zenon DEF Next
  <2>2. Asked \/ PostAdd \/ LeaveEnd => Next
    BY Zenon DEF Next, Callback
  <2>3. Shell \/ Copy \/ Read \/ Write \/ Save => Next
    BY Zenon DEF Next, Monitor
  <2>. QED  BY <1>1, <2>1, <2>2, <2>3, Zenon DEF OtherSteps
<1>2. CASE MonitorStep
  BY <1>2, Zenon
     DEF MonitorStep, WriteAttribute, MakeDevice, RestoreDevice, PlaceDevice,
         EnterEndpoint, MadeBy, Next, Monitor
<1>3. CASE CommandStep
  BY <1>3, Zenon
     DEF CommandStep, FindNode, ReadAddress, SendOnOff, SendMoveToLevel,
         SendColorControl, SendCommand
<1>4. CASE BridgeRestart
  BY <1>4, Zenon DEF BridgeRestart, Next
<1>5. ASSUME NEW n \in Nodes, ReportValue(n) PROVE Next
  BY <1>5, Zenon DEF ReportValue, Next, NodeEvent
<1>6. ASSUME NEW k \in Devices,
             \/ RunWork(k) \/ OnOffCommand(k) \/ LevelCommand(k)
             \/ LevelWithoutTime(k) \/ ColorCommand(k)
      PROVE  UNCHANGED vars
  BY <1>6
     DEF RunWork, OnOffCommand, LevelCommand, LevelWithoutTime, ColorCommand,
         Command, MatterTask
<1>7. CASE ReuseMemory
  BY <1>7 DEF ReuseMemory
<1>8. CASE EmptyEntry
  BY <1>8, Zenon DEF EmptyEntry, Next, Callback
<1>9. CASE UNCHANGED allVars
  BY <1>9 DEF allVars
<1>. QED
  BY <1>1, <1>2, <1>3, <1>4, <1>5, <1>6, <1>7, <1>8, <1>9, Zenon DEF BridgeNext

\* Commands and reports add nothing to what nodes, ZcbMonitor and the shell do to
\* the list of nodes, the record and the endpoints (BridgeMgr.cpp, zcb.c).
THEOREM ImplementsNodeJoin == BridgeSpec => Spec
<1>1. BridgeInit => Init
  BY DEF BridgeInit
<1>. QED  BY <1>1, StepOfNodeJoin, PTL DEF BridgeSpec, Spec

-----------------------------------------------------------------------------
(* Types.                                                                  *)

CmdType == [at : {"ready", "find", "read", "send"}, k : Devices,
            c : {"none", "onoff", "level", "color"}, ep : EndpointIds,
            i : Entries, to : Addresses \cup {None}, hit : BOOLEAN]
GivenType == [EndpointIds -> Addresses \cup {None}]
Measurements == [Devices -> Lowest..Highest]

LEMMA ValueFacts ==
  /\ 2^Bits \in Nat /\ 2^Bits >= 1 /\ 2^(Bits - 1) \in Nat
  /\ Lowest \in Int /\ Highest \in Int /\ Initial \in Lowest..Highest
  /\ 0 \in Unsigned /\ Values \subseteq Unsigned /\ Garbage \subseteq Contents
<1>1. /\ 2^Bits \in Nat /\ 2^Bits >= 1 /\ 2^(Bits - 1) \in Nat
  <2>1. Bits \in Nat /\ Bits - 1 \in Nat
    BY ValuesAssumption
  <2>. QED  BY <2>1, PowersOfTwo
<1>2. Signed \subseteq Int
  BY <1>1 DEF Signed
<1>3. Lowest \in Int /\ Highest \in Int /\ Initial \in Int
  BY <1>2, ValuesAssumption
<1>4. Initial \in Lowest..Highest
  BY <1>3, ValuesAssumption
<1>5. 0 \in Unsigned
  BY <1>1 DEF Unsigned
<1>. QED  BY <1>1, <1>3, <1>4, <1>5, ValuesAssumption

\* The least and the greatest of two integers.
LEMMA MinMaxOfTwo ==
  ASSUME NEW a \in Int, NEW b \in Int
  PROVE  Min({a, b}) = (IF a <= b THEN a ELSE b) /\ Max({a, b}) = (IF a <= b THEN b ELSE a)
<1>1. CASE a <= b
  BY <1>1 DEF Min, Max
<1>2. CASE b < a
  BY <1>2 DEF Min, Max
<1>. QED  BY <1>1, <1>2

\* A value read from a message is within the limits of the sensor.
LEMMA ClampedType ==
  ASSUME NEW u \in Unsigned
  PROVE  Clamped(AsSigned(u)) \in Lowest..Highest
<1> DEFINE v == AsSigned(u)
           low == IF v <= Highest THEN v ELSE Highest
<1>1. v \in Int
  BY ValueFacts DEF Unsigned, AsSigned
<1> HIDE DEF v
<1>2. Min({v, Highest}) = low /\ low \in Int /\ low <= Highest
  BY <1>1, ValueFacts, MinMaxOfTwo
<1> HIDE DEF low
<1>3. Max({Lowest, low}) = IF Lowest <= low THEN low ELSE Lowest
  BY <1>2, ValueFacts, MinMaxOfTwo
<1>4. Clamped(v) = Max({Lowest, low})
  BY <1>2 DEF Clamped
<1>5. Lowest <= Highest
  BY ValueFacts
<1>6. Clamped(v) \in Lowest..Highest
  BY <1>2, <1>3, <1>4, <1>5, ValueFacts
<1>. QED  BY <1>6 DEF v

LEMMA ReadyType == Ready \in CmdType
BY ConstantFacts DEF Ready, CmdType

LEMMA UnreadType == Unread \in Contents
BY ValueFacts DEF Unread, Contents, Clusters

BridgeTypes ==
  /\ data \in Contents
  /\ cmd \in CmdType
  /\ measured \in Measurements
  /\ told \in Measurements
  /\ work \subseteq Devices
  /\ given \in GivenType
  /\ emptied \subseteq EndpointIds
  /\ fate \in {"ok", "cast", "die"}

LEMMA BridgeInitTypes == BridgeInit => BridgeTypes
BY UnreadType, ReadyType, ValueFacts
   DEF BridgeInit, BridgeTypes, Measurements, GivenType

\* A device on its way to its place was made for a node.
Named ==
  /\ cb.at = "post" => sZcb.node \in Nodes
  /\ mail.msg = "add" => mail.dev.node \in Nodes
  /\ mon.at \in {"place", "check", "assign"} => mon.dev.node \in Nodes

LEMMA NamedStep == TypeInv /\ Named /\ [Next]_vars => Named'
<1> SUFFICES ASSUME TypeInv, Named, [Next]_vars PROVE Named'
  OBVIOUS
<1>a. TypeOK /\ cb \in CbType /\ mon \in MonType
  BY DEF TypeInv, TypeOK, CbType, MonType
<1>b. NoMail.msg = "none" /\ Sleeping.at = "sleep" /\ Idle.at = "idle"
  BY DEF NoMail, Sleeping, Idle
<1>1. CASE UNCHANGED <<sZcb, mail, mon>> /\ (cb' = cb \/ cb'.at # "post")
  BY <1>1 DEF Named
<1>2. ASSUME NEW n \in Nodes, Descriptor(n) PROVE Named'
  <2>1. UNCHANGED <<mail, mon>> /\ cb.at # "post"
    BY <1>2 DEF Descriptor, CallbackReady
  <2>2. UNCHANGED <<sZcb, cb>> \/ sZcb' = Described(n)
    BY <1>2 DEF Descriptor
  <2>. QED  BY <2>1, <2>2 DEF Named, Described
<1>3. CASE PostAdd \/ \E n \in Nodes : Report(n)
  <2>1. UNCHANGED <<sZcb, mon>> /\ (cb' = cb \/ cb' = Idle)
    BY <1>3 DEF PostAdd, Report, nodeVars
  <2>2. mail'.msg = "add" => cb.at = "post" /\ mail'.dev = sZcb
    BY <1>3 DEF PostAdd, Report
  <2>. QED  BY <1>b, <2>1, <2>2 DEF Named
<1>4. CASE TakeAdd
  <2>1. UNCHANGED <<sZcb, cb>> /\ mail.msg = "add" /\ (mail' = mail \/ mail' = NoMail)
    BY <1>4 DEF TakeAdd, Done, nodeVars
  <2>2. mon' = Sleeping \/ \E k : mon' =
          [Sleeping EXCEPT !.at = "place", !.dev = mail.dev, !.k = k]
    BY <1>4 DEF TakeAdd, Done
  <2>3. mon'.at = "sleep" \/ mon'.dev = mail.dev
    BY <1>b, <2>2, RestingTypes DEF MonType
  <2>. QED  BY <1>b, <2>1, <2>3 DEF Named
<1>5. CASE TakeWrite \/ TakeRestore \/ Place \/ Check \/ Assign \/ Copy \/ Read
           \/ Write \/ Save
  <2>1. UNCHANGED <<sZcb, cb>>
    BY <1>5 DEF TakeWrite, TakeRestore, Place, Check, Assign, Copy, Read, Write,
                Save, nodeVars
  <2>2. mail' = mail \/ mail' = NoMail
    BY <1>5 DEF TakeWrite, TakeRestore, Place, Check, Assign, Copy, Read, Write,
                Save, Done
  <2>3. mon' = mon \/ mon'.at \notin {"place", "check", "assign"}
        \/ (mon.at \in {"place", "check"} /\ mon'.dev = mon.dev)
    <3>1. \A p \in {"check", "assign", "copy", "save"} :
            Goto(p) => mon'.at = p /\ mon'.dev = mon.dev
      BY <1>a DEF Goto, MonType
    <3>2. CASE TakeWrite \/ TakeRestore \/ Save
      BY <1>b, <3>2 DEF TakeWrite, TakeRestore, Save, Done
    <3>3. CASE Place \/ Check \/ Assign
      BY <1>b, <3>1, <3>3 DEF Place, Check, Assign, Done
    <3>4. CASE Copy \/ Read
      BY <1>a, <3>4 DEF Copy, Read, MonType
    <3>5. CASE Write
      BY <3>1, <3>5 DEF Write
    <3>. QED  BY <1>5, <3>2, <3>3, <3>4, <3>5
  <2>. QED  BY <1>b, <2>1, <2>2, <2>3 DEF Named
<1>6. CASE RetrievePost
  <2>1. UNCHANGED <<sZcb, cb, mon>> /\ mail'.msg = "restore"
    BY <1>6 DEF RetrievePost, nodeVars
  <2>. QED  BY <2>1 DEF Named
<1>7. CASE Restart
  BY <1>b, <1>7 DEF Restart, Named
<1>8. ASSUME NEW n \in Nodes, NEW a \in AddressesOf[n], Announce(n, a)
      PROVE  Named'
  <2>1. UNCHANGED <<sZcb, mail, mon>>
    BY <1>8 DEF Announce
  <2>2. cb' = cb \/ cb' = [Idle EXCEPT !.at = "ask", !.node = n]
    BY <1>8 DEF Announce
  <2>3. [Idle EXCEPT !.at = "ask", !.node = n].at = "ask"
    BY RestingTypes DEF CbType
  <2>. QED  BY <1>1, <2>1, <2>2, <2>3
<1>9. ASSUME NEW n \in Nodes, LoseDescriptor(n) \/ Activate(n) \/ Leave(n)
      PROVE  Named'
  <2>1. UNCHANGED <<sZcb, mail, mon>> /\ (cb' = cb \/ cb'.at = "leave")
    BY <1>9 DEF LoseDescriptor, Activate, Leave, nodeVars
  <2>. QED  BY <1>1, <2>1
<1>10. CASE Asked \/ LeaveEntry \/ LeaveEnd
  <2>1. UNCHANGED <<sZcb, mail, mon>>
    BY <1>10 DEF Asked, LeaveEntry, LeaveEnd, nodeVars
  <2>2. cb' = cb \/ cb'.at # "post"
    BY <1>a, <1>b, <1>10 DEF Asked, LeaveEntry, LeaveEnd, CbType
  <2>. QED  BY <1>1, <2>1, <2>2
<1>11. CASE \/ EnumNodes \/ SaveNodes \/ RetrieveNodes \/ RetrieveEntry
            \/ RetrieveNext \/ RetrieveEnd \/ UNCHANGED vars
  BY <1>1, <1>11 DEF EnumNodes, SaveNodes, RetrieveNodes, RetrieveEntry,
                     RetrieveNext, RetrieveEnd, vars, nodeVars
<1>. QED
  BY <1>2, <1>3, <1>4, <1>5, <1>6, <1>7, <1>8, <1>9, <1>10, <1>11
     DEF Next, NodeEvent, Callback, Monitor, Shell, RetrieveStep

\* The steps of ZcbMonitor.
LEMMA MonitorStepTypes ==
  ASSUME TypeInv, Named, BridgeTypes, MonitorStep
  PROVE  BridgeTypes'
<1>1. CASE WriteAttribute
  <2>1. UNCHANGED <<told, given, emptied, cmd>> /\ data' = Unread
    BY <1>1 DEF WriteAttribute, historyVars
  <2>2. Written \in Devices
    BY ConstantFacts DEF Written
  <2>3. Clamped(AsSigned(data.value)) \in Lowest..Highest
    BY ClampedType DEF BridgeTypes, Contents
  <2>4. \/ fate' = "cast" /\ UNCHANGED <<measured, work>>
        \/ UNCHANGED <<measured, work, fate>>
        \/ SetMeasuredValue(Written, Clamped(AsSigned(data.value))) /\ UNCHANGED fate
        \/ SetOnOffValue(Written) /\ UNCHANGED fate
    BY <1>1 DEF WriteAttribute
  <2>5. measured' \in Measurements /\ work' \subseteq Devices
        /\ fate' \in {"ok", "cast", "die"}
    BY <2>2, <2>3, <2>4
       DEF BridgeTypes, Measurements, SetMeasuredValue, SetOnOffValue, StatusChanged
  <2>. QED  BY <2>1, <2>5, UnreadType DEF BridgeTypes
<1>2. ASSUME NEW Made, NEW R \in Measurements
      PROVE  [k \in Devices |-> IF k \in Made THEN Initial ELSE R[k]] \in Measurements
  BY ValueFacts DEF Measurements
<1>3. ASSUME UNCHANGED <<data, work, historyVars, cmd, fate>>,
             \E Made : /\ measured' = [k \in Devices |-> IF k \in Made THEN Initial ELSE measured[k]]
                       /\ told' = [k \in Devices |-> IF k \in Made THEN Initial ELSE told[k]]
      PROVE  BridgeTypes'
  BY <1>2, <1>3 DEF BridgeTypes, historyVars
<1>4. CASE MakeDevice
  BY <1>3, <1>4, Zenon DEF MakeDevice, MadeBy
<1>5. CASE RestoreDevice
  BY <1>3, <1>5, Zenon DEF RestoreDevice, MadeBy
<1>6. CASE PlaceDevice
  <2>1. UNCHANGED <<data, measured, told, work, cmd, fate>>
    BY <1>6 DEF PlaceDevice, deviceVars
  <2>2. mon.dev.node \in Nodes
    BY <1>6 DEF PlaceDevice, Place, Named
  <2>3. addr[mon.dev.node] \in Addresses
    BY <2>2 DEF TypeInv, TypeOK
  <2>4. given' \in GivenType /\ emptied' \subseteq EndpointIds
    BY <1>6, <2>3 DEF PlaceDevice, historyVars, BridgeTypes, GivenType
  <2>. QED  BY <2>1, <2>4 DEF BridgeTypes
<1>7. CASE EnterEndpoint
  <2>1. UNCHANGED <<data, measured, told, work, emptied, cmd, fate>>
    BY <1>7 DEF EnterEndpoint, deviceVars
  <2>2. joined[idx].addr \in Addresses \cup {None}
    BY DEF TypeInv, TypeOK, Entry
  <2>3. given' \in GivenType
    BY <1>7, <2>2 DEF EnterEndpoint, BridgeTypes, GivenType
  <2>. QED  BY <2>1, <2>3 DEF BridgeTypes
<1>. QED  BY <1>1, <1>4, <1>5, <1>6, <1>7 DEF MonitorStep

\* The steps of the Matter task.
LEMMA MatterTypes ==
  ASSUME TypeInv, BridgeTypes, NEW k \in Devices,
         \/ RunWork(k) \/ OnOffCommand(k) \/ LevelCommand(k)
         \/ LevelWithoutTime(k) \/ ColorCommand(k)
  PROVE  BridgeTypes'
<1>1. CASE RunWork(k)
  BY <1>1 DEF RunWork, MatterTask, ReadMeasuredValue, BridgeTypes, Measurements,
                historyVars
<1>2. ASSUME NEW c \in {"onoff", "level", "color"}, Command(k, c)
      PROVE  BridgeTypes'
  <2>1. endpoints[k] \in EndpointIds
    BY <1>2 DEF Command, Commanded, TypeInv, TypeOK
  <2>2. [Ready EXCEPT !.at = "find", !.k = k, !.c = c, !.ep = endpoints[k]] \in CmdType
    BY <2>1, ReadyType DEF CmdType
  <2>. QED  BY <1>2, <2>2 DEF Command, MatterTask, BridgeTypes, historyVars
<1>3. CASE LevelWithoutTime(k)
  BY <1>3 DEF LevelWithoutTime, MatterTask, BridgeTypes, historyVars
<1>. QED  BY <1>1, <1>2, <1>3 DEF OnOffCommand, LevelCommand, ColorCommand

LEMMA CommandStepTypes ==
  ASSUME TypeInv, BridgeTypes, CommandStep
  PROVE  BridgeTypes'
<1>1. CASE FindNode
  <2>1. CASE WithEndpoint(cmd.ep) = {}
    BY <1>1, <2>1, ReadyType DEF FindNode, deviceVars, historyVars, BridgeTypes
  <2>2. CASE WithEndpoint(cmd.ep) # {}
    <3>1. WithEndpoint(cmd.ep) \subseteq Entries
      BY DEF WithEndpoint
    <3>2. Min(WithEndpoint(cmd.ep)) \in Entries
      BY <2>2, <3>1, ConstantFacts, MinOfNats
    <3>3. [cmd EXCEPT !.at = "read", !.i = Min(WithEndpoint(cmd.ep))] \in CmdType
      BY <3>2 DEF BridgeTypes, CmdType
    <3>. QED  BY <1>1, <2>2, <3>3 DEF FindNode, deviceVars, historyVars, BridgeTypes
  <2>. QED  BY <2>1, <2>2
<1>2. CASE ReadAddress
  <2>1. joined[cmd.i].addr \in Addresses \cup {None}
    BY DEF BridgeTypes, CmdType, TypeInv, TypeOK, Entry
  <2>2. [cmd EXCEPT !.at = "send", !.to = joined[cmd.i].addr] \in CmdType
    BY <2>1 DEF BridgeTypes, CmdType
  <2>. QED  BY <1>2, <2>2 DEF ReadAddress, deviceVars, historyVars, BridgeTypes
<1>3. ASSUME NEW c, SendCommand(c) PROVE BridgeTypes'
  BY <1>3, ReadyType DEF SendCommand, deviceVars, historyVars, BridgeTypes
<1>. QED
  BY <1>1, <1>2, <1>3 DEF CommandStep, SendOnOff, SendMoveToLevel, SendColorControl

LEMMA BridgeTypesStep ==
  TypeInv /\ Named /\ BridgeTypes /\ [BridgeNext]_allVars => BridgeTypes'
<1> SUFFICES ASSUME TypeInv, Named, BridgeTypes, [BridgeNext]_allVars
             PROVE  BridgeTypes'
  OBVIOUS
<1>1. CASE UNCHANGED ownVars
  BY <1>1 DEF ownVars, deviceVars, historyVars, BridgeTypes
<1>2. CASE BridgeRestart
  <2>1. [k \in Devices |-> Initial] \in Measurements
    BY ValueFacts DEF Measurements
  <2>. QED  BY <1>2, <2>1, ReadyType DEF BridgeRestart, historyVars, BridgeTypes
<1>3. CASE ReuseMemory
  <2>1. data' \in Contents
    BY <1>3, ValueFacts DEF ReuseMemory
  <2>. QED  BY <1>3, <2>1 DEF ReuseMemory, deviceVars, historyVars, BridgeTypes
<1>4. ASSUME NEW n \in Nodes, ReportValue(n) PROVE BridgeTypes'
  <2>1. PICK c \in ReportedBy(KindOf[n]), v \in Values :
          data' = [cluster |-> c, value |-> IF c = "temp" THEN v ELSE 0]
    BY <1>4 DEF ReportValue
  <2>2. c \in Clusters
    BY DEF ReportedBy, Clusters
  <2>3. (IF c = "temp" THEN v ELSE 0) \in Unsigned
    BY ValueFacts
  <2>4. data' \in Contents
    BY <2>1, <2>2, <2>3 DEF Contents
  <2>. QED  BY <1>4, <2>4 DEF ReportValue, deviceVars, historyVars, BridgeTypes
<1>5. CASE EmptyEntry
  <2>1. LeavingEntries # {} /\ LeavingEntries \subseteq Entries
    BY <1>5 DEF EmptyEntry, LeaveEntry, LeavingEntries
  <2>2. Min(LeavingEntries) \in Entries
    BY <2>1, ConstantFacts, MinOfNats
  <2>3. joined[Min(LeavingEntries)].ep \in EndpointIds
    BY <2>2 DEF TypeInv, TypeOK, Entry
  <2>4. \A b : [cmd EXCEPT !.hit = @ \/ (cmd.at = "read" /\ cmd.i = b)] \in CmdType
    BY DEF BridgeTypes, CmdType
  <2>. QED  BY <1>5, <2>3, <2>4 DEF EmptyEntry, deviceVars, BridgeTypes
<1>6. CASE UNCHANGED allVars
  BY <1>1, <1>6 DEF allVars
<1>. QED
  BY <1>1, <1>2, <1>3, <1>4, <1>5, <1>6, MonitorStepTypes, MatterTypes,
     CommandStepTypes
  DEF BridgeNext, OtherSteps

LEMMA BridgeTypesInvariance == BridgeSpec => [](Named /\ BridgeTypes)
<1>1. BridgeSpec => []TypeInv
  BY ImplementsNodeJoin, TypeInvariance, PTL
<1>2. BridgeInit => Named
  BY DEF BridgeInit, Init, Named, Idle, NoMail, Sleeping
<1>3. TypeInv /\ Named /\ [BridgeNext]_allVars => Named'
  BY NamedStep, StepOfNodeJoin
<1>. QED  BY BridgeInitTypes, <1>1, <1>2, <1>3, BridgeTypesStep, PTL DEF BridgeSpec

\* Every variable of the Matter task keeps its type, whatever nodes report and
\* whatever the freed memory holds: a measurement read from it is within the
\* limits of the sensor, and a command names an entry of JoinedNodes
\* (WriteAttributeToDynamicEndpoint, FindMatchedNodeByEP).
THEOREM BridgeTypesCorrect == BridgeSpec => []BridgeTypeOK
<1>1. BridgeTypes => BridgeTypeOK
  BY DEF BridgeTypes, BridgeTypeOK, CmdType, GivenType, Measurements
<1>. QED  BY BridgeTypesInvariance, <1>1, PTL

-----------------------------------------------------------------------------
(* Commands reach their node.                                              *)

\* An entry with an address is in use; the one ZcbMonitor is about to enter an
\* endpoint in has none, though idx may have moved since it looked.
EntryInv ==
  /\ \A i \in Entries : joined[i].addr # None => joined[i].type # 0
  /\ mon.at = "assign" => joined[idx].ep = 0 /\ curEp # 0

LEMMA EntryStep ==
  ASSUME ShellCommands \subseteq {"SaveNodes"}, LiveInv, EntryInv, [Next]_vars
  PROVE  EntryInv'
<1> USE DEF LiveInv
<1>a. /\ TypeOK /\ idx \in Entries /\ joined \in [Entries -> Entry]
      /\ mon \in MonType /\ Sleeping.at = "sleep"
  BY DEF TypeInv, TypeOK, MonType, Sleeping
<1>1. CASE /\ UNCHANGED <<joined, idx>>
           /\ mon'.at = "assign" => mon.at = "assign" /\ curEp' = curEp
  BY <1>1 DEF EntryInv
<1>2. ASSUME NEW n \in Nodes, NEW a \in AddressesOf[n], Announce(n, a)
      PROVE  EntryInv'
  <2>1. UNCHANGED <<curEp, mon>>
    BY <1>2 DEF Announce, bridgeVars
  <2>2. CASE FreeEntries = {}
    BY <1>1, <1>2, <2>1, <2>2 DEF Announce
  <2>3. CASE FreeEntries # {}
    <3>1. Min(FreeEntries) \in Entries
      BY <2>3, ConstantFacts, MinOfNats DEF FreeEntries
    <3>2. /\ idx' = Min(FreeEntries)
          /\ joined' = [joined EXCEPT ![Min(FreeEntries)] =
                          [type |-> 1, ep |-> 0, mac |-> n, addr |-> a]]
      BY <1>2, <2>3 DEF Announce, IdxOf, TypeOnJoin
    <3>. QED  BY <1>a, <2>1, <3>1, <3>2 DEF EntryInv
  <2>. QED  BY <2>2, <2>3
<1>3. ASSUME NEW n \in Nodes, Descriptor(n) PROVE EntryInv'
  <2>1. UNCHANGED <<curEp, mon, idx>>
    BY <1>3 DEF Descriptor, bridgeVars
  <2>2. joined' = joined
        \/ joined' = [joined EXCEPT ![idx].type = TypeAfter(KindOf[n], @)]
    BY <1>3 DEF Descriptor
  <2>3. \A t : t # 0 => TypeAfter(KindOf[n], t) # 0
    BY DEF TypeAfter
  <2>4. \A i \in Entries : /\ joined'[i].addr = joined[i].addr
                           /\ joined'[i].ep = joined[i].ep
                           /\ joined[i].type # 0 => joined'[i].type # 0
    BY <1>a, <2>2, <2>3 DEF Entry
  <2>. QED  BY <1>a, <2>1, <2>4 DEF EntryInv
<1>4. CASE LeaveEntry
  <2>1. UNCHANGED <<curEp, mon, idx>>
    BY <1>4 DEF LeaveEntry, bridgeVars
  <2>2. \A i \in Entries : joined'[i] \in {joined[i], Empty}
    BY <1>a, <1>4 DEF LeaveEntry
  <2>3. Empty.addr = None /\ Empty.ep = 0
    BY DEF Empty
  <2>. QED  BY <1>a, <2>1, <2>2, <2>3 DEF EntryInv
<1>5. CASE Check
  <2>1. UNCHANGED <<joined, idx, curEp>>
    BY <1>5 DEF Check, nodeVars, bridgeVars
  <2>2. mon'.at = "assign" => joined[idx].ep = 0 /\ curEp # 0
    BY <1>a, <1>5 DEF Check, Done
  <2>. QED  BY <2>1, <2>2 DEF EntryInv
<1>6. CASE Assign
  <2>1. idx' = idx /\ mon'.at = "copy" /\ joined' = [joined EXCEPT ![idx].ep = curEp]
    BY <1>a, <1>6 DEF Assign, Goto, MonType
  <2>2. \A i \in Entries : joined'[i].addr = joined[i].addr
                           /\ joined'[i].type = joined[i].type
    BY <1>a, <2>1 DEF Entry
  <2>. QED  BY <2>1, <2>2 DEF EntryInv
<1>7. CASE TakeWrite \/ TakeAdd \/ Place \/ Copy \/ Read \/ Write \/ Save
  <2>1. UNCHANGED <<joined, idx>>
    BY <1>7 DEF TakeWrite, TakeAdd, Place, Copy, Read, Write, Save, nodeVars
  <2>2. mon'.at # "assign"
    <3>1. \A p \in {"check", "save"} : Goto(p) => mon'.at = p
      BY <1>a DEF Goto, MonType
    <3>2. CASE TakeAdd
      BY <1>a, <3>2, TakeAddFacts
    <3>3. CASE TakeWrite \/ Place \/ Save
      BY <1>a, <3>1, <3>3 DEF TakeWrite, Place, Save, Done
    <3>4. CASE Copy \/ Read
      BY <1>a, <3>4 DEF Copy, Read, MonType
    <3>5. CASE Write
      BY <3>1, <3>5 DEF Write
    <3>. QED  BY <1>7, <3>2, <3>3, <3>4, <3>5
  <2>. QED  BY <1>1, <2>1, <2>2
<1>8. CASE Restart
  <2>1. joined' = [i \in Entries |-> Empty] /\ mon'.at = "sleep" /\ Empty.addr = None
    BY <1>a, <1>8 DEF Restart, Empty
  <2>. QED  BY <2>1 DEF EntryInv
<1>9. CASE EnumNodes \/ SaveNodes \/ UNCHANGED vars
  BY <1>1, <1>9 DEF EnumNodes, SaveNodes, ShellMayBegin, vars, nodeVars, bridgeVars
<1>. QED
  <2>1. ASSUME NEW n \in Nodes,
               LoseDescriptor(n) \/ Activate(n) \/ Report(n) \/ Leave(n)
        PROVE  UNCHANGED <<joined, idx, curEp, mon>>
    BY <2>1 DEF LoseDescriptor, Activate, Report, Leave, nodeVars, bridgeVars
  <2>2. Asked \/ PostAdd \/ LeaveEnd => UNCHANGED <<joined, idx, curEp, mon>>
    BY DEF Asked, PostAdd, LeaveEnd, nodeVars, bridgeVars
  <2>. QED
    BY <1>1, <1>2, <1>3, <1>4, <1>5, <1>6, <1>7, <1>8, <1>9, <2>1, <2>2,
       NoRestoreStep DEF NodeEvent, Callback

\* The device at place k is between Place and the end of UpdateJoinedNodes.
Unlisted(k) == mon.at \in {"check", "assign"} /\ mon.k = k

\* An endpoint that was entered for its node is in the entry with the address it
\* had then, unless a leave has emptied this entry.
Listed ==
  \A k \in Devices :
    endpoints[k] # None /\ given[endpoints[k]] # None /\ endpoints[k] \notin emptied
      => \/ Unlisted(k)
         \/ \E i \in WithEndpoint(endpoints[k]) :
              joined[i].addr = given[endpoints[k]]

\* Zero is no endpoint for UpdateJoinedNodes, and not entered for any node.
ZeroUnknown ==
  \A k \in Devices : endpoints[k] = 0 => given[0] = None \/ Unlisted(k)

\* No entry has an endpoint whose entry was emptied.
EmptiedAreGone ==
  /\ \A i \in Entries : joined[i].ep # 0 => joined[i].ep \notin emptied
  /\ mon.at \in {"check", "assign"} /\ curEp # 0 => curEp \notin emptied

EndpointsFound == Listed /\ ZeroUnknown /\ EmptiedAreGone

\* What the Matter task knows of its command; the lock keeps ZcbMonitor from
\* giving an endpoint to a device.
OnItsWay ==
  cmd.at # "ready" =>
    /\ mon.at \in {"sleep", "place"}
    /\ endpoints[cmd.k] = cmd.ep
    /\ given[cmd.ep] # None /\ ~ cmd.hit =>
         /\ cmd.at = "read" =>
              /\ cmd.ep # 0 /\ joined[cmd.i].ep = cmd.ep
              /\ joined[cmd.i].addr = given[cmd.ep]
         /\ cmd.at = "send" => cmd.to = given[cmd.ep]

\* All that is known of the state before a step.
ReachInv ==
  /\ LiveInv /\ AtPlace /\ BridgeTypes
  /\ EntryInv /\ EndpointsFound /\ OnItsWay

\* The steps that leave the endpoints, and the entries that have one, alone.
Aside ==
  /\ \A i \in Entries :
       IF joined[i].ep = 0
       THEN joined'[i].ep = 0
       ELSE /\ joined'[i].ep = joined[i].ep
            /\ joined'[i].addr = joined[i].addr
            /\ joined[i].type # 0 => joined'[i].type # 0
  /\ UNCHANGED <<endpoints, historyVars>>
  /\ mon.at \in {"check", "assign"} \/ mon'.at \in {"check", "assign"} =>
       UNCHANGED <<mon, curEp>>
  /\ mon.at \in {"sleep", "place"} => mon'.at \in {"sleep", "place"}

LEMMA AsideKeeps ==
  ASSUME ReachInv, Aside
  PROVE  EndpointsFound' /\ (cmd' = cmd => OnItsWay')
<1> USE DEF ReachInv, EndpointsFound
<1>1. /\ UNCHANGED <<endpoints, given, emptied>>
      /\ \A k : Unlisted(k)' <=> Unlisted(k)
  BY DEF Aside, historyVars, Unlisted
<1>2. \A k \in Devices : endpoints[k] \in EndpointIds \cup {None}
  BY DEF LiveInv, TypeInv, TypeOK
<1>3. ASSUME NEW k \in Devices, endpoints[k] # None,
             given[endpoints[k]] # None, endpoints[k] \notin emptied, ~ Unlisted(k)
      PROVE  \E i \in Entries :
               /\ joined'[i].type # 0 /\ joined'[i].ep = endpoints[k]
               /\ joined'[i].addr = given[endpoints[k]]
  <2>1. PICK i \in WithEndpoint(endpoints[k]) : joined[i].addr = given[endpoints[k]]
    BY <1>3 DEF Listed
  <2>2. endpoints[k] # 0
    BY <1>3 DEF ZeroUnknown
  <2>. QED  BY <2>1, <2>2 DEF WithEndpoint, Aside
<1>4. Listed'
  BY <1>1, <1>3 DEF Listed, WithEndpoint
<1>5. ZeroUnknown'
  BY <1>1 DEF ZeroUnknown
<1>6. EmptiedAreGone'
  BY <1>1 DEF EmptiedAreGone, Aside
<1>7. ASSUME cmd' = cmd PROVE OnItsWay'
  <2>1. cmd.i \in Entries
    BY DEF BridgeTypes, CmdType
  <2>. QED  BY <1>1, <1>7, <2>1 DEF OnItsWay, Aside
<1>. QED  BY <1>4, <1>5, <1>6, <1>7

\* Steps that change nothing of the list and the endpoints are aside.
LEMMA SameIsAside ==
  UNCHANGED <<joined, endpoints, mon, curEp, historyVars>> => Aside
BY DEF Aside

\* The steps of handlers, the shell and ZcbMonitor that do not concern endpoints.
LEMMA OthersAside ==
  ASSUME ShellCommands \subseteq {"SaveNodes"}, LiveInv,
         OtherSteps \/ WriteAttribute \/ MakeDevice \/ RestoreDevice
  PROVE  Aside /\ cmd' = cmd
<1> USE DEF LiveInv
<1>a. /\ TypeOK /\ idx \in Entries /\ joined \in [Entries -> Entry]
      /\ mon \in MonType /\ Sleeping.at = "sleep"
  BY DEF TypeInv, TypeOK, MonType, Sleeping
<1>1. CASE WriteAttribute \/ MakeDevice \/ RestoreDevice
  <2>1. UNCHANGED <<historyVars, cmd>>
    BY <1>1 DEF WriteAttribute, MakeDevice, RestoreDevice, MadeBy
  <2>2. TakeWrite \/ TakeAdd \/ TakeRestore
    BY <1>1, Zenon DEF WriteAttribute, MakeDevice, RestoreDevice, MadeBy
  <2>3. ~ TakeRestore
    BY DEF TakeRestore, NoRestore
  <2>4. UNCHANGED <<joined, endpoints>> /\ mon.at = "sleep"
    BY <2>2, <2>3 DEF TakeWrite, TakeAdd, nodeVars, bridgeVars
  <2>5. mon'.at \in {"sleep", "place"}
    BY <1>a, <2>2, <2>3, TakeAddFacts DEF TakeWrite, Done
  <2>. QED  BY <2>1, <2>4, <2>5 DEF Aside
<1>2. CASE OtherSteps
  <2>1. UNCHANGED <<historyVars, cmd>>
    BY <1>2 DEF OtherSteps, ownVars
  <2>2. ASSUME NEW n \in Nodes, NEW a \in AddressesOf[n], Announce(n, a) PROVE Aside
    <3>1. UNCHANGED <<endpoints, mon, curEp>>
      BY <2>2 DEF Announce, bridgeVars
    <3>2. \A i \in Entries :
            joined'[i] = joined[i] \/ (joined[i].ep = 0 /\ joined'[i].ep = 0)
      <4>1. CASE FreeEntries = {}
        <5>1. joined' = joined
          BY <2>2, <4>1 DEF Announce
        <5>. QED  BY <5>1
      <4>2. CASE FreeEntries # {}
        <5>1. Min(FreeEntries) \in FreeEntries
          BY <4>2, ConstantFacts, MinOfNats DEF FreeEntries
        <5>2. joined[Min(FreeEntries)].ep = 0 /\ Min(FreeEntries) \in Entries
          BY <5>1 DEF FreeEntries
        <5>3. joined' = [joined EXCEPT ![Min(FreeEntries)] =
                           [type |-> 1, ep |-> 0, mac |-> n, addr |-> a]]
          BY <2>2, <4>2 DEF Announce, TypeOnJoin
        <5>. QED  BY <1>a, <5>2, <5>3
      <4>. QED  BY <4>1, <4>2
    <3>. QED  BY <2>1, <3>1, <3>2 DEF Aside
  <2>3. ASSUME NEW n \in Nodes, Descriptor(n) PROVE Aside
    <3>1. UNCHANGED <<endpoints, mon, curEp>>
      BY <2>3 DEF Descriptor, bridgeVars
    <3>2. joined' = joined
          \/ joined' = [joined EXCEPT ![idx].type = TypeAfter(KindOf[n], @)]
      BY <2>3 DEF Descriptor
    <3>3. \A t : t # 0 => TypeAfter(KindOf[n], t) # 0
      BY DEF TypeAfter
    <3>4. \A i \in Entries : /\ joined'[i].addr = joined[i].addr
                             /\ joined'[i].ep = joined[i].ep
                             /\ joined[i].type # 0 => joined'[i].type # 0
      BY <1>a, <3>2, <3>3 DEF Entry
    <3>. QED  BY <2>1, <3>1, <3>4 DEF Aside
  <2>4. ASSUME NEW n \in Nodes, LoseDescriptor(n) \/ Activate(n) \/ Leave(n)
        PROVE  Aside
    BY <2>1, <2>4, SameIsAside
       DEF LoseDescriptor, Activate, Leave, nodeVars, bridgeVars
  <2>5. CASE Asked \/ PostAdd \/ LeaveEnd
    BY <2>1, <2>5, SameIsAside DEF Asked, PostAdd, LeaveEnd, nodeVars, bridgeVars
  <2>6. CASE Shell
    <3>1. ~ RetrieveStep
      BY DEF RetrieveStep, RetrieveEntry, RetrievePost, RetrieveNext, RetrieveEnd,
             NoRestore
    <3>2. ~ EnumNodes /\ ~ RetrieveNodes
      BY DEF EnumNodes, RetrieveNodes, ShellMayBegin
    <3>3. SaveNodes
      BY <2>6, <3>1, <3>2 DEF Shell
    <3>. QED  BY <2>1, <3>3, SameIsAside DEF SaveNodes, nodeVars, bridgeVars
  <2>7. CASE Copy \/ Read \/ Write \/ Save
    <3>1. UNCHANGED <<joined, endpoints>>
          /\ mon.at \in {"copy", "read", "write", "save"}
      BY <2>7 DEF Copy, Read, Write, Save, nodeVars, bridgeVars
    <3>2. mon'.at \notin {"check", "assign"}
      <4>1. Goto("save") => mon'.at = "save"
        BY <1>a DEF Goto, MonType
      <4>2. CASE Copy \/ Read
        BY <1>a, <4>2 DEF Copy, Read, MonType
      <4>3. CASE Write \/ Save
        BY <1>a, <4>1, <4>3, <3>1 DEF Write, Save, Done
      <4>. QED  BY <2>7, <4>2, <4>3
    <3>. QED  BY <2>1, <3>1, <3>2 DEF Aside
  <2>. QED
    BY <1>2, <2>1, <2>2, <2>3, <2>4, <2>5, <2>6, <2>7, Zenon DEF OtherSteps
<1>. QED  BY <1>1, <1>2

\* A new endpoint.
LEMMA PlaceKeeps ==
  ASSUME ReachInv, PlaceDevice
  PROVE  EndpointsFound' /\ OnItsWay'
<1> USE DEF ReachInv, EndpointsFound
<1>a. /\ joined \in [Entries -> Entry] /\ mon \in MonType /\ mon.k \in Devices
      /\ endpoints \in [Devices -> EndpointIds \cup {None}]
      /\ curEp \in EndpointIds /\ None \notin EndpointIds
      /\ given \in GivenType /\ Sleeping.at = "sleep"
  BY MarksAssumption, ConstantFacts
     DEF LiveInv, TypeInv, TypeOK, MonType, EndpointIds, BridgeTypes, Sleeping
<1>b. Place /\ mon.at = "place" /\ joined' = joined /\ cmd' = cmd /\ cmd.at = "ready"
  BY DEF PlaceDevice, Place, nodeVars
<1>c. OnItsWay'
  BY <1>b DEF OnItsWay
<1>1. CASE Accepted(curEp)
  <2>1. /\ endpoints' = [endpoints EXCEPT ![mon.k] = curEp]
        /\ mon'.at = "check" /\ mon'.k = mon.k /\ curEp' = curEp
    BY <1>a, <1>b, <1>1 DEF Place, Goto, MonType
  <2>2. endpoints[mon.k] = None /\ endpoints' # endpoints
    BY <1>a, <1>b, <2>1 DEF LiveInv, FreePlaces
  <2>3. /\ given' = [given EXCEPT ![curEp] = addr[mon.dev.node]]
        /\ emptied' = emptied \ {curEp}
    BY <2>2 DEF PlaceDevice
  <2>4. \A k : k = mon.k => Unlisted(k)'
    BY <2>1 DEF Unlisted
  <2>5. \A k \in Devices \ {mon.k} :
          endpoints'[k] = endpoints[k] /\ endpoints[k] # curEp /\ ~ Unlisted(k)
    BY <1>a, <1>b, <1>1, <2>1 DEF Accepted, Exists, Unlisted
  <2>6. Listed'
    <3>1. ASSUME NEW k \in Devices \ {mon.k}, endpoints[k] # None,
                 given'[endpoints[k]] # None, endpoints[k] \notin emptied'
          PROVE  \E i \in Entries :
                   /\ joined[i].type # 0 /\ joined[i].ep = endpoints[k]
                   /\ joined[i].addr = given'[endpoints[k]]
      <4>1. given'[endpoints[k]] = given[endpoints[k]] /\ endpoints[k] \notin emptied
        BY <1>a, <2>3, <2>5, <3>1 DEF GivenType
      <4>2. \E i \in WithEndpoint(endpoints[k]) :
              joined[i].addr = given[endpoints[k]]
        BY <2>5, <3>1, <4>1 DEF Listed
      <4>. QED  BY <4>1, <4>2 DEF WithEndpoint
    <3>2. ASSUME NEW k \in Devices, endpoints'[k] # None,
                 given'[endpoints'[k]] # None, endpoints'[k] \notin emptied'
          PROVE  Unlisted(k)' \/ \E i \in Entries :
                   /\ joined'[i].type # 0 /\ joined'[i].ep = endpoints'[k]
                   /\ joined'[i].addr = given'[endpoints'[k]]
      <4>1. CASE k = mon.k
        BY <2>4, <4>1
      <4>2. CASE k # mon.k
        BY <1>b, <2>5, <3>1, <3>2, <4>2
      <4>. QED  BY <4>1, <4>2
    <3>. QED  BY <3>2 DEF Listed, WithEndpoint
  <2>7. ZeroUnknown'
    <3>1. ASSUME NEW k \in Devices, endpoints'[k] = 0
          PROVE  given'[0] = None \/ Unlisted(k)'
      <4>1. CASE k = mon.k
        BY <2>4, <4>1
      <4>2. CASE k # mon.k
        <5>1. endpoints[k] = 0 /\ 0 # curEp /\ ~ Unlisted(k)
          BY <2>5, <3>1, <4>2
        <5>2. given'[0] = given[0]
          BY <1>a, <2>3, <5>1, ConstantFacts DEF GivenType
        <5>. QED  BY <5>1, <5>2 DEF ZeroUnknown
      <4>. QED  BY <4>1, <4>2
    <3>. QED  BY <3>1 DEF ZeroUnknown
  <2>8. EmptiedAreGone'
    BY <1>b, <2>1, <2>3 DEF EmptiedAreGone
  <2>. QED  BY <1>c, <2>6, <2>7, <2>8
<1>2. CASE ~ Accepted(curEp)
  <2>1. endpoints' = endpoints /\ (mon' = mon \/ mon' = Sleeping)
    BY <1>b, <1>2 DEF Place, Done
  <2>2. UNCHANGED historyVars
    BY <2>1 DEF PlaceDevice
  <2>3. Aside
    BY <1>a, <1>b, <2>1, <2>2 DEF Aside
  <2>. QED  BY <1>c, <2>3, AsideKeeps
<1>. QED  BY <1>1, <1>2

\* UpdateJoinedNodes, which no command can interrupt.
LEMMA EnterKeeps ==
  ASSUME ReachInv, EnterEndpoint
  PROVE  EndpointsFound' /\ OnItsWay'
<1> USE DEF ReachInv, EndpointsFound
<1>a. /\ joined \in [Entries -> Entry] /\ idx \in Entries /\ mon \in MonType
      /\ endpoints \in [Devices -> EndpointIds \cup {None}]
      /\ curEp \in EndpointIds /\ None \notin EndpointIds
      /\ given \in GivenType /\ Sleeping.at = "sleep"
  BY MarksAssumption, ConstantFacts
     DEF LiveInv, TypeInv, TypeOK, MonType, EndpointIds, BridgeTypes, Sleeping
<1>b. /\ mon.at \in {"check", "assign"} /\ cmd' = cmd
      /\ UNCHANGED <<endpoints, curEp, emptied>>
  BY DEF EnterEndpoint, Check, Assign, bridgeVars
<1>c. OnItsWay'
  BY <1>b DEF OnItsWay
<1>d. \A k \in Devices \ {mon.k} : endpoints[k] # curEp /\ ~ Unlisted(k)
  BY <1>b DEF AtPlace, Unlisted
<1>e. curEp = endpoints[mon.k] /\ mon.k \in Devices
  BY <1>b DEF AtPlace, LiveInv, CurrentIsNew, Exists
\* What is still to be shown, for the device and for the others.
<1>1. ASSUME UNCHANGED joined \/ \E i \in Entries :
               /\ joined[i].ep = 0 /\ \A j \in Entries \ {i} : joined'[j] = joined[j],
             \A e \in EndpointIds \ {curEp} : given'[e] = given[e],
             \/ given'[curEp] = None
             \/ curEp # 0 /\ \E i \in Entries : /\ joined'[i].type # 0
                                                /\ joined'[i].ep = curEp
                                                /\ joined'[i].addr = given'[curEp],
             mon'.at \notin {"check", "assign"}
      PROVE  Listed' /\ ZeroUnknown'
  <2>1. \A k \in Devices \ {mon.k} :
          endpoints[k] # None => given'[endpoints[k]] = given[endpoints[k]]
    BY <1>a, <1>d, <1>1
  <2>2. Listed'
    <3>1. ASSUME NEW k \in Devices \ {mon.k}, endpoints[k] # None,
                 given[endpoints[k]] # None, endpoints[k] \notin emptied
          PROVE  \E i \in Entries :
                   /\ joined'[i].type # 0 /\ joined'[i].ep = endpoints[k]
                   /\ joined'[i].addr = given[endpoints[k]]
      <4>1. PICK i \in WithEndpoint(endpoints[k]) :
              joined[i].addr = given[endpoints[k]]
        BY <1>d, <3>1 DEF Listed
      <4>2. endpoints[k] # 0
        BY <1>d, <3>1 DEF ZeroUnknown
      <4>. QED  BY <1>1, <4>1, <4>2 DEF WithEndpoint
    <3>2. ASSUME NEW k \in Devices, endpoints[k] # None,
                 given'[endpoints[k]] # None, endpoints[k] \notin emptied
          PROVE  \E i \in Entries :
                   /\ joined'[i].type # 0 /\ joined'[i].ep = endpoints[k]
                   /\ joined'[i].addr = given'[endpoints[k]]
      <4>1. CASE k = mon.k
        BY <1>1, <1>e, <3>2, <4>1
      <4>2. CASE k # mon.k
        BY <2>1, <3>1, <3>2, <4>2
      <4>. QED  BY <4>1, <4>2
    <3>. QED  BY <1>b, <3>2 DEF Listed, WithEndpoint
  <2>3. ZeroUnknown'
    <3>1. ASSUME NEW k \in Devices, endpoints[k] = 0 PROVE given'[0] = None
      <4>1. CASE k = mon.k
        BY <1>1, <1>e, <3>1, <4>1
      <4>2. CASE k # mon.k
        <5>1. 0 # None
          BY MarksAssumption
        <5>. QED  BY <1>d, <2>1, <3>1, <4>2, <5>1 DEF ZeroUnknown
      <4>. QED  BY <4>1, <4>2
    <3>. QED  BY <1>b, <3>1 DEF ZeroUnknown
  <2>. QED  BY <2>2, <2>3
<1>2. CASE Check /\ mon'.at = "assign"
  <2>1. joined' = joined /\ mon.at = "check" /\ given' = given
    BY <1>2 DEF EnterEndpoint, Check, nodeVars
  <2>2. mon'.k = mon.k
    BY <1>a, <1>2 DEF Check, Done, Goto, MonType
  <2>3. \A k : Unlisted(k)' <=> Unlisted(k)
    BY <1>2, <2>1, <2>2 DEF Unlisted
  <2>4. Listed' /\ ZeroUnknown'
    BY <1>b, <2>1, <2>3 DEF Listed, ZeroUnknown, WithEndpoint
  <2>5. EmptiedAreGone'
    BY <1>b, <2>1 DEF EmptiedAreGone
  <2>. QED  BY <1>c, <2>4, <2>5
<1>3. CASE Check /\ mon'.at # "assign"
  <2>1. joined' = joined /\ mon.at = "check" /\ given' = [given EXCEPT ![curEp] = None]
    BY <1>3 DEF EnterEndpoint, Check, nodeVars
  <2>2. mon'.at = "sleep"
    BY <1>a, <1>3 DEF Check, Done, Goto, MonType
  <2>3. Listed' /\ ZeroUnknown'
    BY <1>a, <1>1, <2>1, <2>2 DEF GivenType
  <2>4. EmptiedAreGone'
    BY <1>b, <2>1, <2>2 DEF EmptiedAreGone
  <2>. QED  BY <1>c, <2>3, <2>4
<1>4. CASE Assign
  <2>1. /\ mon.at = "assign" /\ mon'.at = "copy"
        /\ joined' = [joined EXCEPT ![idx].ep = curEp]
    BY <1>a, <1>4 DEF Assign, Goto, MonType
  <2>2. /\ joined[idx].ep = 0 /\ curEp # 0
        /\ joined'[idx].ep = curEp /\ joined'[idx].type = joined[idx].type
        /\ joined'[idx].addr = joined[idx].addr
        /\ \A j \in Entries \ {idx} : joined'[j] = joined[j]
    BY <1>a, <2>1 DEF EntryInv, Entry
  <2>3. /\ \A e \in EndpointIds \ {curEp} : given'[e] = given[e]
        /\ given'[curEp] \in {None, joined[idx].addr}
    BY <1>a, <2>1 DEF EnterEndpoint, GivenType
  <2>4. given'[curEp] = None
        \/ /\ joined'[idx].type # 0 /\ joined'[idx].ep = curEp
           /\ joined'[idx].addr = given'[curEp]
    BY <1>a, <2>2, <2>3 DEF EntryInv
  <2>5. Listed' /\ ZeroUnknown'
    BY <1>a, <1>1, <2>1, <2>2, <2>3, <2>4
  <2>6. EmptiedAreGone'
    BY <1>a, <1>b, <2>1, <2>2 DEF EmptiedAreGone
  <2>. QED  BY <1>c, <2>5, <2>6
<1>. QED  BY <1>2, <1>3, <1>4 DEF EnterEndpoint

\* ZCB_HandleDeviceLeave.
LEMMA EmptyKeeps ==
  ASSUME ReachInv, EmptyEntry
  PROVE  EndpointsFound' /\ OnItsWay' /\ (cmd.at # "ready" => cmd'.at # "ready")
<1> USE DEF ReachInv, EndpointsFound
<1> DEFINE i == Min(LeavingEntries)
<1>a. i \in Entries
  <2>1. LeavingEntries # {} /\ LeavingEntries \subseteq Entries
    BY DEF EmptyEntry, LeaveEntry, LeavingEntries
  <2>. QED  BY <2>1, ConstantFacts, MinOfNats
<1>b. /\ joined \in [Entries -> Entry] /\ cmd \in CmdType
      /\ endpoints \in [Devices -> EndpointIds \cup {None}]
  BY DEF LiveInv, TypeInv, TypeOK, BridgeTypes
<1>c. /\ joined' = [joined EXCEPT ![i] = Empty]
      /\ UNCHANGED <<endpoints, curEp, mon, given>>
      /\ emptied' = emptied \cup {joined[i].ep}
      /\ cmd' = [cmd EXCEPT !.hit = @ \/ (cmd.at = "read" /\ cmd.i = i)]
  BY DEF EmptyEntry, LeaveEntry, bridgeVars
<1> HIDE DEF i
<1>d. /\ \A j \in Entries \ {i} : joined'[j] = joined[j]
      /\ joined'[i].ep = 0 /\ \A k : Unlisted(k)' <=> Unlisted(k)
  BY <1>a, <1>b, <1>c DEF Empty, Unlisted
<1>1. Listed'
  <2>1. ASSUME NEW k \in Devices, endpoints[k] # None, given[endpoints[k]] # None,
               endpoints[k] \notin emptied', ~ Unlisted(k)
        PROVE  \E j \in Entries :
                 /\ joined'[j].type # 0 /\ joined'[j].ep = endpoints[k]
                 /\ joined'[j].addr = given[endpoints[k]]
    <3>1. PICK j \in WithEndpoint(endpoints[k]) : joined[j].addr = given[endpoints[k]]
      BY <1>c, <2>1 DEF Listed
    <3>2. j # i
      BY <1>c, <2>1, <3>1 DEF WithEndpoint
    <3>. QED  BY <1>d, <3>1, <3>2 DEF WithEndpoint
  <2>. QED  BY <1>c, <1>d, <2>1 DEF Listed, WithEndpoint
<1>2. ZeroUnknown'
  BY <1>c, <1>d DEF ZeroUnknown
<1>3. EmptiedAreGone'
  <2>1. \A j \in Entries : joined'[j].ep # 0 => joined'[j].ep \notin emptied'
    BY <1>a, <1>c, <1>d DEF EmptiedAreGone, LiveInv, JoinedEndpointsDistinct
  <2>2. mon'.at \in {"check", "assign"} /\ curEp' # 0 => curEp' \notin emptied'
    BY <1>a, <1>c DEF EmptiedAreGone, LiveInv, CurrentIsNew
  <2>. QED  BY <2>1, <2>2 DEF EmptiedAreGone
<1>4. OnItsWay' /\ (cmd.at # "ready" => cmd'.at # "ready")
  <2>1. /\ cmd'.at = cmd.at /\ cmd'.k = cmd.k /\ cmd'.ep = cmd.ep /\ cmd'.i = cmd.i
        /\ cmd'.to = cmd.to /\ cmd.i \in Entries
        /\ cmd'.hit <=> cmd.hit \/ (cmd.at = "read" /\ cmd.i = i)
    BY <1>b, <1>c DEF CmdType
  <2>2. ~ cmd'.hit /\ cmd.at = "read" => cmd.i # i /\ ~ cmd.hit
    BY <2>1
  <2>3. ~ cmd'.hit => ~ cmd.hit
    BY <2>1
  <2>. QED  BY <1>c, <1>d, <2>1, <2>2, <2>3 DEF OnItsWay
<1>. QED  BY <1>1, <1>2, <1>3, <1>4

\* The Matter task.
LEMMA MatterKeeps ==
  ASSUME ReachInv,
         CommandStep \/ \E k \in Devices :
           RunWork(k) \/ OnOffCommand(k) \/ LevelCommand(k)
             \/ LevelWithoutTime(k) \/ ColorCommand(k)
  PROVE  Aside /\ OnItsWay'
<1> USE DEF ReachInv, EndpointsFound
<1>a. cmd \in CmdType /\ Ready.at = "ready" /\ Ready \in CmdType /\ ~ Ready.hit
  BY ReadyType DEF BridgeTypes, Ready
<1>b. UNCHANGED vars /\ UNCHANGED historyVars
  BY DEF CommandStep, FindNode, ReadAddress, SendOnOff, SendMoveToLevel,
         SendColorControl, SendCommand, RunWork, OnOffCommand, LevelCommand,
         LevelWithoutTime, ColorCommand, Command, MatterTask
<1>c. UNCHANGED <<joined, endpoints, mon, curEp, given, emptied, gDevices>>
  BY <1>b DEF vars, nodeVars, bridgeVars, historyVars
<1>d. Aside
  BY <1>b, <1>c, SameIsAside
<1>1. CASE cmd' = cmd \/ cmd'.at = "ready"
  BY <1>1, <1>d, AsideKeeps DEF OnItsWay
<1>2. ASSUME NEW k \in Devices, NEW c, Command(k, c), c \in {"onoff", "level", "color"}
      PROVE  OnItsWay'
  <2>1. endpoints[k] \in EndpointIds /\ mon.at \in {"sleep", "place"}
    BY <1>2 DEF Command, Commanded, MatterTask, StackLockFree, LiveInv, TypeInv, TypeOK
  <2>2. cmd'.at = "find" /\ cmd'.k = k /\ cmd'.ep = endpoints[k]
    BY <1>2, <1>a DEF Command, CmdType
  <2>. QED  BY <1>c, <2>1, <2>2 DEF OnItsWay
<1>3. CASE FindNode
  <2> DEFINE hits == WithEndpoint(cmd.ep)
             j == Min(hits)
  <2>1. CASE hits = {}
    BY <1>1, <1>3, <1>a, <2>1 DEF FindNode
  <2>2. CASE hits # {}
    <3>1. j \in hits /\ hits \subseteq Entries
      <4>1. hits \subseteq Entries
        BY DEF WithEndpoint
      <4>. QED  BY <2>2, <4>1, ConstantFacts, MinOfNats
    <3> HIDE DEF j
    <3>2. /\ cmd.at = "find"
          /\ cmd' = [cmd EXCEPT !.at = "read", !.i = j]
      BY <1>3, <2>2 DEF FindNode, j
    <3>3. /\ cmd'.at = "read" /\ cmd'.k = cmd.k /\ cmd'.ep = cmd.ep /\ cmd'.i = j
      BY <1>a, <3>2 DEF CmdType
    <3>4. /\ mon.at \in {"sleep", "place"} /\ endpoints[cmd.k] = cmd.ep
          /\ cmd.k \in Devices /\ cmd.ep \in EndpointIds
      BY <1>a, <3>2 DEF OnItsWay, CmdType
    <3>5. ASSUME given[cmd.ep] # None
          PROVE  cmd.ep # 0 /\ joined[j].ep = cmd.ep /\ joined[j].addr = given[cmd.ep]
      <4>1. ~ Unlisted(cmd.k) /\ cmd.ep # None
        BY <3>4, MarksAssumption DEF Unlisted, EndpointIds
      <4>2. cmd.ep # 0
        BY <3>4, <3>5, <4>1 DEF ZeroUnknown
      <4>3. joined[j].ep = cmd.ep
        BY <3>1 DEF WithEndpoint
      <4>4. cmd.ep \notin emptied
        BY <3>1, <4>2, <4>3 DEF EmptiedAreGone
      <4>5. PICK i \in WithEndpoint(cmd.ep) : joined[i].addr = given[cmd.ep]
        BY <3>4, <3>5, <4>1, <4>4 DEF Listed
      <4>6. i = j
        BY <3>1, <4>2, <4>3, <4>5 DEF WithEndpoint, LiveInv, JoinedEndpointsDistinct
      <4>. QED  BY <4>2, <4>3, <4>5, <4>6
    <3>6. /\ mon'.at \in {"sleep", "place"} /\ endpoints'[cmd'.k] = cmd'.ep
          /\ given'[cmd'.ep] # None =>
               /\ cmd'.ep # 0 /\ joined'[cmd'.i].ep = cmd'.ep
               /\ joined'[cmd'.i].addr = given'[cmd'.ep]
      BY <1>c, <3>3, <3>4, <3>5
    <3>. QED  BY <1>d, <3>3, <3>6 DEF OnItsWay
  <2>. QED  BY <2>1, <2>2
<1>4. CASE ReadAddress
  <2>1. cmd.at = "read" /\ cmd' = [cmd EXCEPT !.at = "send", !.to = joined[cmd.i].addr]
    BY <1>4 DEF ReadAddress
  <2>2. /\ cmd'.at = "send" /\ cmd'.to = joined[cmd.i].addr /\ cmd'.k = cmd.k
        /\ cmd'.ep = cmd.ep /\ (~ cmd'.hit => ~ cmd.hit)
    BY <1>a, <2>1 DEF CmdType
  <2>3. /\ mon.at \in {"sleep", "place"} /\ endpoints[cmd.k] = cmd.ep
        /\ given[cmd.ep] # None /\ ~ cmd.hit => joined[cmd.i].addr = given[cmd.ep]
    BY <2>1 DEF OnItsWay
  <2>4. /\ mon'.at \in {"sleep", "place"} /\ endpoints'[cmd'.k] = cmd'.ep
        /\ given'[cmd'.ep] # None /\ ~ cmd'.hit => cmd'.to = given'[cmd'.ep]
    BY <1>c, <2>2, <2>3
  <2>. QED  BY <1>d, <2>2, <2>4 DEF OnItsWay
<1>5. ASSUME NEW c, SendCommand(c) PROVE OnItsWay'
  BY <1>1, <1>5, <1>a DEF SendCommand
<1>6. ASSUME NEW k \in Devices, RunWork(k) \/ LevelWithoutTime(k) PROVE OnItsWay'
  BY <1>1, <1>6 DEF RunWork, LevelWithoutTime
<1>. QED
  BY <1>d, <1>2, <1>3, <1>4, <1>5, <1>6
     DEF CommandStep, SendOnOff, SendMoveToLevel, SendColorControl, OnOffCommand,
         LevelCommand, ColorCommand

LEMMA ReachStep ==
  ASSUME ShellCommands \subseteq {"SaveNodes"}, ReachInv, [BridgeNext]_allVars
  PROVE  EndpointsFound' /\ OnItsWay'
<1>1. CASE OtherSteps \/ WriteAttribute \/ MakeDevice \/ RestoreDevice
  BY <1>1, OthersAside, AsideKeeps DEF ReachInv
<1>2. CASE \/ CommandStep
           \/ \E k \in Devices :
                \/ RunWork(k) \/ OnOffCommand(k) \/ LevelCommand(k)
                \/ LevelWithoutTime(k) \/ ColorCommand(k)
  BY <1>2, MatterKeeps, AsideKeeps
<1>3. CASE BridgeRestart
  <2>1. /\ joined' = [i \in Entries |-> Empty]
        /\ endpoints' = [k \in Devices |-> None]
        /\ mon'.at = "sleep" /\ cmd'.at = "ready" /\ None # 0
    BY <1>3, MarksAssumption DEF BridgeRestart, Restart, Sleeping, Ready
  <2>2. \A i \in Entries : joined'[i].ep = 0
    BY <2>1 DEF Empty
  <2>. QED
    BY <2>1, <2>2 DEF EndpointsFound, Listed, ZeroUnknown, EmptiedAreGone, OnItsWay
<1>4. CASE ReuseMemory \/ (\E n \in Nodes : ReportValue(n)) \/ UNCHANGED allVars
  <2>1. UNCHANGED <<joined, endpoints, mon, curEp, historyVars, cmd>>
    BY <1>4 DEF ReuseMemory, ReportValue, Report, allVars, ownVars, vars, nodeVars,
                bridgeVars
  <2>. QED  BY <2>1, SameIsAside, AsideKeeps
<1>. QED
  BY <1>1, <1>2, <1>3, <1>4, PlaceKeeps, EnterKeeps, EmptyKeeps
     DEF BridgeNext, MonitorStep

\* When a command is over.
LEMMA CommandEnds ==
  ASSUME ShellCommands \subseteq {"SaveNodes"}, ReachInv, [BridgeNext]_allVars,
         cmd.at # "ready", cmd'.at = "ready", restarts' = restarts,
         Stayed(gDevices[cmd.k].node, cmd.ep)
  PROVE  \/ cmd.at = "find" /\ cmd.ep \in emptied
         \/ cmd.at = "send" /\ (cmd.to = addr[gDevices[cmd.k].node] \/ cmd.hit)
<1> USE DEF ReachInv, EndpointsFound
<1>a. cmd \in CmdType /\ restarts \in Nat
  BY SizesAssumption DEF BridgeTypes, LiveInv, TypeInv, TypeOK
<1>b. given[cmd.ep] # None /\ given[cmd.ep] = addr[gDevices[cmd.k].node]
  <2>1. addr[gDevices[cmd.k].node] \in Addresses
    BY DEF Stayed, LiveInv, TypeInv, TypeOK
  <2>. QED  BY <2>1, NodesAssumption DEF Stayed
<1>1. CASE FindNode
  <2>1. cmd.at = "find" /\ WithEndpoint(cmd.ep) = {}
    BY <1>1, <1>a DEF FindNode, CmdType
  <2>2. /\ endpoints[cmd.k] = cmd.ep /\ ~ Unlisted(cmd.k) /\ cmd.k \in Devices
        /\ cmd.ep # None
    BY <1>a, MarksAssumption DEF OnItsWay, Unlisted, CmdType, EndpointIds
  <2>. QED  BY <1>b, <2>1, <2>2 DEF Listed
<1>2. ASSUME NEW c, SendCommand(c)
      PROVE  cmd.at = "send" /\ (cmd.to = addr[gDevices[cmd.k].node] \/ cmd.hit)
  BY <1>2, <1>b DEF SendCommand, OnItsWay
<1>3. ~ ReadAddress
  BY <1>a DEF ReadAddress, CmdType
<1>4. ~ BridgeRestart
  BY <1>a DEF BridgeRestart, Restart
<1>5. ~ EmptyEntry
  BY EmptyKeeps
<1>6. ASSUME NEW k \in Devices
      PROVE  /\ ~ RunWork(k) /\ ~ OnOffCommand(k) /\ ~ LevelCommand(k)
             /\ ~ LevelWithoutTime(k) /\ ~ ColorCommand(k)
  BY DEF RunWork, OnOffCommand, LevelCommand, LevelWithoutTime, ColorCommand,
         Command, MatterTask
<1>7. ~ OtherSteps /\ ~ MonitorStep
  <2>1. ~ (OtherSteps \/ WriteAttribute \/ MakeDevice \/ RestoreDevice)
    BY OthersAside
  <2>2. ~ PlaceDevice /\ ~ EnterEndpoint
    BY DEF PlaceDevice, EnterEndpoint
  <2>. QED  BY <2>1, <2>2 DEF MonitorStep
<1>8. ~ ReuseMemory /\ (\A n \in Nodes : ~ ReportValue(n)) /\ cmd' # cmd
  BY DEF ReuseMemory, ReportValue
<1>. QED
  BY <1>1, <1>2, <1>3, <1>4, <1>5, <1>6, <1>7, <1>8
     DEF BridgeNext, CommandStep, SendOnOff, SendMoveToLevel, SendColorControl,
         allVars, ownVars

\* However nodes join, leave and come back while commands are looked up, and
\* though idx may enter an endpoint for another node: a command for a node that
\* has the address of its entry is sent there.  The stack lock keeps ZcbMonitor
\* out, nothing keeps out serialCallbackTask (FindMatchedNodeByEP, BridgedOnOff,
\* BridgedMoveToLevel and so on, ZCB_HandleDeviceLeave).
THEOREM CommandsReachNodes ==
  ASSUME ShellCommands \subseteq {"SaveNodes"}
  PROVE  BridgeSpec => CommandReachesNode
<1>1. BridgeSpec => [](LiveInv /\ AtPlace /\ EntryInv)
  <2>1. BridgeInit => AtPlace /\ EntryInv
    BY DEF BridgeInit, Init, AtPlace, EntryInv, Sleeping, Empty
  <2>2. LiveInv /\ AtPlace /\ EntryInv /\ [BridgeNext]_allVars => AtPlace' /\ EntryInv'
    BY StepOfNodeJoin, MixStep, EntryStep
  <2>. QED
    BY <2>1, <2>2, ImplementsNodeJoin, LiveInvariance, PTL DEF BridgeSpec
<1>2. BridgeInit => EndpointsFound /\ OnItsWay
  <2> SUFFICES ASSUME BridgeInit PROVE EndpointsFound /\ OnItsWay
    OBVIOUS
  <2>1. /\ \A k \in Devices : endpoints[k] = None
        /\ \A i \in Entries : joined[i].ep = 0
        /\ mon.at = "sleep" /\ cmd.at = "ready" /\ None # 0
    BY MarksAssumption DEF BridgeInit, Init, Sleeping, Empty, Ready
  <2>. QED
    BY <2>1 DEF EndpointsFound, Listed, ZeroUnknown, EmptiedAreGone, OnItsWay
<1>3. ReachInv /\ [BridgeNext]_allVars => EndpointsFound' /\ OnItsWay'
  BY ReachStep
<1>4. BridgeSpec => []ReachInv
  <2>1. BridgeSpec => [](EndpointsFound /\ OnItsWay)
    <3>1. /\ LiveInv /\ AtPlace /\ EntryInv /\ BridgeTypes
          /\ EndpointsFound /\ OnItsWay
          => ReachInv
      BY DEF ReachInv
    <3>. QED
      BY <1>1, <1>2, <1>3, <3>1, BridgeTypesInvariance, PTL DEF BridgeSpec
  <2>2. LiveInv /\ AtPlace /\ EntryInv /\ BridgeTypes /\ EndpointsFound /\ OnItsWay
        => ReachInv
    BY DEF ReachInv
  <2>. QED  BY <1>1, <2>1, <2>2, BridgeTypesInvariance, PTL
<1>5. ReachInv /\ [BridgeNext]_allVars =>
        [ cmd.at # "ready" /\ cmd'.at = "ready" /\ restarts' = restarts
          /\ Stayed(gDevices[cmd.k].node, cmd.ep) =>
            \/ cmd.at = "find" /\ cmd.ep \in emptied
            \/ cmd.at = "send" /\ (cmd.to = addr[gDevices[cmd.k].node] \/ cmd.hit)
        ]_allVars
  BY CommandEnds
<1>. QED  BY <1>4, <1>5, PTL DEF BridgeSpec, CommandReachesNode
=============================================================================
