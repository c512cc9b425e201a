------------------------------- MODULE NodeJoin -------------------------------
(***************************************************************************)
(* How a Zigbee node becomes a Matter endpoint and how the bridge          *)
(* remembers it: the handlers of zigbee_bridge/rt/rw61x/ZCB/zcb.c that run *)
(* in serialCallbackTask, the mailbox ZcbMsg, the task ZcbMonitor of       *)
(* BridgeMgr.cpp, the shell commands on the list of nodes, and the record  *)
(* in flash that outlives a restart.                                       *)
(*                                                                         *)
(* One action is the code between two points where another task can get    *)
(* in.  serialCallbackTask (idle+3) is above ZcbMonitor (1): a handler     *)
(* runs to its end unless it blocks, and may come between any two steps    *)
(* of ZcbMonitor.                                                          *)
(*                                                                         *)
(* A device remembers here which node it was made for, and so do sZcb and  *)
(* the mailbox; the code keeps no such thing.  The table of module         *)
(* DeviceTable is kept as the state of each node: a node that moved to     *)
(* another short address is found in it under the old or the new one.      *)
(***************************************************************************)
EXTENDS Integers, FiniteSets, FiniteSetsExt, Sequences, SequencesExt

CONSTANTS
  Nodes,          \* Zigbee nodes, by MAC address
  KindOf,         \* what a node's descriptor says it is
  AddressesOf,    \* the short addresses a node may have in the network
  DevNum,         \* DEV_NUM, entries in JoinedNodes and in the record
  MaxDevices,     \* CHIP_DEVICE_CONFIG_DYNAMIC_ENDPOINT_COUNT
  EndpointLimit,  \* kInvalidEndpointId, 0xFFFF
  StaleEndpoints, \* what memory at the members of a NULL BridgeDevMgr holds
  MaxDescriptors, \* descriptors a node sends after an announcement (retries)
  MaxJoins,       \* bound: announcements
  MaxRestarts,    \* bound: restarts
  ShellCommands,  \* commands the user may give
  OneAtATime,     \* does each event wait for the last one to be dealt with?
  RetrieveFirst,  \* is RetrieveNodes given only while no endpoint exists, and
                  \* does no node announce itself before it is through?
  OnlySavedLeave, \* does a node leave only if the record has it, and the list
                  \* of joined nodes has it no more than once?
  Reports,        \* do active nodes report attributes?
  None,           \* zero, a NULL pointer; no node has this short address
  NoFile          \* the file in flash does not exist

Kinds   == {"onoff", "dimmable", "color", "temp", "other"}
Entries == 0..DevNum-1
Devices == 0..MaxDevices-1
EndpointIds == 0..EndpointLimit
Addresses == UNION {AddressesOf[n] : n \in Nodes}

ASSUME NodesAssumption ==
  /\ IsFiniteSet(Nodes)
  /\ None \notin Nodes
  /\ KindOf \in [Nodes -> Kinds]
  /\ \A n \in Nodes : AddressesOf[n] # {}
  /\ None \notin Addresses
ASSUME SizesAssumption ==
  /\ DevNum \in Nat \ {0}
  /\ MaxDevices \in Nat \ {0}
  /\ EndpointLimit \in Nat \ {0}
  /\ StaleEndpoints \subseteq EndpointIds
  /\ StaleEndpoints # {}
  /\ MaxDescriptors \in Nat
  /\ MaxJoins \in Nat
  /\ MaxRestarts \in Nat
ASSUME ChoicesAssumption ==
  /\ ShellCommands \subseteq {"EnumNodes", "SaveNodes", "RetrieveNodes"}
  /\ OneAtATime \in BOOLEAN
  /\ RetrieveFirst \in BOOLEAN
  /\ OnlySavedLeave \in BOOLEAN
  /\ Reports \in BOOLEAN
ASSUME MarksAssumption ==
  /\ None \notin Int
  /\ None \notin [node : Nodes \cup {None}, kind : Kinds]
  /\ NoFile \notin Seq([type : 0..3, ep : EndpointIds, mac : Nodes \cup {None},
                        addr : Addresses \cup {None}])

VARIABLES
  joined,     \* JoinedNodes
  idx,        \* the entry of JoinedNodes the last announcement took
  table,      \* the state of each node in deviceTable
  sZcb,       \* the clusters of the last descriptor, and whose it was
  addr,       \* the short address each node has in the network
  mail,       \* ZcbMsg
  gDevices,   \* BridgeDevMgr::gDevices
  endpoints,  \* the dynamic endpoints of the Matter stack
  gIndex,     \* where RestoreNodeEndpoint puts the next device
  curEp,      \* mCurrentEndpointId
  firstEp,    \* mFirstDynamicEndpointId
  saved,      \* the first totalNodes entries of savedNodes
  flash,      \* the file myDB_filename
  cb,         \* where serialCallbackTask is
  mon,        \* where ZcbMonitor is
  cli,        \* where RestoreJoinedNodes is in the shell
  answers,    \* descriptors still to come from each node
  joins, restarts,
  halted      \* "no", "null" (NULL dereferenced) or "overrun" (array exceeded)

nodeVars   == <<joined, idx, table, sZcb, addr>>
bridgeVars == <<gDevices, endpoints, gIndex, curEp, firstEp>>
storeVars  == <<saved, flash>>
countVars  == <<answers, joins, restarts>>
vars == <<nodeVars, mail, bridgeVars, storeVars, cb, mon, cli, countVars,
          halted>>

\* An entry of JoinedNodes that memset or ZCB_HandleDeviceLeave zeroed.
Empty  == [type |-> 0, ep |-> 0, mac |-> None, addr |-> None]
NoDev  == [node |-> None, kind |-> "other"]
NoMail == [msg |-> "none", dev |-> NoDev, ep |-> 0]
Idle     == [at |-> "idle", node |-> None, Idx |-> 0]
Sleeping == [at |-> "sleep", dev |-> NoDev, k |-> 0, new |-> Empty, j |-> 0]
Prompt   == [at |-> "idle", i |-> 1]

\* JoinedNodes[].type after a descriptor of this kind, from type t.
TypeAfter(kind, t) ==
  CASE kind = "dimmable" -> 2
    [] kind = "color"    -> 3
    [] OTHER             -> t
\* The device RetrieveJoinedNode creates for a saved type.
KindOfType(t) ==
  CASE t = 2 -> "dimmable" [] t = 3 -> "color" [] OTHER -> "onoff"

\* The first entry of the record that has MAC address m, as a position.
Matching(s, m) == {j \in DOMAIN s : s[j].mac = m}
\* savedNodes after ramStorageReadFromFlash: the old content if it fails.
Loaded == IF flash = NoFile THEN saved ELSE flash

\* The record in flash, and whether it has a node.
FlashRecord == IF flash = NoFile THEN <<>> ELSE flash
IsSaved(n) == \E j \in DOMAIN FlashRecord : FlashRecord[j].mac = n

\* bridge_mutex is held while ZcbMonitor handles a message.
MutexFree == mon.at = "sleep"
\* A handler that does not block keeps the tasks below it out.
BelowMayRun == halted = "no" /\ cb.at # "leave"
Quiet ==
  /\ cb.at = "idle" /\ mon.at = "sleep" /\ mail.msg = "none" /\ cli.at = "idle"
  /\ \A n \in Nodes : answers[n] = 0
MayBegin == OneAtATime => Quiet

-----------------------------------------------------------------------------
Init ==
  /\ joined = [i \in Entries |-> Empty]
  /\ idx = 0
  /\ table = [n \in Nodes |-> "absent"]
  /\ sZcb = NoDev
  /\ addr \in [Nodes -> Addresses]
  /\ \A n \in Nodes : addr[n] \in AddressesOf[n]
  /\ mail = NoMail
  /\ gDevices = [k \in Devices |-> None]
  /\ endpoints = [k \in Devices |-> None]
  /\ gIndex = 0
  /\ curEp \in StaleEndpoints
  /\ firstEp \in StaleEndpoints
  /\ saved = <<>>
  /\ flash = NoFile
  /\ cb = Idle
  /\ mon = Sleeping
  /\ cli = Prompt
  /\ answers = [n \in Nodes |-> 0]
  /\ joins = 0
  /\ restarts = 0
  /\ halted = "no"

-----------------------------------------------------------------------------
(* serialCallbackTask.                                                     *)

CallbackReady == halted = "no" /\ cb.at = "idle"

FreeEntries == {i \in Entries : joined[i].type = 0 /\ joined[i].ep = 0}

\* What an announcement that took entry i leaves in idx, and two forms of it:
\* idx stays at the first entry, or counts from one.
IdxKept(i) == idx
IdxNext(i) == i + 1
IdxOf(i) == i
\* The type of a node before its descriptor, and a form that leaves it unset.
TypeUnset == 0
TypeOnJoin == 1

\* ZCB_HandleDeviceAnnounce, from short address a.  Entries the node has already
\* keep the address they have.  A node the device table does not have is asked
\* for its endpoints and clusters, which blocks (at = "ask").
Announce(n, a) ==
  /\ CallbackReady
  /\ MayBegin
  /\ RetrieveFirst => cli.at = "idle"
  /\ joins < MaxJoins
  /\ joins' = joins + 1
  /\ addr' = [addr EXCEPT ![n] = a]
  /\ IF FreeEntries = {}
     THEN UNCHANGED <<joined, idx>>
     ELSE LET i == Min(FreeEntries)
          IN  /\ joined' = [joined EXCEPT ![i] =
                              [type |-> TypeOnJoin, ep |-> 0, mac |-> n, addr |-> a]]
              /\ idx' = IdxOf(i)
  /\ IF table[n] = "absent"
     THEN /\ table' = [table EXCEPT ![n] = "joined"]
          /\ answers' = [answers EXCEPT ![n] = MaxDescriptors]
          /\ cb' = [Idle EXCEPT !.at = "ask", !.node = n]
     ELSE UNCHANGED <<table, answers, cb>>
  /\ UNCHANGED <<sZcb, mail, bridgeVars, storeVars, mon, cli, restarts, halted>>

\* The wait for the list of endpoints ends, with or without it.
Asked ==
  /\ halted = "no"
  /\ cb.at = "ask"
  /\ cb' = Idle
  /\ UNCHANGED <<nodeVars, mail, bridgeVars, storeVars, mon, cli, countVars,
                 halted>>

\* sZcb after ClearClusterBitmap and the loop over the clusters, and a form
\* without ClearClusterBitmap.
DescribedUncleared(n) ==
  [node |-> n, kind |-> IF sZcb.kind = "color" THEN "color" ELSE KindOf[n]]
Described(n) == [node |-> n, kind |-> KindOf[n]]

\* ZCB_HandleSimpleDescriptorResponse, up to the call of
\* vZDM_NewDeviceQualifyProcess, which blocks (at = "post").
Descriptor(n) ==
  /\ CallbackReady
  /\ answers[n] > 0
  /\ answers' = [answers EXCEPT ![n] = @ - 1]
  /\ CASE table[n] = "absent" ->
            halted' = "null" /\ UNCHANGED <<joined, table, sZcb, cb>>
       [] table[n] = "active" ->
            UNCHANGED <<joined, table, sZcb, cb, halted>>
       [] OTHER ->
            /\ sZcb' = Described(n)
            /\ joined' = [joined EXCEPT ![idx].type = TypeAfter(KindOf[n], @)]
            /\ table' = [table EXCEPT ![n] = "described"]
            /\ cb' = [Idle EXCEPT !.at = "post", !.node = n]
            /\ UNCHANGED halted
  /\ UNCHANGED <<idx, addr, mail, bridgeVars, storeVars, mon, cli, joins, restarts>>

\* A descriptor is lost.
LoseDescriptor(n) ==
  /\ halted = "no"
  /\ answers[n] > 0
  /\ answers' = [answers EXCEPT ![n] = @ - 1]
  /\ UNCHANGED <<nodeVars, mail, bridgeVars, storeVars, cb, mon, cli, joins,
                 restarts, halted>>

\* eZCB_SendMsg(BRIDGE_ADD_DEV): the mailbox has one place.
PostAdd ==
  /\ halted = "no"
  /\ cb.at = "post"
  /\ MutexFree
  /\ mail' = [msg |-> "add", dev |-> sZcb, ep |-> 0]
  /\ cb' = Idle
  /\ UNCHANGED <<nodeVars, bridgeVars, storeVars, mon, cli, countVars, halted>>

\* ZCB_HandleReadAttrResp with the node's model name ends its qualification.
Activate(n) ==
  /\ CallbackReady
  /\ table[n] = "described"
  /\ table' = [table EXCEPT ![n] = "active"]
  /\ UNCHANGED <<joined, idx, sZcb, addr, mail, bridgeVars, storeVars, cb, mon,
                 cli, countVars, halted>>

\* ZCB_HandleAttributeReport and handleAttribute:
\* eZCB_SendMsg(BRIDGE_WRITE_ATTRIBUTE).
Report(n) ==
  /\ CallbackReady
  /\ Reports
  /\ table[n] = "active"
  /\ MutexFree
  /\ mail' = [msg |-> "write", dev |-> sZcb, ep |-> 0]
  /\ UNCHANGED <<nodeVars, bridgeVars, storeVars, cb, mon, cli, countVars,
                 halted>>

\* ZCB_HandleDeviceLeave.  Its local Idx is not initialised.
Leave(n) ==
  /\ CallbackReady
  /\ MayBegin
  /\ table[n] # "absent" \/ \E i \in Entries : joined[i].mac = n
  /\ OnlySavedLeave =>
       IsSaved(n) /\ Cardinality({i \in Entries : joined[i].mac = n}) <= 1
  /\ \E g \in 0..DevNum : cb' = [at |-> "leave", node |-> n, Idx |-> g]
  /\ UNCHANGED <<nodeVars, mail, bridgeVars, storeVars, mon, cli, countVars,
                 halted>>

LeavingEntries == {i \in Entries : joined[i].mac = cb.node}

\* Idx after the search for the leaving node in record s, and a form that
\* counts from one.
FoundNext(s) == LET hits == Matching(s, cb.node)
                IN  IF hits = {} THEN cb.Idx ELSE Min(hits)
FoundAt(s) == LET hits == Matching(s, cb.node)
              IN  IF hits = {} THEN cb.Idx ELSE Min(hits) - 1
\* What the file holds after ramStorageSavetoFlash of the first totalNodes
\* entries: nothing new if there is none.
Stored(s) == IF s = <<>> THEN flash ELSE s
\* The record without the entry at Idx, or without the last one.  The entry that
\* moves up to the place of the last one is behind the record, and behind
\* joinedNodes if that is full; totalNodes - 1 leaves it out.
Without(s, g) == IF g < Len(s) THEN RemoveAt(s, g + 1) ELSE Front(s)

\* One round of its loop, for an entry with the leaving node's address.
LeaveEntry ==
  /\ halted = "no"
  /\ cb.at = "leave"
  /\ LeavingEntries # {}
  /\ joined' = [joined EXCEPT ![Min(LeavingEntries)] = Empty]
  /\ LET g == FoundAt(Loaded)
     IN  IF flash = NoFile
         THEN UNCHANGED <<storeVars, cb, halted>>
         ELSE /\ cb' = [cb EXCEPT !.Idx = g]
              /\ CASE g = 0 ->
                        saved' = Loaded /\ UNCHANGED <<flash, halted>>
                   [] g # 0 /\ Loaded = <<>> ->   \* totalNodes wraps to 255
                        halted' = "overrun" /\ UNCHANGED storeVars
                   [] OTHER ->
                        /\ saved' = Without(Loaded, g)
                        /\ flash' = Stored(saved')
                        /\ UNCHANGED halted
  /\ UNCHANGED <<idx, table, sZcb, addr, mail, bridgeVars, mon, cli, countVars>>

\* bZDM_EraseDeviceFromDeviceTable.
LeaveEnd ==
  /\ halted = "no"
  /\ cb.at = "leave"
  /\ LeavingEntries = {}
  /\ table' = [table EXCEPT ![cb.node] = "absent"]
  /\ cb' = Idle
  /\ UNCHANGED <<joined, idx, sZcb, addr, mail, bridgeVars, storeVars, mon, cli,
                 countVars, halted>>

-----------------------------------------------------------------------------
(* ZcbMonitor.                                                             *)

\* The message is dealt with: ZcbMsg is cleared and the mutex given back.
Done == mail' = NoMail /\ mon' = Sleeping

\* WriteAttributeToDynamicEndpoint changes only the attributes of a device.
TakeWrite ==
  /\ BelowMayRun
  /\ mon.at = "sleep"
  /\ mail.msg = "write"
  /\ Done
  /\ UNCHANGED <<nodeVars, bridgeVars, storeVars, cb, cli, countVars, halted>>

\* emberAfSetDynamicEndpoint for an endpoint id the stack already has.
Exists(e) == \E k \in Devices : endpoints[k] = e
\* Where the next restored device goes, and a form that stays in place.
IndexKept(g) == g
NextIndex(g) == g + 1

\* RetrieveJoinedNode and RestoreNodeEndpoint, which ignores EXISTS.
TakeRestore ==
  /\ BelowMayRun
  /\ mon.at = "sleep"
  /\ mail.msg = "restore"
  /\ IF gIndex \notin Devices
     THEN halted' = "overrun" /\ UNCHANGED <<bridgeVars, mail, mon>>
     ELSE /\ gDevices' = [gDevices EXCEPT ![gIndex] = mail.dev]
          /\ endpoints' = IF Exists(mail.ep)
                          THEN endpoints
                          ELSE [endpoints EXCEPT ![gIndex] = mail.ep]
          /\ gIndex' = NextIndex(gIndex)
          /\ Done
          /\ UNCHANGED <<curEp, firstEp, halted>>
  /\ UNCHANGED <<nodeVars, storeVars, cb, cli, countVars>>

\* One above the highest endpoint of the record, 1 if the record is empty; and
\* a form that goes on from the last endpoint of this boot.
NextKept(s) == curEp
NextSaved(s) == Max({0} \cup {s[j].ep : j \in DOMAIN s}) + 1

\* AddNewZcbNode and the start of AddDeviceEndpoint: the first endpoint id to
\* try comes from the record, and the device gets the first free place.
TakeAdd ==
  /\ BelowMayRun
  /\ mon.at = "sleep"
  /\ mail.msg = "add"
  /\ LET places == {k \in Devices : gDevices[k] = None}
         made == mail.dev.kind # "other"
     IN  /\ IF made /\ flash # NoFile
            THEN curEp' = NextSaved(flash)
            ELSE UNCHANGED curEp
         /\ IF made /\ places # {}
            THEN /\ gDevices' = [gDevices EXCEPT ![Min(places)] = mail.dev]
                 /\ mon' = [Sleeping EXCEPT !.at = "place", !.dev = mail.dev,
                                            !.k = Min(places)]
                 /\ UNCHANGED mail
            ELSE Done /\ UNCHANGED gDevices
  /\ UNCHANGED <<nodeVars, endpoints, gIndex, firstEp, storeVars, cb, cli,
                 countVars, halted>>

Goto(p) == mon' = [mon EXCEPT !.at = p]

\* kInvalidEndpointId is refused, with another error than EXISTS.
IsEndpointId(e) == e # EndpointLimit
\* Does it return CHIP_NO_ERROR?  And a form that does not look at the result.
AcceptedAlways(e) == TRUE
Accepted(e) == IsEndpointId(e) /\ ~Exists(e)
\* ++mCurrentEndpointId, and the condition on the wrap.
Bump(e) == IF e + 1 < firstEp THEN firstEp ELSE e + 1

\* One call of emberAfSetDynamicEndpoint in the loop of AddDeviceEndpoint.
Place ==
  /\ BelowMayRun
  /\ mon.at = "place"
  /\ CASE Accepted(curEp) ->
            /\ endpoints' = [endpoints EXCEPT ![mon.k] = curEp]
            /\ Goto("check")
            /\ UNCHANGED <<curEp, mail>>
       [] ~Accepted(curEp) /\ IsEndpointId(curEp) ->
            curEp' = Bump(curEp) /\ UNCHANGED <<endpoints, mail, mon>>
       [] OTHER ->
            Done /\ UNCHANGED <<endpoints, curEp>>
  /\ UNCHANGED <<nodeVars, gDevices, gIndex, firstEp, storeVars, cb, cli,
                 countVars, halted>>

\* UpdateJoinedNodes, its condition.
Check ==
  /\ BelowMayRun
  /\ mon.at = "check"
  /\ IF joined[idx].type # 0 /\ joined[idx].ep = 0 /\ curEp # 0
     THEN Goto("assign") /\ UNCHANGED mail
     ELSE Done
  /\ UNCHANGED <<nodeVars, bridgeVars, storeVars, cb, cli, countVars, halted>>

\* JoinedNodes[idx].ep = EP, at whatever idx is by now.
Assign ==
  /\ BelowMayRun
  /\ mon.at = "assign"
  /\ joined' = [joined EXCEPT ![idx].ep = curEp]
  /\ Goto("copy")
  /\ UNCHANGED <<idx, table, sZcb, addr, mail, bridgeVars, storeVars, cb, cli,
                 countVars, halted>>

\* The argument of StoreJoinedNode.
Copy ==
  /\ BelowMayRun
  /\ mon.at = "copy"
  /\ mon' = [mon EXCEPT !.at = "read", !.new = joined[idx]]
  /\ UNCHANGED <<nodeVars, mail, bridgeVars, storeVars, cb, cli, countVars,
                 halted>>

\* StoreJoinedNode reads the record and looks for the node in it; a form of the
\* search that finds nothing.
NotFound(s, m) == 0
Position(s, m) == LET hits == Matching(s, m)
                  IN  IF hits = {} THEN 0 ELSE Min(hits)
Read ==
  /\ BelowMayRun
  /\ mon.at = "read"
  /\ saved' = Loaded
  /\ mon' = [mon EXCEPT !.at = "write",
               !.j = IF flash = NoFile THEN 0 ELSE Position(flash, mon.new.mac)]
  /\ UNCHANGED <<nodeVars, mail, bridgeVars, flash, cb, cli, countVars, halted>>

\* It updates the node's entry, or appends one; and a form of the update that
\* leaves the endpoint and the address.
UpdatedType(r, new) == [r EXCEPT !.type = new.type]
Updated(r, new) ==
  [r EXCEPT !.type = new.type, !.ep = new.ep, !.addr = new.addr]
Write ==
  /\ BelowMayRun
  /\ mon.at = "write"
  /\ CASE mon.j # 0 ->
            /\ saved' = [i \in DOMAIN saved |->
                           IF i = mon.j THEN Updated(saved[i], mon.new)
                                        ELSE saved[i]]
            /\ Goto("save") /\ UNCHANGED halted
       [] mon.j = 0 /\ mon.new.type = 0 ->
            Goto("save") /\ UNCHANGED <<saved, halted>>
       [] mon.j = 0 /\ mon.new.type # 0 /\ Len(saved) < DevNum ->
            saved' = Append(saved, mon.new) /\ Goto("save") /\ UNCHANGED halted
       [] OTHER ->
            halted' = "overrun" /\ UNCHANGED <<saved, mon>>
  /\ UNCHANGED <<nodeVars, mail, bridgeVars, flash, cb, cli, countVars>>

\* It saves the record as savedNodes is by now.
Save ==
  /\ BelowMayRun
  /\ mon.at = "save"
  /\ flash' = IF mon.j # 0 THEN saved ELSE Stored(saved)
  /\ Done
  /\ UNCHANGED <<nodeVars, bridgeVars, saved, cb, cli, countVars, halted>>

Monitor == TakeWrite \/ TakeRestore \/ TakeAdd \/ Place \/ Check \/ Assign
           \/ Copy \/ Read \/ Write \/ Save

-----------------------------------------------------------------------------
(* The shell.                                                              *)

ShellMayBegin(c) ==
  halted = "no" /\ c \in ShellCommands /\ cli.at = "idle" /\ MayBegin

\* EnumJoinedNodes.
EnumNodes ==
  /\ ShellMayBegin("EnumNodes")
  /\ flash # NoFile
  /\ saved' = flash
  /\ joined' = [i \in Entries |->
                  IF i < Len(flash) THEN flash[i + 1] ELSE joined[i]]
  /\ UNCHANGED <<idx, table, sZcb, addr, mail, bridgeVars, flash, cb, mon, cli,
                 countVars, halted>>

\* How often SaveJoinedNodes takes entry i for a new node: once for every
\* saved node that differs from it, or once if nothing is saved.
TimesNew(i) ==
  IF joined[i].type = 0 THEN 0
  ELSE IF Loaded = <<>> THEN 1
  ELSE Cardinality({j \in DOMAIN Loaded : Loaded[j] # joined[i]})

\* What it counts in DupNode.
Duplicates ==
  {p \in Entries \X DOMAIN Loaded :
     joined[p[1]].type # 0 /\ Loaded[p[2]] = joined[p[1]]}

\* SaveJoinedNodes.
SaveNodes ==
  /\ ShellMayBegin("SaveNodes")
  /\ LET new == FlattenSeq([i \in 1..DevNum |->
                              [k \in 1..TimesNew(i - 1) |-> joined[i - 1]]])
         all == Loaded \o new
     IN  IF Len(all) > DevNum \/ Cardinality(Duplicates) > DevNum
         THEN halted' = "overrun" /\ UNCHANGED storeVars
         ELSE /\ saved' = all
              /\ flash' = Stored(all)
              /\ UNCHANGED halted
  /\ UNCHANGED <<nodeVars, mail, bridgeVars, cb, mon, cli, countVars>>

\* RestoreJoinedNodes reads the record,
RetrieveNodes ==
  /\ ShellMayBegin("RetrieveNodes")
  /\ RetrieveFirst => Quiet /\ \A k \in Devices : gDevices[k] = None
  /\ flash # NoFile
  /\ saved' = flash
  /\ cli' = [Prompt EXCEPT !.at = "entry"]
  /\ UNCHANGED <<nodeVars, mail, bridgeVars, flash, cb, mon, countVars, halted>>

\* takes the next node of it into the list,
RetrieveEntry ==
  /\ halted = "no"
  /\ cli.at = "entry"
  /\ cli.i <= Len(saved)
  /\ IF saved[cli.i].type # 0
     THEN /\ joined' = [joined EXCEPT ![cli.i - 1] = saved[cli.i]]
          /\ cli' = [cli EXCEPT !.at = "post"]
     ELSE /\ cli' = [cli EXCEPT !.i = @ + 1]
          /\ UNCHANGED joined
  /\ UNCHANGED <<idx, table, sZcb, addr, mail, bridgeVars, storeVars, cb, mon,
                 countVars, halted>>

\* sends BRIDGE_RESTORE_JOINED_NODE with its type and endpoint,
RetrievePost ==
  /\ halted = "no"
  /\ cli.at = "post"
  /\ MutexFree
  /\ LET r == joined[cli.i - 1]
     IN  mail' = [msg |-> "restore", ep |-> r.ep,
                  dev |-> [node |-> r.mac, kind |-> KindOfType(r.type)]]
  /\ cli' = [cli EXCEPT !.at = "delay"]
  /\ UNCHANGED <<nodeVars, bridgeVars, storeVars, cb, mon, countVars, halted>>

\* and sleeps for 500 ticks: five polls of ZcbMonitor.
RetrieveNext ==
  /\ halted = "no"
  /\ cli.at = "delay"
  /\ OneAtATime => mail.msg = "none"
  /\ cli' = [at |-> "entry", i |-> cli.i + 1]
  /\ UNCHANGED <<nodeVars, mail, bridgeVars, storeVars, cb, mon, countVars,
                 halted>>

RetrieveEnd ==
  /\ halted = "no"
  /\ cli.at = "entry"
  /\ cli.i > Len(saved)
  /\ cli' = Prompt
  /\ UNCHANGED <<nodeVars, mail, bridgeVars, storeVars, cb, mon, countVars,
                 halted>>

RetrieveStep == RetrieveEntry \/ RetrievePost \/ RetrieveNext \/ RetrieveEnd

-----------------------------------------------------------------------------
\* The bridge loses power at any point.  Only the file stays.
Restart ==
  /\ restarts < MaxRestarts
  /\ halted = "no"
  /\ restarts' = restarts + 1
  /\ joined' = [i \in Entries |-> Empty]
  /\ idx' = 0
  /\ table' = [n \in Nodes |-> "absent"]
  /\ sZcb' = NoDev
  /\ mail' = NoMail
  /\ gDevices' = [k \in Devices |-> None]
  /\ endpoints' = [k \in Devices |-> None]
  /\ gIndex' = 0
  /\ curEp' \in StaleEndpoints
  /\ firstEp' \in StaleEndpoints
  /\ saved' = <<>>
  /\ cb' = Idle
  /\ mon' = Sleeping
  /\ cli' = Prompt
  /\ answers' = [n \in Nodes |-> 0]
  /\ UNCHANGED <<addr, flash, joins, halted>>

Callback == Asked \/ PostAdd \/ LeaveEntry \/ LeaveEnd
NodeEvent(n) == (\E a \in AddressesOf[n] : Announce(n, a))
                \/ Descriptor(n) \/ LoseDescriptor(n) \/ Activate(n)
                \/ Report(n) \/ Leave(n)
Shell == EnumNodes \/ SaveNodes \/ RetrieveNodes \/ RetrieveStep

Next ==
  (\E n \in Nodes : NodeEvent(n)) \/ Callback \/ Monitor \/ Shell \/ Restart

Spec == Init /\ [][Next]_vars

\* Every task that has something to do gets to do it.
Fairness == WF_vars(Callback) /\ WF_vars(Monitor) /\ WF_vars(RetrieveStep)
FairSpec == Spec /\ Fairness

-----------------------------------------------------------------------------
(* Properties.                                                             *)

Entry  == [type : 0..3, ep : EndpointIds, mac : Nodes \cup {None},
           addr : Addresses \cup {None}]
Record == {s \in Seq(Entry) : Len(s) <= DevNum}
Dev    == [node : Nodes \cup {None}, kind : Kinds]

\* Every variable has the type of the code's variable, and no array is longer
\* than its declaration.
TypeOK ==
  /\ joined \in [Entries -> Entry]
  /\ idx \in Entries
  /\ table \in [Nodes -> {"absent", "joined", "described", "active"}]
  /\ sZcb \in Dev
  /\ addr \in [Nodes -> Addresses]
  /\ mail \in [msg : {"none", "add", "write", "restore"}, dev : Dev,
               ep : EndpointIds]
  /\ gDevices \in [Devices -> Dev \cup {None}]
  /\ endpoints \in [Devices -> EndpointIds \cup {None}]
  /\ gIndex \in 0..MaxDevices
  /\ curEp \in EndpointIds
  /\ firstEp \in EndpointIds
  /\ saved \in Record
  /\ flash \in Record \cup {NoFile}
  /\ cb \in [at : {"idle", "ask", "post", "leave"}, node : Nodes \cup {None},
             Idx : 0..DevNum]
  /\ mon \in [at : {"sleep", "place", "check", "assign", "copy", "read",
                    "write", "save"},
              dev : Dev, k : Devices, new : Entry, j : 0..DevNum]
  /\ cli \in [at : {"idle", "entry", "post", "delay"}, i : 1..DevNum+1]
  /\ answers \in [Nodes -> 0..MaxDescriptors]
  /\ joins \in 0..MaxJoins
  /\ restarts \in 0..MaxRestarts
  /\ halted \in {"no", "null", "overrun"}

\* A node has one entry in flash, however often it joins, whatever leaves
\* while StoreJoinedNode works and whenever the power fails.
SavedOnce ==
  \A i, j \in DOMAIN FlashRecord :
    FlashRecord[i].mac = FlashRecord[j].mac => i = j

\* No endpoint id is saved for two nodes, although the next id is read before
\* the record is read again and written, and restarts forget the last id.
SavedEndpointsDistinct ==
  \A i, j \in DOMAIN FlashRecord :
    FlashRecord[i].ep # 0 /\ FlashRecord[i].ep = FlashRecord[j].ep => i = j

\* FindMatchedNodeByEP has at most one node to find, although ZcbMonitor works
\* on JoinedNodes[idx] while handlers change idx and the entries.
JoinedEndpointsDistinct ==
  \A i, j \in Entries :
    joined[i].ep # 0 /\ joined[i].ep = joined[j].ep => i = j

\* The device behind the endpoint of an entry of JoinedNodes was made for the
\* node of that entry: the node whose clusters and attributes the endpoint
\* shows is the one FindMatchedNodeByEP sends its commands to.
DeviceAndNodeAgree ==
  \A i \in Entries, k \in Devices :
    joined[i].type # 0 /\ joined[i].ep # 0 /\ endpoints[k] = joined[i].ep
    /\ mon.at \notin {"check", "assign"}
      => gDevices[k] # None /\ gDevices[k].node = joined[i].mac

\* An endpoint has the clusters of the node behind it, also after a restart.
EndpointFitsNode ==
  \A k \in Devices :
    endpoints[k] # None /\ gDevices[k] # None /\ gDevices[k].node \in Nodes
      => gDevices[k].kind = KindOf[gDevices[k].node]

\* Between leaves and while ZcbMonitor sleeps, flash has each node that has an
\* endpoint, with an endpoint of this node: what RetrieveNodes restores is what
\* was in use.
RecordMatchesJoined ==
  mon.at = "sleep" /\ cb.at # "leave" =>
    \A i \in Entries : joined[i].ep # 0 =>
      \E j \in DOMAIN FlashRecord, l \in Entries :
        /\ FlashRecord[j].mac = joined[i].mac
        /\ joined[l].mac = joined[i].mac
        /\ FlashRecord[j].ep = joined[l].ep

\* Every endpoint of the list is there for Matter once RetrieveNodes is through.
EndpointIsLive ==
  cli.at = "idle" =>
    \A i \in Entries : joined[i].ep # 0 /\ mon.at \notin {"check", "assign"} =>
      \E k \in Devices : endpoints[k] = joined[i].ep

\* The record has node n, also once ZcbMonitor has saved what it works on.
Known(n) ==
  /\ IsSaved(n)
  /\ mon.at \in {"write", "save"} => \E j \in DOMAIN saved : saved[j].mac = n

\* A node gets lost from the record only by its own leave, or by that of a node
\* the record does not have, when Idx still has the value it had on the stack.
\* StoreJoinedNode never loses one that it has read, although it shares
\* savedNodes with the leaves that come between any two of its steps (zcb.c:866
\* to 897 and 966 to 990).
RecordKeeps ==
  [][ \A n \in Nodes :
        Known(n) /\ ~Known(n)' =>
          cb.at = "leave" /\ (cb.node = n \/ ~IsSaved(cb.node))
    ]_vars

\* When ZCB_HandleDeviceLeave ends, flash no longer has the node.
LeaveErases ==
  [][ cb.at = "leave" /\ cb'.at = "idle" /\ restarts' = restarts =>
        \A j \in DOMAIN FlashRecord : FlashRecord[j].mac # cb.node
    ]_vars

\* A device that was made for one node gets listed for another only when
\* UpdateJoinedNodes enters its endpoint although another announcement has moved
\* idx (zcb.c:906, the run NodeJoinOverlap): no leave, announcement, report or
\* descriptor that comes between the steps of ZcbMonitor has this effect.
MadeForNode ==
  \A i \in Entries, k \in Devices :
    joined[i].ep # 0 /\ endpoints[k] = joined[i].ep
      => gDevices[k] # None /\ gDevices[k].node = joined[i].mac
OnlyIdxMixes ==
  [][ MadeForNode /\ ~MadeForNode' =>
        mon.at = "assign" /\ joined[idx].mac # mon.dev.node
    ]_vars

\* A described node ends up in flash unless it leaves, the bridge stops, another
\* message takes the one place of the mailbox, another announcement moves idx,
\* a leave reads the record again before StoreJoinedNode has saved it, or the
\* endpoint ids are used up.
Displaced(n) ==
  \/ mail.msg = "write"
  \/ mail.msg = "add" /\ mail.dev.node # n
  \/ joined[idx].mac # n
  \/ mon.at \in {"write", "save"} /\ cb.at = "leave"
  \/ ~IsEndpointId(curEp)
JoinCompletes ==
  \A n \in Nodes :
    cb.at = "post" /\ cb.node = n /\ joined[idx].ep = 0 ~>
      IsSaved(n) \/ table[n] = "absent" \/ halted # "no" \/ Displaced(n)
=============================================================================
