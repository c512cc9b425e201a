------------------------------ MODULE DeviceTable ------------------------------
(***************************************************************************)
(* The table of Zigbee devices and the interview that fills it:            *)
(* ZigbeeDevices.c, and the handlers of zcb.c that run in                  *)
(* serialCallbackTask (all of zigbee_bridge/rt/rw61x/ZCB).                 *)
(*                                                                         *)
(* The handler of one message may ask the device a question and wait up to *)
(* a second for any message of the answer's type; the answer itself comes  *)
(* through the callback queue, after the handler has returned.  The step   *)
(* between two such waits is one action.  Only the shell's zb-erasepdm     *)
(* changes the table in between.                                           *)
(*                                                                         *)
(* Left out: attribute values, the counters u16DeviceCount and             *)
(* u8AttributeCount, which nothing reads, and the entries of JoinedNodes   *)
(* (module NodeJoin).  No command registered with the shell asks for a     *)
(* network address, so ZCB_HandleNetworkAddressReponse never runs.         *)
(***************************************************************************)
EXTENDS Integers, Bags, FiniteSetsExt, SequencesExt

CONSTANTS
  Devices,        \* Zigbee devices, by IEEE address
  Nodes,          \* short addresses
  AddressesOf,    \* the short addresses a device may join with
  EndpointsOf,    \* the endpoint ids a device answers with
  ClustersOf,     \* the clusters of its endpoint 1
  TypeOf,         \* the device type of its endpoint 1
  MaxDevices,     \* MAX_ZD_DEVICE_NUMBERS
  MaxEndpoints,   \* MAX_ZD_ENDPOINT_NUMBERS_PER_DEV
  MaxClusters,    \* MAX_ZD_CLUSTER_NUMBERS_PER_EP
  MaxAttributes,  \* MAX_ZD_ATTRIBUTE_NUMBERS_TOTAL
  QueueSize,      \* length of sCallbackQueue
  MaxJoins,       \* bound: announcements
  MaxGone,        \* bound: leaves and erasures
  MaxFaults,      \* bound: questions or answers lost, waits that end early
  OneAtATime,     \* does each event wait for the last one to be dealt with?
  Reporting,      \* devices that report attributes
  Silent,         \* may a device that reported stay silent for 65 s?
  None            \* zero, an empty entry

ValidEndpoint(ep) == ep \in (1..242) \ {241}
\* What ZCB_HandleSimpleDescriptorResponse leaves out.
Ignored == {"groups", "scenes", "identify", "commissioning"}
Used    == {"basic", "onoff", "level", "color", "temp", "hum", "illum", "occupancy"}
Kinds   == {"announce", "leave", "activeEp", "descriptor", "readAttr", "report",
            "ieeeAddr"}
Messages == [kind : Kinds, from : Devices, node : Nodes]
Slots    == 1..MaxDevices

ASSUME DevicesAssumption ==
  /\ IsFiniteSet(Devices) /\ IsFiniteSet(Nodes)
  /\ None \notin Devices \cup Nodes
  /\ AddressesOf \in [Devices -> SUBSET Nodes]
  /\ Reporting \subseteq Devices
  /\ EndpointsOf \in [Devices -> Seq(0..255)]
  /\ ClustersOf \in [Devices -> Seq(Used \cup Ignored)]
  /\ TypeOf \in [Devices -> {"other", "colorTemp", "colorExt"}]
ASSUME SizesAssumption ==
  /\ {MaxDevices, MaxEndpoints, MaxClusters, MaxAttributes, QueueSize} \subseteq Nat \ {0}
  /\ {MaxJoins, MaxGone, MaxFaults} \subseteq Nat
  /\ {OneAtATime, Silent} \subseteq BOOLEAN

VARIABLES
  net,       \* the short address of each device, None off the network
  air,       \* messages on their way to the host, in no order
  queue,     \* sCallbackQueue
  table,     \* deviceTable
  attrs,     \* the used entries of attributeTable, which has no gaps
  epIndex,   \* the static epArrayIndex
  beyond,    \* history: it was used beyond the endpoints of an entry
  h,         \* where serialCallbackTask is
  timed,     \* devices whose 65 s timer runs
  broken,    \* "no", or what went beyond an array or through a bad pointer
  joinNode,  \* history: the address of the announcement that added a device
  joins, gone, faults

envVars   == <<net, air, joins, gone>>
tableVars == <<table, attrs, joinNode>>
indexVars == <<epIndex, beyond>>
vars == <<envVars, queue, tableVars, indexVars, h, timed, broken, faults>>

-----------------------------------------------------------------------------
(* The table.                                                              *)

NoEndpoint == [id |-> 0, type |-> "other", clusters |-> <<>>]
Blank == [node |-> None, ieee |-> None, state |-> "null", epCount |-> 0,
          eps |-> [i \in 1..MaxEndpoints |-> NoEndpoint]]

\* bZD_ValidityCheckOfNodeId: neither zero nor a broadcast address.
ValidNode(n) == n # None

Earliest(S) == IF S = {} THEN 0 ELSE Min(S)
\* The index of an entry, 0 if there is none.
FindNode(n) == Earliest({s \in Slots : ValidNode(n) /\ table[s].node = n})
FindIeee(d) == Earliest({s \in Slots : table[s].ieee = d})
FreeSlot    == Earliest({s \in Slots : table[s].node = None})

\* tZDM_FindEndpointEntryInDeviceTable in entry s: the index, 0 if not found.  The
\* code looks on behind the endpoints; what it may find there is no better.
FindEndpoint(s, ep) ==
  Earliest({i \in 1..MaxEndpoints : ValidEndpoint(ep) /\ table[s].eps[i].id = ep})

\* tZDM_FindAttributeEntryByElement
FindAttribute(n, ep, cluster, attr) ==
  \E i \in DOMAIN attrs : attrs[i] = [node |-> n, ep |-> ep, cluster |-> cluster, attr |-> attr]

AllAttributes(e, ep, cluster, as) ==
  attrs \o [i \in DOMAIN as |->
             [node |-> e.node, ep |-> ep, cluster |-> cluster, attr |-> as[i]]]
AddedUnchecked(e, ep, cluster, as) ==  \* a bug: the end of the table is not seen
  IF ValidNode(e.node) /\ ValidEndpoint(ep) THEN AllAttributes(e, ep, cluster, as) ELSE attrs
AddedOnce(e, ep, cluster, as) ==  \* a bug: one attribute for each endpoint
  IF \E i \in DOMAIN attrs : attrs[i].node = e.node /\ attrs[i].ep = ep
  THEN attrs ELSE AddedUnchecked(e, ep, cluster, as)
\* attributeTable with the attributes as of one cluster of an entry: none if the
\* entry was erased meanwhile, and no more than fit.
Added(e, ep, cluster, as) ==
  LET all == AllAttributes(e, ep, cluster, as)
  IN  IF ValidNode(e.node) /\ ValidEndpoint(ep)
      THEN SubSeq(all, 1, Min({Len(all), MaxAttributes})) ELSE attrs

\* The attributes the interview binds for a cluster.
BoundAttributes(cluster, type) ==
  CASE cluster = "onoff" -> <<"onoff">>
    [] cluster = "level" -> <<"currentLevel">>
    [] cluster = "color" /\ type = "colorTemp" -> <<"temperature">>
    [] cluster = "color" /\ type = "colorExt"  -> <<"temperature", "x", "y">>
    [] cluster \in {"temp", "hum", "illum"} -> <<"measured">>
    [] cluster = "occupancy" -> <<"occupancy">>
    [] OTHER -> <<>>

AttributesKept(n) == UNCHANGED <<attrs, broken>>  \* a bug: nothing is erased
\* bZDM_EraseAttributeInfoByNodeId.  The memset has the size of the whole table:
\* it takes every later entry along and, unless it starts at the first entry,
\* what follows the table in memory.
EraseAttributes(n) ==
  LET S == {i \in DOMAIN attrs : attrs[i].node = n}
  IN  IF S = {} THEN UNCHANGED <<attrs, broken>>
      ELSE /\ attrs' = SubSeq(attrs, 1, Min(S) - 1)
           /\ broken' \in IF Min(S) = 1 THEN {broken} ELSE {broken, "overrun"}

-----------------------------------------------------------------------------
Idle == [at |-> "idle", slot |-> 0, kind |-> "none", try |-> 0, todo |-> <<>>,
         woken |-> FALSE]

Init ==
  /\ net = [d \in Devices |-> None]
  /\ air = EmptyBag
  /\ queue = <<>>
  /\ table = [s \in Slots |-> Blank]
  /\ attrs = <<>>
  /\ epIndex = 0
  /\ beyond = FALSE
  /\ h = Idle
  /\ timed = {}
  /\ broken = "no"
  /\ joinNode = [d \in Devices |-> None]
  /\ joins = 0 /\ gone = 0 /\ faults = 0

-----------------------------------------------------------------------------
(* The Zigbee network.                                                     *)

Msg(kind, d, n) == [kind |-> kind, from |-> d, node |-> n]
InAir(m)  == air (+) SetToBag({m})
ReportOutstanding(d) ==
  \E m \in BagToSet(air) \cup Range(queue) : m.kind = "report" /\ m.from = d

Quiet == h.at = "idle" /\ queue = <<>> /\ air = EmptyBag
MayAct == OneAtATime => Quiet
\* Addresses are random: none that another device has or had in the table is
\* given again.
Unused(n, d) ==
  /\ \A other \in Devices \ {d} : net[other] # n
  /\ \A s \in Slots : table[s].node = n => table[s].ieee = d

\* A device joins, or is powered on again, and announces itself.
Join(d, n) ==
  /\ MayAct
  /\ joins < MaxJoins
  /\ n \in AddressesOf[d]
  /\ Unused(n, d)
  /\ joins' = joins + 1
  /\ net' = [net EXCEPT ![d] = n]
  /\ air' = InAir(Msg("announce", d, n))
  /\ UNCHANGED <<gone, queue, tableVars, indexVars, h, timed, broken, faults>>

Leave(d) ==
  /\ MayAct
  /\ gone < MaxGone
  /\ net[d] # None
  /\ gone' = gone + 1
  /\ net' = [net EXCEPT ![d] = None]
  /\ air' = InAir(Msg("leave", d, net[d]))
  /\ UNCHANGED <<joins, queue, tableVars, indexVars, h, timed, broken, faults>>

\* A device reports the state of a light or sensor.
Report(d) ==
  /\ MayAct
  /\ d \in Reporting
  /\ net[d] # None
  /\ ~ReportOutstanding(d)
  /\ air' = InAir(Msg("report", d, net[d]))
  /\ UNCHANGED <<net, joins, gone, queue, tableVars, indexVars, h, timed, broken,
                 faults>>

\* serialReadTask: a waiting handler is woken by any message of the type, and
\* the message goes to the callback queue unless that is full.
Arrive(m) ==
  /\ m \in BagToSet(air)
  /\ air' = air (-) SetToBag({m})
  /\ h' = IF h.at = "wait" /\ h.kind = m.kind THEN [h EXCEPT !.woken = TRUE] ELSE h
  /\ queue' = IF Len(queue) < QueueSize THEN Append(queue, m) ELSE queue
  /\ UNCHANGED <<net, joins, gone, tableVars, indexVars, timed, broken, faults>>

\* The loops of a handler that waits end, for the counts they read are zero.
ClearAllDeviceTables ==
  /\ table' = [s \in Slots |-> Blank]
  /\ attrs' = <<>>
  /\ h' = [h EXCEPT !.todo = <<>>]

\* zb-erasepdm in the shell: the coordinator forgets its network, then
\* vZDM_ClearAllDeviceTables.
ErasePersistentData ==
  /\ MayAct
  /\ gone < MaxGone
  /\ gone' = gone + 1
  /\ net' = [d \in Devices |-> None]
  /\ air' = EmptyBag
  /\ ClearAllDeviceTables
  /\ UNCHANGED <<joinNode, joins, queue, indexVars, timed, broken, faults>>

\* vDevTimerCallback.  The timer's id is the address of a local variable of
\* eDeviceTimer_Init, and indexes deviceTimer.
TimerExpires(s) ==
  /\ Silent
  /\ s \in timed
  /\ broken' = "timer"
  /\ UNCHANGED <<envVars, queue, tableVars, indexVars, h, timed, faults>>

-----------------------------------------------------------------------------
(* The interview, vZDM_NewDeviceQualifyProcess.                            *)

\* An interview may go on or start again: the entry is not active.
AlwaysInterviewed(s) == 0 = 0  \* a bug: an active device is not left alone
Interviewed(s) == table[s].state # "active"

Begin(s) == [Idle EXCEPT !.at = "loop", !.slot = s]
Entry == table[h.slot]

\* Those clusters of s that are in S, in order.
Only(s, S) ==
  FlattenSeq([i \in DOMAIN s |-> IF s[i] \in S THEN <<s[i]>> ELSE <<>>])

\* The wanted clusters of an entry, as the two loops over them meet them.
Positions(e, wanted) ==
  FlattenSeq([i \in 1..e.epCount |->
    LET cs == Only(e.eps[i].clusters, wanted)
    IN  [j \in DOMAIN cs |->
           [ep |-> e.eps[i].id, cluster |-> cs[j], type |-> e.eps[i].type]]])

IndexKept == UNCHANGED indexVars  \* a bug: the index survives the device it was for
IndexReset == epIndex' = 0 /\ UNCHANGED beyond

LoopNew ==
  /\ Entry.state = "new"
  /\ h' = [h EXCEPT !.at = "ask", !.kind = "activeEp", !.try = 1]
  /\ UNCHANGED indexVars

AnyEndpoint(id) == 0 = 0  \* a bug: the check is missing
UsedEndpoint(id) == id \notin {0, 242}

\* Endpoint 1 is asked for whatever the index, but not if the endpoint at the
\* index is unused or Green Power.  Behind the array any byte may be read.
LoopCluster ==
  /\ Entry.state = "getCluster"
  /\ epIndex' = (epIndex + 1) % 256
  /\ beyond' = (beyond \/ epIndex' \notin 1..MaxEndpoints)
  /\ \E wanted \in IF epIndex' \in 1..MaxEndpoints
                    THEN {UsedEndpoint(Entry.eps[epIndex'].id)} ELSE BOOLEAN :
       h' = IF wanted
            THEN [h EXCEPT !.at = "ask", !.kind = "descriptor", !.try = 1] ELSE Idle

LoopClusters(kind, todo) ==
  /\ h' = [h EXCEPT !.at = "next", !.kind = kind, !.todo = todo]
  /\ UNCHANGED indexVars

LoopOther ==
  /\ Entry.state \in {"null", "active"}
  /\ h' = Idle
  /\ IF Entry.state = "active" THEN IndexReset ELSE UNCHANGED indexVars

\* The top of the loop.
Loop ==
  /\ h.at = "loop"
  /\ \/ LoopNew
     \/ LoopCluster
     \/ /\ Entry.state = "readAttr"
        /\ LoopClusters("readAttr", Positions(Entry, {"basic"}))
     \/ Entry.state = "bind" /\ LoopClusters("bind", Positions(Entry, Used))
     \/ LoopOther
  /\ UNCHANGED <<envVars, queue, tableVars, timed, broken, faults>>

\* The question was not sent, or no answer came within a second.
Failed ==
  IF h.try = 1
  THEN h' = [h EXCEPT !.at = "ask", !.try = 2] /\ UNCHANGED table
  ELSE \/ /\ h.kind = "activeEp"
          /\ table' = [table EXCEPT ![h.slot] =
                          [Entry EXCEPT !.epCount = 1, !.state = "getCluster"]]
          /\ h' = Begin(h.slot)
       \/ h.kind = "descriptor" /\ h' = Idle /\ UNCHANGED table
       \/ h.kind = "readAttr" /\ h' = [h EXCEPT !.at = "next"] /\ UNCHANGED table

\* The device at address n, if it can answer this question.
Asked(kind, n) ==
  {d \in Devices : /\ n # None /\ net[d] = n
                   /\ kind \in {"descriptor", "readAttr"} => 1 \in Range(EndpointsOf[d])}

\* A question to address n, of which the answer may be lost.
Question(kind, n, answered) ==
  air' = IF answered THEN air (+) SetToBag({Msg(kind, d, n) : d \in Asked(kind, n)}) ELSE air
Fault(happens) ==
  /\ happens => faults < MaxFaults
  /\ faults' = IF happens THEN faults + 1 ELSE faults

\* eActiveEndpointRequest, eSimpleDescriptorRequest, eReadAttributeRequest: the
\* question or the coordinator's status may be lost.
Ask ==
  /\ h.at = "ask"
  /\ \E answered, confirmed \in BOOLEAN :
       /\ Question(h.kind, Entry.node, answered)
       /\ Fault(~answered \/ ~confirmed)
       /\ IF confirmed THEN h' = [h EXCEPT !.at = "wait", !.woken = FALSE] /\ UNCHANGED table
          ELSE Failed
  /\ UNCHANGED <<net, joins, gone, queue, attrs, joinNode, indexVars, timed, broken>>

\* eSL_MessageWait returns E_SL_OK, without a message if the event bit is stale.
Wake ==
  /\ h.at = "wait"
  /\ Fault(~h.woken)
  /\ h' = IF h.kind = "readAttr" THEN [h EXCEPT !.at = "next"] ELSE Idle
  /\ UNCHANGED <<envVars, queue, tableVars, indexVars, timed, broken>>

\* A second has passed; an answer on its way is late.
Timeout ==
  /\ h.at = "wait"
  /\ ~h.woken
  /\ Fault(\E m \in BagToSet(air) : m.kind = h.kind)
  /\ Failed
  /\ UNCHANGED <<envVars, queue, attrs, joinNode, indexVars, timed, broken>>

\* tZDM_AddNewAttributeToAttributeTable for the attributes as of cluster p: it
\* counts them in the cluster of the first entry with the node's address.
AddAttributes(p, as) ==
  LET s == FindNode(Entry.node)
      i == IF s = 0 THEN 0 ELSE FindEndpoint(s, p.ep)
  IN  /\ attrs' = Added(Entry, p.ep, p.cluster, as)
      /\ broken' = IF attrs' # attrs /\ (i = 0 \/ p.cluster \notin Range(table[s].eps[i].clusters))
                   THEN "pointer" ELSE broken

\* Whatever became of the question, the loop takes up the next cluster.
ReadCluster ==
  /\ h.at = "next" /\ h.kind = "readAttr" /\ h.todo # <<>>
  /\ AddAttributes(Head(h.todo), <<"model">>)
  /\ h' = [h EXCEPT !.at = "ask", !.try = 1, !.todo = Tail(@)]
  /\ UNCHANGED <<table, indexVars>>

ReadEnds ==
  /\ h.at = "next" /\ h.kind = "readAttr" /\ h.todo = <<>>
  /\ h' = Idle
  /\ UNCHANGED <<tableVars, indexVars, broken>>

\* What becomes of the bind request does not matter.
BindCluster ==
  /\ h.at = "next" /\ h.kind = "bind" /\ h.todo # <<>>
  /\ AddAttributes(Head(h.todo), BoundAttributes(Head(h.todo).cluster, Head(h.todo).type))
  /\ h' = [h EXCEPT !.todo = Tail(@)]
  /\ UNCHANGED <<table, indexVars>>

BindEnds ==
  /\ h.at = "next" /\ h.kind = "bind" /\ h.todo = <<>>
  /\ table' = [table EXCEPT ![h.slot].state = "active"]
  /\ IndexReset
  /\ h' = Idle
  /\ UNCHANGED <<attrs, broken>>

Clusters ==
  /\ ReadCluster \/ ReadEnds \/ BindCluster \/ BindEnds
  /\ UNCHANGED <<envVars, joinNode, queue, timed, faults>>

-----------------------------------------------------------------------------
(* The handlers.  Each takes one message from the callback queue.          *)

Taken(kind) ==
  /\ h.at = "idle"
  /\ queue # <<>>
  /\ Head(queue).kind = kind
  /\ queue' = Tail(queue)
  /\ UNCHANGED <<net, joins, gone>>

NeverKnown(d) == 0 = 0  \* a bug: every announcement adds an entry
IeeeUnknown(d) == FindIeee(d) = 0

\* ZCB_HandleDeviceAnnounce
HandleAnnounce ==
  /\ Taken("announce")
  /\ LET m == Head(queue)
     IN  IF IeeeUnknown(m.from) /\ FreeSlot # 0
         THEN /\ table' = [table EXCEPT ![FreeSlot] =
                              [Blank EXCEPT !.node = m.node, !.ieee = m.from, !.state = "new"]]
              /\ joinNode' = [joinNode EXCEPT ![m.from] = m.node]
              /\ h' = Begin(FreeSlot)
         ELSE UNCHANGED <<table, joinNode, h>>
  /\ UNCHANGED <<air, attrs, indexVars, timed, broken, faults>>

\* ZCB_HandleDeviceLeave
HandleLeave ==
  /\ Taken("leave")
  /\ LET s == FindIeee(Head(queue).from)
     IN  IF s = 0 THEN UNCHANGED <<table, attrs, broken>>
         ELSE /\ EraseAttributes(table[s].node)
              /\ table' = [table EXCEPT ![s] = Blank]
  /\ UNCHANGED <<air, joinNode, indexVars, h, timed, faults>>

\* The endpoints of an entry with the ids of an answer.
Numbered(eps, ids) ==
  [i \in 1..MaxEndpoints |->
    IF i <= Len(ids) THEN [eps[i] EXCEPT !.id = ids[i]] ELSE eps[i]]

\* ZCB_HandleActiveEndPointResp.  Nothing bounds the number of endpoints.
HandleActiveEp ==
  /\ Taken("activeEp")
  /\ LET m   == Head(queue)
         s   == FindNode(m.node)
         ids == EndpointsOf[m.from]
     IN  IF s = 0 \/ ~Interviewed(s) THEN UNCHANGED <<table, h, broken>>
         ELSE IF Len(ids) > MaxEndpoints THEN broken' = "overrun" /\ UNCHANGED <<table, h>>
         ELSE /\ table' = [table EXCEPT ![s] = [table[s] EXCEPT
                    !.eps = Numbered(@, ids),
                    !.epCount = Len(ids),
                    !.state = "getCluster"]]
              /\ h' = Begin(s)
              /\ UNCHANGED broken
  /\ UNCHANGED <<air, attrs, joinNode, indexVars, timed, faults>>

Described(eps, i, type, clusters) ==
  [eps EXCEPT ![i] = [@ EXCEPT !.type = type, !.clusters = clusters]]

\* ZCB_HandleSimpleDescriptorResponse, always of endpoint 1.  Neither the entry
\* nor the endpoint is compared with NULL.
HandleDescriptor ==
  /\ Taken("descriptor")
  /\ LET m    == Head(queue)
         s    == FindNode(m.node)
         i    == IF s = 0 THEN 0 ELSE FindEndpoint(s, 1)
         kept == Only(ClustersOf[m.from], Used)
     IN  IF s # 0 /\ ~Interviewed(s) THEN UNCHANGED <<table, h, broken>>
         ELSE IF i = 0 THEN broken' = "pointer" /\ UNCHANGED <<table, h>>
         ELSE IF Len(kept) > MaxClusters THEN broken' = "overrun" /\ UNCHANGED <<table, h>>
         ELSE /\ table' = [table EXCEPT ![s] = [table[s] EXCEPT
                    !.eps = Described(@, i, TypeOf[m.from], kept),
                    !.state = IF table[s].eps[1].id = 1 THEN "readAttr" ELSE "getCluster"]]
              /\ h' = Begin(s)
              /\ UNCHANGED broken
  /\ UNCHANGED <<air, attrs, joinNode, indexVars, timed, faults>>

\* ZCB_HandleReadAttrResp: the model id of the basic cluster of endpoint 1.
HandleReadAttr ==
  /\ Taken("readAttr")
  /\ LET n == Head(queue).node
         s == FindNode(n)
     IN  IF ~FindAttribute(n, 1, "basic", "model") THEN UNCHANGED <<table, h, broken>>
         ELSE IF s = 0 THEN broken' = "pointer" /\ UNCHANGED <<table, h>>
         ELSE IF ~Interviewed(s) THEN UNCHANGED <<table, h, broken>>
         ELSE /\ table' = [table EXCEPT ![s].state = "bind"]
              /\ h' = Begin(s)
              /\ UNCHANGED broken
  /\ UNCHANGED <<air, attrs, joinNode, indexVars, timed, faults>>

\* ZCB_HandleAttributeReport.  A report with an entry in attributeTable goes to
\* the bridge manager.  No device is ever off line: see TimerExpires.
HandleReport ==
  /\ Taken("report")
  /\ LET n == Head(queue).node
     IN  IF FindNode(n) = 0
         THEN /\ \E answered \in BOOLEAN :
                   Question("ieeeAddr", n, answered) /\ Fault(~answered)
              /\ UNCHANGED timed
         ELSE timed' = timed \cup {FindNode(n)} /\ UNCHANGED <<air, faults>>
  /\ UNCHANGED <<tableVars, indexVars, h, broken>>

\* a bug: an active device is left alone here too
MovedInInterview(s, n) == IF Interviewed(s) THEN [table EXCEPT ![s].node = n] ELSE table
Moved(s, n) == [table EXCEPT ![s].node = n]

\* ZCB_HandleIeeeAddressReponse
HandleIeeeAddr ==
  /\ Taken("ieeeAddr")
  /\ LET m == Head(queue)
         s == FindIeee(m.from)
     IN  table' = IF s = 0 THEN table ELSE Moved(s, m.node)
  /\ UNCHANGED <<air, attrs, joinNode, indexVars, h, timed, broken, faults>>

-----------------------------------------------------------------------------
\* serialCallbackTask
Callback ==
  \/ Loop \/ Ask \/ Wake \/ Timeout \/ Clusters
  \/ HandleAnnounce \/ HandleLeave \/ HandleActiveEp \/ HandleDescriptor
  \/ HandleReadAttr \/ HandleReport \/ HandleIeeeAddr

Network ==
  \/ \E d \in Devices, n \in Nodes : Join(d, n)
  \/ \E d \in Devices : Leave(d) \/ Report(d)

\* Nothing is said of what follows once memory was corrupted.
Next ==
  /\ broken = "no"
  /\ \/ Callback \/ Network \/ ErasePersistentData
     \/ \E m \in BagToSet(air) : Arrive(m)
     \/ \E s \in timed : TimerExpires(s)

Spec == Init /\ [][Next]_vars

\* The reader and callback tasks run, and a device reports time and again.
FairSpec ==
  /\ Spec
  /\ WF_vars(broken = "no" /\ Callback)
  /\ WF_vars(broken = "no" /\ \E m \in BagToSet(air) : Arrive(m))
  /\ \A d \in Reporting : SF_vars(broken = "no" /\ Report(d))

-----------------------------------------------------------------------------
(* Properties.                                                             *)

AttributeNames == {"model", "onoff", "currentLevel", "temperature", "x", "y", "measured",
                   "occupancy"}
States == {"null", "new", "getCluster", "readAttr", "bind", "active"}
EndpointType == [id : 0..255, type : {"other", "colorTemp", "colorExt"},
                 clusters : Seq(Used)]
EntryType == [node : Nodes \cup {None}, ieee : Devices \cup {None}, state : States,
              epCount : 0..MaxEndpoints, eps : [1..MaxEndpoints -> EndpointType]]
AttributeType == [node : Nodes, ep : 1..242, cluster : Used, attr : AttributeNames]
TypeOK ==
  /\ net \in [Devices -> Nodes \cup {None}]
  /\ IsABag(air) /\ BagToSet(air) \subseteq Messages
  /\ queue \in Seq(Messages) /\ Len(queue) <= QueueSize
  /\ table \in [Slots -> EntryType]
  /\ attrs \in Seq(AttributeType)
  /\ Len(attrs) <= MaxAttributes
  /\ epIndex \in 0..255 /\ beyond \in BOOLEAN
  /\ h.at \in {"idle", "loop", "ask", "wait", "next"}
  /\ h.at # "idle" => h.slot \in Slots
  /\ timed \subseteq Slots
  /\ broken \in {"no", "pointer", "overrun", "timer"}
  /\ joinNode \in [Devices -> Nodes \cup {None}]
  /\ joins \in 0..MaxJoins /\ gone \in 0..MaxGone /\ faults \in 0..MaxFaults

\* No device has two entries, whatever it announces while the host is busy, has
\* lost its table or still holds its leave in the queue (ZCB_HandleDeviceAnnounce).
IeeeDistinct ==
  \A s, t \in Slots : table[s].ieee = table[t].ieee => s = t \/ table[s].ieee = None

\* Late, repeated or unexpected answers never send an active device back into
\* the interview: it stays active until its entry is erased (the tests of
\* eDeviceState in the handlers of zcb.c).
ActiveStaysActive ==
  [][\A s \in Slots :
       table[s].state = "active" /\ table[s].node # None =>
         table'[s].state = "active" \/ table'[s] = Blank]_vars

\* attributeTable keeps nothing of a device that left or was erased, even while
\* the handler that adds entries waits (bZDM_EraseDeviceFromDeviceTable,
\* vZDM_ClearAllDeviceTables).  A device that changed its address leaves some.
MayMove(d) == Cardinality(AddressesOf[d]) > 1
AttributesHaveDevice ==
  \A i \in DOMAIN attrs :
    \/ FindNode(attrs[i].node) # 0
    \/ \E d \in Devices : MayMove(d) /\ attrs[i].node \in AddressesOf[d]

\* The entries and endpoints that the handlers of answers use without a test
\* exist, unless a device left, changed its address or was erased meanwhile, or
\* an endpoint was taken from behind the array.
PointersGood ==
  broken = "pointer" => gone > 0 \/ beyond \/ \E d \in Devices : MayMove(d)

\* The attributes a device was bound for can be found when it reports them, else
\* the report is dropped.  A device that leaves takes those of others along, and
\* those of one that changed its address are found no more.
ReportsAreKnown ==
  \A s \in Slots : LET e == table[s] IN
    gone = 0 /\ e.state = "active" /\ e.node = joinNode[e.ieee] =>
      \A i \in 1..e.epCount : \A c \in Range(e.eps[i].clusters) :
        \A a \in Range(BoundAttributes(c, e.eps[i].type)) :
          FindAttribute(e.node, e.eps[i].id, c, a)

IsActive(d) == FindIeee(d) # 0 /\ table[FindIeee(d)].state = "active"

\* A device that joined becomes active, though one question or answer is lost,
\* if nothing else happens meanwhile.
JoinedBecomesActive ==
  \A d \in Devices : net[d] # None ~> net[d] = None \/ IsActive(d) \/ broken # "no"

Follows(d) == FindIeee(d) # 0 /\ table[FindIeee(d)].node = net[d]

\* A device that comes back with another address is found under it once it has
\* reported (ZCB_HandleAttributeReport, ZCB_HandleIeeeAddressReponse).
AddressFollows ==
  \A d \in Reporting : net[d] # None ~> net[d] = None \/ Follows(d) \/ broken # "no"
=============================================================================
