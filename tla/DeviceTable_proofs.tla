-------------------------- MODULE DeviceTable_proofs --------------------------
(***************************************************************************)
(* Proofs about the device table and the interview, for every number of    *)
(* devices, endpoints, clusters, attributes, losses and leaves.            *)
(***************************************************************************)
EXTENDS DeviceTable, DataLemmas, FiniteSetTheorems

-----------------------------------------------------------------------------
(* The operators of the model.                                             *)

\* Earliest finds the least index of a set, or 0 if there is none.
LEMMA EarliestFound ==
  ASSUME NEW S \in SUBSET (Nat \ {0})
  PROVE  /\ S = {} <=> Earliest(S) = 0
         /\ S # {} => Earliest(S) \in S /\ \A i \in S : Earliest(S) <= i
<1>1. CASE S = {}
  BY <1>1 DEF Earliest
<1>2. CASE S # {}
  <2>1. S \in SUBSET Nat /\ 0 \notin S
    OBVIOUS
  <2>2. Earliest(S) \in S /\ \A i \in S : Earliest(S) <= i
    BY <1>2, <2>1, MinOfNats DEF Earliest
  <2>. QED  BY <1>2, <2>1, <2>2
<1>. QED  BY <1>1, <1>2

LEMMA SlotsFound ==
  ASSUME NEW n, NEW d
  PROVE  /\ FindNode(n) = 0 <=> \A s \in Slots : ~ (ValidNode(n) /\ table[s].node = n)
         /\ FindNode(n) # 0 =>
              FindNode(n) \in Slots /\ ValidNode(n) /\ table[FindNode(n)].node = n
         /\ FindIeee(d) = 0 <=> \A s \in Slots : table[s].ieee # d
         /\ FindIeee(d) # 0 => FindIeee(d) \in Slots /\ table[FindIeee(d)].ieee = d
         /\ FreeSlot # 0 => FreeSlot \in Slots /\ table[FreeSlot].node = None
<1>1. Slots \subseteq Nat \ {0}
  BY SizesAssumption DEF Slots
<1> DEFINE N == {s \in Slots : ValidNode(n) /\ table[s].node = n}
           I == {s \in Slots : table[s].ieee = d}
           F == {s \in Slots : table[s].node = None}
<1>2. N \in SUBSET (Nat \ {0}) /\ I \in SUBSET (Nat \ {0}) /\ F \in SUBSET (Nat \ {0})
  BY <1>1
<1>3. FindNode(n) = Earliest(N) /\ FindIeee(d) = Earliest(I) /\ FreeSlot = Earliest(F)
  BY DEF FindNode, FindIeee, FreeSlot
<1>4. /\ N = {} <=> Earliest(N) = 0
      /\ N # {} => Earliest(N) \in N
  BY <1>2, EarliestFound, Zenon
<1>5. /\ I = {} <=> Earliest(I) = 0
      /\ I # {} => Earliest(I) \in I
  BY <1>2, EarliestFound, Zenon
<1>6. /\ F = {} <=> Earliest(F) = 0
      /\ F # {} => Earliest(F) \in F
  BY <1>2, EarliestFound, Zenon
<1>. QED  BY <1>3, <1>4, <1>5, <1>6

LEMMA EndpointFound ==
  ASSUME NEW s, NEW ep
  PROVE  /\ FindEndpoint(s, ep) = 0 <=>
              \A i \in 1..MaxEndpoints : ~ (ValidEndpoint(ep) /\ table[s].eps[i].id = ep)
         /\ FindEndpoint(s, ep) # 0 =>
              /\ FindEndpoint(s, ep) \in 1..MaxEndpoints
              /\ table[s].eps[FindEndpoint(s, ep)].id = ep
              /\ \A i \in 1..MaxEndpoints :
                   table[s].eps[i].id = ep => FindEndpoint(s, ep) <= i
<1> DEFINE S == {i \in 1..MaxEndpoints : ValidEndpoint(ep) /\ table[s].eps[i].id = ep}
<1>1. S \in SUBSET (Nat \ {0})
  BY SizesAssumption
<1>2. /\ S = {} <=> Earliest(S) = 0
      /\ S # {} => Earliest(S) \in S /\ \A i \in S : Earliest(S) <= i
  BY <1>1, EarliestFound, Zenon
<1>3. FindEndpoint(s, ep) = Earliest(S)
  BY DEF FindEndpoint
<1>. QED  BY <1>2, <1>3

\* Messages added to a bag of messages, and one taken from it.
LEMMA BagAdds ==
  ASSUME NEW B, NEW S, IsABag(B)
  PROVE  /\ IsABag(B (+) SetToBag(S))
         /\ BagToSet(B (+) SetToBag(S)) = BagToSet(B) \cup S
BY DEF IsABag, BagToSet, SetToBag, (+)

LEMMA BagTakes ==
  ASSUME NEW B, NEW S, IsABag(B)
  PROVE  /\ IsABag(B (-) SetToBag(S))
         /\ BagToSet(B (-) SetToBag(S)) \subseteq BagToSet(B)
BY DEF IsABag, BagToSet, SetToBag, (-)

\* Only keeps entries of s, and only those in S.
LEMMA OnlyType ==
  ASSUME NEW T, NEW s \in Seq(T), NEW S
  PROVE  Only(s, S) \in Seq({s[i] : i \in DOMAIN s} \cap S)
<1> DEFINE R == {s[i] : i \in DOMAIN s} \cap S
           parts == [i \in DOMAIN s |-> IF s[i] \in S THEN <<s[i]>> ELSE <<>>]
<1>1. Len(s) \in Nat /\ DOMAIN s = 1..Len(s)
  BY LenProperties
<1>2. ASSUME NEW i \in DOMAIN s
      PROVE  (IF s[i] \in S THEN <<s[i]>> ELSE <<>>) \in Seq(R)
  <2>1. CASE s[i] \in S
    <3>1. s[i] \in R
      BY <2>1
    <3> HIDE DEF R
    <3>2. <<s[i]>> \in Seq(R)
      BY <3>1
    <3>. QED  BY <2>1, <3>2
  <2>2. CASE s[i] \notin S
    BY <2>2
  <2>. QED  BY <2>1, <2>2
<1>3. parts \in [1..Len(s) -> Seq(R)]
  <2> HIDE DEF R
  <2>. QED  BY <1>1, <1>2
<1>4. parts \in Seq(Seq(R))
  <2> HIDE DEF R, parts
  <2>. QED  BY <1>1, <1>3, SeqDef
<1>5. FlattenSeq(parts) \in Seq(R)
  BY <1>4, FlattenSeqType, Zenon
<1>. QED  BY <1>5 DEF Only

\* Only keeps the entries of s that are in S.
LEMMA OnlyRange ==
  ASSUME NEW T, NEW s \in Seq(T), NEW S, NEW i \in DOMAIN s, s[i] \in S
  PROVE  s[i] \in Range(Only(s, S))
<1> DEFINE parts == [j \in DOMAIN s |-> IF s[j] \in S THEN <<s[j]>> ELSE <<>>]
<1>1. Len(s) \in Nat /\ DOMAIN s = 1..Len(s) /\ \A j \in DOMAIN s : s[j] \in T
  BY LenProperties, ElementOfSeq
<1>2. parts \in [1..Len(s) -> Seq(T)]
  BY <1>1
<1>3. DOMAIN parts = DOMAIN s /\ parts[i] = <<s[i]>>
  OBVIOUS
<1> HIDE DEF parts
<1>4. parts \in Seq(Seq(T))
  BY <1>1, <1>2, SeqDef
<1>5. i \in DOMAIN parts /\ s[i] \in Range(parts[i])
  BY <1>3 DEF Range
<1>6. Range(parts[i]) \subseteq Range(FlattenSeq(parts))
  BY <1>4, <1>5, FlattenSeqRange
<1>. QED  BY <1>5, <1>6 DEF Only, parts

-----------------------------------------------------------------------------
(* The type invariant.                                                     *)

DeviceTypes == {"other", "colorTemp", "colorExt"}
Position == [ep : 0..255, cluster : Used, type : DeviceTypes]
HandlerType ==
  [at : {"idle", "loop", "ask", "wait", "next"}, slot : 0..MaxDevices,
   kind : {"none", "activeEp", "descriptor", "readAttr", "bind"}, try : 0..2,
   todo : Seq(Position), woken : BOOLEAN]

\* Every message is from a device that may have the address it gives.
Sent == {m \in Messages : m.node \in AddressesOf[m.from]}

\* TypeOK, with the type of the handler and the senders of the messages.
TypeInv ==
  /\ TypeOK
  /\ BagToSet(air) \subseteq Sent
  /\ queue \in Seq(Sent)
  /\ \A d \in Devices : net[d] # None => net[d] \in AddressesOf[d]
  /\ h \in HandlerType
  /\ h.at = "idle" => h = Idle
  /\ h.at \in {"ask", "wait"} => h.kind \in {"activeEp", "descriptor", "readAttr"}

\* The positions of an entry are its endpoints' clusters.
LEMMA PositionsType ==
  ASSUME NEW e \in EntryType, NEW S \in SUBSET Used
  PROVE  Positions(e, S) \in
           Seq({p \in Position :
                  \E i \in 1..e.epCount :
                    /\ p.ep = e.eps[i].id
                    /\ \E j \in DOMAIN e.eps[i].clusters :
                         p.cluster = e.eps[i].clusters[j]})
<1> DEFINE T == {p \in Position :
                  \E i \in 1..e.epCount :
                    /\ p.ep = e.eps[i].id
                    /\ \E j \in DOMAIN e.eps[i].clusters :
                         p.cluster = e.eps[i].clusters[j]}
           CS(i) == Only(e.eps[i].clusters, S)
           P(i) == [j \in DOMAIN CS(i) |->
                     [ep |-> e.eps[i].id, cluster |-> CS(i)[j], type |-> e.eps[i].type]]
           parts == [i \in 1..e.epCount |-> P(i)]
<1>1. e.epCount \in Nat /\ 1..e.epCount \subseteq 1..MaxEndpoints
  BY SizesAssumption DEF EntryType
<1>2. ASSUME NEW i \in 1..e.epCount
      PROVE  P(i) \in Seq(T)
  <2>1. e.eps[i] \in EndpointType
    BY <1>1 DEF EntryType
  <2>2. e.eps[i].clusters \in Seq(Used) /\ e.eps[i].id \in 0..255 /\ e.eps[i].type \in DeviceTypes
    BY <2>1 DEF EndpointType, DeviceTypes
  <2> DEFINE R == {e.eps[i].clusters[j] : j \in DOMAIN e.eps[i].clusters} \cap S
  <2>3. CS(i) \in Seq(R)
    BY <2>2, OnlyType
  <2> HIDE DEF CS, R
  <2>4. Len(CS(i)) \in Nat /\ DOMAIN CS(i) = 1..Len(CS(i))
    BY <2>3, LenProperties
  <2>5. ASSUME NEW j \in DOMAIN CS(i)
        PROVE  [ep |-> e.eps[i].id, cluster |-> CS(i)[j], type |-> e.eps[i].type] \in T
    <3>1. CS(i)[j] \in R
      BY <2>3, <2>4, <2>5, ElementOfSeq
    <3>2. CS(i)[j] \in Used /\ \E k \in DOMAIN e.eps[i].clusters : CS(i)[j] = e.eps[i].clusters[k]
      BY <3>1 DEF R
    <3>. QED  BY <2>2, <3>2 DEF Position
  <2> HIDE DEF T
  <2>6. P(i) \in [1..Len(CS(i)) -> T]
    BY <2>4, <2>5
  <2> HIDE DEF P
  <2>. QED  BY <2>4, <2>6, SeqDef
<1> HIDE DEF T, P
<1>3. parts \in [1..e.epCount -> Seq(T)]
  BY <1>2
<1>4. parts \in Seq(Seq(T))
  <2> HIDE DEF parts
  <2>. QED  BY <1>1, <1>3, SeqDef
<1>5. FlattenSeq(parts) \in Seq(T)
  BY <1>4, FlattenSeqType, Zenon
<1>6. Positions(e, S) = FlattenSeq(parts)
  BY DEF Positions, P, CS
<1>. QED  BY <1>5, <1>6 DEF T

\* The loops over an entry's endpoints and their clusters meet every wanted one.
LEMMA PositionsRange ==
  ASSUME NEW e \in EntryType, NEW S \in SUBSET Used,
         NEW i \in 1..e.epCount, NEW j \in DOMAIN e.eps[i].clusters,
         e.eps[i].clusters[j] \in S
  PROVE  [ep |-> e.eps[i].id, cluster |-> e.eps[i].clusters[j], type |-> e.eps[i].type]
           \in Range(Positions(e, S))
<1> DEFINE CS(l) == Only(e.eps[l].clusters, S)
           P(l) == [m \in DOMAIN CS(l) |->
                     [ep |-> e.eps[l].id, cluster |-> CS(l)[m], type |-> e.eps[l].type]]
           parts == [l \in 1..e.epCount |-> P(l)]
<1>1. e.epCount \in Nat /\ 1..e.epCount \subseteq 1..MaxEndpoints
  BY SizesAssumption DEF EntryType
<1>2. \A l \in 1..e.epCount :
        /\ e.eps[l].clusters \in Seq(Used) /\ e.eps[l].id \in 0..255
        /\ e.eps[l].type \in DeviceTypes
  BY <1>1 DEF EntryType, EndpointType, DeviceTypes
<1>3. ASSUME NEW l \in 1..e.epCount
      PROVE  P(l) \in Seq(Position)
  <2> DEFINE R == {e.eps[l].clusters[m] : m \in DOMAIN e.eps[l].clusters} \cap S
  <2>1. CS(l) \in Seq(R)
    BY <1>2, OnlyType
  <2>2. R \subseteq Used
    OBVIOUS
  <2> HIDE DEF CS, R
  <2>3. /\ Len(CS(l)) \in Nat /\ DOMAIN CS(l) = 1..Len(CS(l))
        /\ \A m \in DOMAIN CS(l) : CS(l)[m] \in Used
    BY <2>1, <2>2, LenProperties, ElementOfSeq
  <2>4. P(l) \in [1..Len(CS(l)) -> Position]
    BY <1>2, <2>3 DEF Position
  <2> HIDE DEF P
  <2>. QED  BY <2>3, <2>4, SeqDef
<1>4. PICK m \in DOMAIN CS(i) : CS(i)[m] = e.eps[i].clusters[j]
  BY <1>2, OnlyRange DEF Range
<1> HIDE DEF CS
<1>5. [ep |-> e.eps[i].id, cluster |-> e.eps[i].clusters[j], type |-> e.eps[i].type]
        \in Range(P(i))
  BY <1>4 DEF Range
<1> HIDE DEF P
<1>6. parts[i] = P(i) /\ i \in DOMAIN parts
  OBVIOUS
<1>7. parts \in [1..e.epCount -> Seq(Position)]
  BY <1>3
<1>8. Positions(e, S) = FlattenSeq(parts)
  BY DEF Positions, P, CS
<1> HIDE DEF parts
<1>9. parts \in Seq(Seq(Position))
  BY <1>1, <1>7, SeqDef
<1>10. Range(parts[i]) \subseteq Range(FlattenSeq(parts))
  BY <1>6, <1>9, FlattenSeqRange
<1>. QED  BY <1>5, <1>6, <1>8, <1>10

\* Every used message of the queue, and the rest of the queue.
LEMMA QueueTakes ==
  ASSUME TypeInv, queue # <<>>
  PROVE  /\ Head(queue) \in Sent
         /\ Tail(queue) \in Seq(Sent)
         /\ Len(Tail(queue)) = Len(queue) - 1
BY HeadTailProperties, EmptySeq DEF TypeInv

LEMMA InitType == Init => TypeInv
<1> SUFFICES ASSUME Init PROVE TypeInv
  OBVIOUS
<1> USE DEF Init
<1>1. IsABag(air) /\ BagToSet(air) = {}
  BY DEF EmptyBag, IsABag, BagToSet, SetToBag
<1>2. NoEndpoint \in EndpointType
  BY EmptySeq DEF NoEndpoint, EndpointType
<1>3. Blank \in EntryType
  <2> HIDE DEF NoEndpoint, EndpointType
  <2>. QED  BY <1>2, SizesAssumption DEF Blank, EntryType, States
<1>4. table \in [Slots -> EntryType]
  BY <1>3, Zenon
<1>5. Idle \in HandlerType /\ Idle.at = "idle"
  BY SizesAssumption, EmptySeq DEF Idle, HandlerType
<1>6. /\ attrs \in Seq(AttributeType) /\ Len(attrs) = 0
      /\ queue \in Seq(Sent) /\ queue \in Seq(Messages) /\ Len(queue) = 0
  BY EmptySeq
<1>7. /\ net \in [Devices -> Nodes \cup {None}] /\ joinNode \in [Devices -> Nodes \cup {None}]
      /\ \A d \in Devices : net[d] = None
  OBVIOUS
<1>8. /\ epIndex \in 0..255 /\ beyond \in BOOLEAN /\ timed \subseteq Slots
      /\ broken \in {"no", "pointer", "overrun", "timer"}
      /\ joins \in 0..MaxJoins /\ gone \in 0..MaxGone /\ faults \in 0..MaxFaults
      /\ h = Idle
  <2>1. MaxJoins \in Nat /\ MaxGone \in Nat /\ MaxFaults \in Nat
    BY SizesAssumption
  <2>2. joins = 0 /\ gone = 0 /\ faults = 0 /\ epIndex = 0
    OBVIOUS
  <2>3. /\ joins \in 0..MaxJoins /\ gone \in 0..MaxGone /\ faults \in 0..MaxFaults
        /\ epIndex \in 0..255
    <3> HIDE DEF Init
    <3>. QED  BY <2>1, <2>2
  <2>4. h = Idle /\ timed \subseteq Slots
    BY Zenon
  <2>5. beyond \in BOOLEAN
    OBVIOUS
  <2>6. broken \in {"no", "pointer", "overrun", "timer"}
    OBVIOUS
  <2>. QED  BY <2>3, <2>4, <2>5, <2>6
<1> HIDE DEF Init
<1>9. TypeOK
  <2>1. Len(attrs) <= MaxAttributes /\ Len(queue) <= QueueSize
    BY <1>6, SizesAssumption
  <2>2. BagToSet(air) \subseteq Messages
    BY <1>1
  <2>3. /\ h.at \in {"idle", "loop", "ask", "wait", "next"}
        /\ h.at # "idle" => h.slot \in Slots
    BY <1>5, <1>8
  <2>. QED  BY <1>1, <1>4, <1>6, <1>7, <1>8, <2>1, <2>2, <2>3, Zenon DEF TypeOK
<1>10. /\ h \in HandlerType
       /\ h.at \in {"ask", "wait"} => h.kind \in {"activeEp", "descriptor", "readAttr"}
  BY <1>5, <1>8
<1>. QED  BY <1>1, <1>6, <1>7, <1>8, <1>9, <1>10 DEF TypeInv

\* What the device table's type says of the entry the handler works on.
LEMMA EntryTyped ==
  ASSUME TypeInv, h.at # "idle"
  PROVE  h.slot \in Slots /\ Entry \in EntryType /\ table[h.slot] = Entry
BY DEF TypeInv, TypeOK, Entry

\* A question adds answers from the address it went to.
LEMMA QuestionAsked ==
  ASSUME TypeInv, NEW kind \in Kinds, NEW n, NEW answered \in BOOLEAN,
         Question(kind, n, answered)
  PROVE  /\ IsABag(air)' /\ BagToSet(air') \subseteq Sent
         /\ \A m \in BagToSet(air') :
              \/ m \in BagToSet(air)
              \/ m.kind = kind /\ m.node = n /\ m.from \in Asked(kind, n)
<1>1. IsABag(air) /\ BagToSet(air) \subseteq Sent
  BY DEF TypeInv, TypeOK
<1>2. CASE ~ answered
  BY <1>1, <1>2 DEF Question
<1>3. CASE answered
  <2> DEFINE A == {Msg(kind, d, n) : d \in Asked(kind, n)}
  <2>1. air' = air (+) SetToBag(A)
    BY <1>3 DEF Question
  <2>2. IsABag(air') /\ BagToSet(air') = BagToSet(air) \cup A
    BY <1>1, <2>1, BagAdds
  <2>3. ASSUME NEW d \in Asked(kind, n)
        PROVE  Msg(kind, d, n) \in Sent
    <3>1. d \in Devices /\ net[d] = n /\ n # None
      BY DEF Asked
    <3>2. n \in AddressesOf[d] /\ n \in Nodes
      BY <3>1, DevicesAssumption DEF TypeInv, TypeOK
    <3>. QED  BY <3>1, <3>2 DEF Sent, Msg, Messages
  <2>. QED  BY <1>1, <2>2, <2>3 DEF Msg
<1>. QED  BY <1>2, <1>3

\* A device's message joins those on their way.
LEMMA SentInAir ==
  ASSUME TypeInv, NEW m \in Sent, air' = InAir(m)
  PROVE  IsABag(air)' /\ BagToSet(air') = BagToSet(air) \cup {m}
BY BagAdds DEF TypeInv, TypeOK, InAir

LEMMA NetworkStep ==
  ASSUME TypeInv, Next
  PROVE  /\ net' \in [Devices -> Nodes \cup {None}]
         /\ \A d \in Devices : net'[d] # None => net'[d] \in AddressesOf[d]
         /\ IsABag(air)' /\ BagToSet(air') \subseteq Sent
<1>1. /\ net \in [Devices -> Nodes \cup {None}]
      /\ \A d \in Devices : net[d] # None => net[d] \in AddressesOf[d]
      /\ IsABag(air) /\ BagToSet(air) \subseteq Sent
  BY DEF TypeInv, TypeOK
<1>2. CASE UNCHANGED <<net, air>>
  BY <1>1, <1>2
<1>3. ASSUME NEW d \in Devices, NEW n \in Nodes, Join(d, n)
      PROVE  /\ net' \in [Devices -> Nodes \cup {None}]
             /\ \A e \in Devices : net'[e] # None => net'[e] \in AddressesOf[e]
             /\ IsABag(air)' /\ BagToSet(air') \subseteq Sent
  <2>1. Msg("announce", d, n) \in Sent
    BY <1>3 DEF Join, Msg, Sent, Messages, Kinds
  <2>2. IsABag(air)' /\ BagToSet(air') \subseteq Sent
    BY <1>1, <1>3, <2>1, SentInAir DEF Join
  <2>. QED  BY <1>1, <1>3, <2>2 DEF Join
<1>4. ASSUME NEW d \in Devices, Leave(d)
      PROVE  /\ net' \in [Devices -> Nodes \cup {None}]
             /\ \A e \in Devices : net'[e] # None => net'[e] \in AddressesOf[e]
             /\ IsABag(air)' /\ BagToSet(air') \subseteq Sent
  <2>1. Msg("leave", d, net[d]) \in Sent
    BY <1>1, <1>4 DEF Leave, Msg, Sent, Messages, Kinds
  <2>2. IsABag(air)' /\ BagToSet(air') \subseteq Sent
    BY <1>1, <1>4, <2>1, SentInAir DEF Leave
  <2>. QED  BY <1>1, <1>4, <2>2 DEF Leave
<1>5. ASSUME NEW d \in Devices, Report(d)
      PROVE  /\ net' = net
             /\ IsABag(air)' /\ BagToSet(air') \subseteq Sent
  <2>1. Msg("report", d, net[d]) \in Sent
    BY <1>1, <1>5 DEF Report, Msg, Sent, Messages, Kinds
  <2>. QED  BY <1>1, <1>5, <2>1, SentInAir DEF Report
<1>6. ASSUME NEW m, Arrive(m)
      PROVE  /\ net' = net
             /\ IsABag(air)' /\ BagToSet(air') \subseteq Sent
  BY <1>1, <1>6, BagTakes DEF Arrive
<1>7. CASE ErasePersistentData
  <2>1. IsABag(air') /\ BagToSet(air') = {}
    BY <1>7 DEF ErasePersistentData, EmptyBag, IsABag, BagToSet, SetToBag
  <2>. QED  BY <1>7, <2>1 DEF ErasePersistentData
<1>8. CASE Ask
  <2>1. h.kind \in Kinds
    BY <1>8 DEF Ask, TypeInv, Kinds
  <2>. QED  BY <1>1, <1>8, <2>1, QuestionAsked DEF Ask
<1>9. CASE HandleReport
  <2>1. "ieeeAddr" \in Kinds
    BY DEF Kinds
  <2>2. net' = net
    BY <1>9 DEF HandleReport, Taken
  <2>3. CASE UNCHANGED air
    BY <1>1, <2>2, <2>3
  <2>4. CASE \E answered \in BOOLEAN : Question("ieeeAddr", Head(queue).node, answered)
    BY <1>1, <2>1, <2>2, <2>4, QuestionAsked
  <2>. QED  BY <1>9, <2>3, <2>4 DEF HandleReport
<1>10. Callback => UNCHANGED <<net, air>> \/ Ask \/ HandleReport
  BY DEF Callback, Loop, Wake, Timeout, Clusters, HandleAnnounce, HandleLeave, HandleActiveEp,
         HandleDescriptor, HandleReadAttr, HandleIeeeAddr, Taken, envVars
<1>11. \A s : TimerExpires(s) => UNCHANGED <<net, air>>
  BY DEF TimerExpires, envVars
<1>. QED
  BY <1>1, <1>2, <1>3, <1>4, <1>5, <1>6, <1>7, <1>8, <1>9, <1>10, <1>11 DEF Next, Network

\* The steps that take a message from the queue.
LEMMA HandlersTake ==
  ASSUME TypeInv,
         \E kind : Taken(kind)
  PROVE  /\ h = Idle /\ queue # <<>> /\ Head(queue) \in Sent
         /\ queue' = Tail(queue) /\ UNCHANGED <<net, joins, gone>>
BY QueueTakes DEF Taken, TypeInv

LEMMA QueueStep ==
  ASSUME TypeInv, Next
  PROVE  /\ queue' \in Seq(Sent) /\ queue' \in Seq(Messages)
         /\ Len(queue') <= QueueSize
<1>1. queue \in Seq(Sent) /\ Len(queue) <= QueueSize /\ BagToSet(air) \subseteq Sent
  BY DEF TypeInv, TypeOK
<1>2. Len(queue) \in Nat /\ QueueSize \in Nat
  BY <1>1, SizesAssumption, LenProperties
<1>3. CASE UNCHANGED queue
  BY <1>1, <1>3 DEF TypeInv, TypeOK
<1> SUFFICES queue' \in Seq(Sent) /\ Len(queue') <= QueueSize
  <2>1. Sent \subseteq Messages
    BY DEF Sent
  <2>2. ASSUME NEW q \in Seq(Sent) PROVE q \in Seq(Messages)
    BY <2>1, <2>2, ElementOfSeq, LenProperties, SeqDef
  <2>. QED  BY <2>2
<1>4. CASE \E kind : Taken(kind)
  BY <1>1, <1>2, <1>4, HandlersTake, QueueTakes
<1>5. ASSUME NEW m, Arrive(m)
      PROVE  queue' \in Seq(Sent) /\ Len(queue') <= QueueSize
  <2>1. m \in Sent
    BY <1>1, <1>5 DEF Arrive
  <2>2. CASE Len(queue) < QueueSize
    BY <1>1, <1>2, <1>5, <2>1, <2>2, AppendProperties DEF Arrive
  <2>. QED  BY <1>1, <1>5, <2>2 DEF Arrive
<1>6. Callback => UNCHANGED queue \/ \E kind : Taken(kind)
  BY DEF Callback, Loop, Ask, Wake, Timeout, Clusters, HandleAnnounce, HandleLeave,
         HandleActiveEp, HandleDescriptor, HandleReadAttr, HandleReport, HandleIeeeAddr, envVars
<1>7. Network \/ ErasePersistentData \/ (\E s : TimerExpires(s)) => UNCHANGED queue
  BY DEF Network, Join, Leave, Report, ErasePersistentData, TimerExpires
<1>. QED  BY <1>3, <1>4, <1>5, <1>6, <1>7 DEF Next

LEMMA BlankTyped == Blank \in EntryType
<1>1. NoEndpoint \in EndpointType
  BY EmptySeq DEF NoEndpoint, EndpointType
<1> HIDE DEF NoEndpoint, EndpointType
<1>. QED  BY <1>1, SizesAssumption DEF Blank, EntryType, States

LEMMA FailedFacts ==
  ASSUME TypeInv, Failed, h.at \in {"ask", "wait"}
  PROVE  \/ h' = [h EXCEPT !.at = "ask", !.try = 2] /\ table' = table
         \/ /\ h.kind = "activeEp" /\ h' = Begin(h.slot)
            /\ table' = [table EXCEPT ![h.slot] =
                            [Entry EXCEPT !.epCount = 1, !.state = "getCluster"]]
         \/ h' = Idle /\ table' = table
         \/ h.kind = "readAttr" /\ h' = [h EXCEPT !.at = "next"] /\ table' = table
BY Zenon DEF Failed

\* The endpoints after an answer.
LEMMA NumberedType ==
  ASSUME NEW eps \in [1..MaxEndpoints -> EndpointType], NEW ids \in Seq(0..255)
  PROVE  /\ Numbered(eps, ids) \in [1..MaxEndpoints -> EndpointType]
         /\ \A i \in 1..MaxEndpoints :
              /\ Numbered(eps, ids)[i].id = IF i <= Len(ids) THEN ids[i] ELSE eps[i].id
              /\ Numbered(eps, ids)[i].clusters = eps[i].clusters
<1>1. Len(ids) \in Nat /\ \A i \in 1..Len(ids) : ids[i] \in 0..255
  BY LenProperties, ElementOfSeq
<1> DEFINE new(i) == IF i <= Len(ids) THEN [eps[i] EXCEPT !.id = ids[i]] ELSE eps[i]
<1>2. ASSUME NEW i \in 1..MaxEndpoints
      PROVE  /\ new(i) \in EndpointType
             /\ new(i).id = IF i <= Len(ids) THEN ids[i] ELSE eps[i].id
             /\ new(i).clusters = eps[i].clusters
  <2>1. eps[i] \in EndpointType
    OBVIOUS
  <2>2. CASE i <= Len(ids)
    <3>1. ids[i] \in 0..255
      BY <1>1, <2>2, SizesAssumption
    <3>2. new(i) = [eps[i] EXCEPT !.id = ids[i]]
      BY <2>2
    <3> HIDE DEF new
    <3>3. new(i).id = ids[i] /\ new(i).clusters = eps[i].clusters /\ new(i) \in EndpointType
      BY <2>1, <3>1, <3>2 DEF EndpointType
    <3>. QED  BY <2>2, <3>3
  <2>3. CASE ~ (i <= Len(ids))
    BY <2>1, <2>3
  <2>. QED  BY <2>2, <2>3
<1>3. Numbered(eps, ids) = [i \in 1..MaxEndpoints |-> new(i)]
  BY DEF Numbered
<1> HIDE DEF new
<1>. QED  BY <1>2, <1>3

LEMMA DescribedType ==
  ASSUME NEW eps \in [1..MaxEndpoints -> EndpointType], NEW i \in 1..MaxEndpoints,
         NEW type \in DeviceTypes, NEW clusters \in Seq(Used)
  PROVE  /\ Described(eps, i, type, clusters) \in [1..MaxEndpoints -> EndpointType]
         /\ \A j \in 1..MaxEndpoints :
              /\ Described(eps, i, type, clusters)[j].id = eps[j].id
              /\ j # i => Described(eps, i, type, clusters)[j] = eps[j]
         /\ Described(eps, i, type, clusters)[i].clusters = clusters
<1> DEFINE new(r) == [r EXCEPT !.type = type, !.clusters = clusters]
<1>1. ASSUME NEW r \in EndpointType
      PROVE  new(r) \in EndpointType /\ new(r).id = r.id /\ new(r).clusters = clusters
  BY DEF EndpointType, DeviceTypes
<1>2. Described(eps, i, type, clusters) = [eps EXCEPT ![i] = new(eps[i])]
  BY DEF Described
<1> HIDE DEF new
<1>. QED  BY <1>1, <1>2

\* An answer with the ids of the endpoints.
LEMMA ActiveEpFacts ==
  ASSUME TypeInv, HandleActiveEp
  PROVE  \/ UNCHANGED <<table, h>>
         \/ LET s   == FindNode(Head(queue).node)
                ids == EndpointsOf[Head(queue).from]
            IN  /\ s \in Slots /\ Interviewed(s) /\ table[s].node = Head(queue).node
                /\ h' = Begin(s) /\ broken' = broken
                /\ ids \in Seq(0..255) /\ Len(ids) \in 0..MaxEndpoints
                /\ \E e \in EntryType :
                     /\ table' = [table EXCEPT ![s] = e]
                     /\ e.node = table[s].node /\ e.ieee = table[s].ieee
                     /\ e.epCount = Len(ids) /\ e.state = "getCluster"
                     /\ e.eps = Numbered(table[s].eps, ids)
<1> DEFINE s == FindNode(Head(queue).node)
           ids == EndpointsOf[Head(queue).from]
           eps == Numbered(table[s].eps, ids)
           new(r) == [r EXCEPT !.eps = Numbered(@, ids), !.epCount = Len(ids),
                               !.state = "getCluster"]
<1>1. table \in [Slots -> EntryType] /\ MaxEndpoints \in Nat \ {0}
  BY SizesAssumption DEF TypeInv, TypeOK
<1>2. CASE ~ UNCHANGED <<table, h>>
  <2>1. /\ s # 0 /\ Interviewed(s) /\ ~ (Len(ids) > MaxEndpoints) /\ broken' = broken
        /\ table' = [table EXCEPT ![s] = [table[s] EXCEPT !.epCount = Len(ids),
                       !.eps = Numbered(@, ids), !.state = "getCluster"]]
        /\ h' = Begin(s)
    BY <1>2 DEF HandleActiveEp
  <2>2. Head(queue).from \in Devices
    BY HandlersTake DEF HandleActiveEp, Sent, Messages
  <2>3. ids \in Seq(0..255)
    BY <2>2, DevicesAssumption
  <2>4. Len(ids) \in 0..MaxEndpoints
    BY <1>1, <2>1, <2>3, LenProperties
  <2>5. s \in Slots /\ table[s].node = Head(queue).node
    BY <2>1, SlotsFound
  <2>6. table[s] \in EntryType /\ table[s].eps \in [1..MaxEndpoints -> EndpointType]
    BY <1>1, <2>5 DEF EntryType
  <2>7. table' = [table EXCEPT ![s] = new(table[s])]
    BY <2>1
  <2> HIDE DEF s, ids
  <2>8. eps \in [1..MaxEndpoints -> EndpointType]
    BY <2>3, <2>6, NumberedType
  <2>9. ASSUME NEW r \in EntryType, Numbered(r.eps, ids) \in [1..MaxEndpoints -> EndpointType]
        PROVE  /\ new(r) \in EntryType
               /\ new(r).node = r.node /\ new(r).ieee = r.ieee
               /\ new(r).epCount = Len(ids) /\ new(r).state = "getCluster"
               /\ new(r).eps = Numbered(r.eps, ids)
    BY <2>4, <2>9 DEF EntryType, States
  <2> HIDE DEF new
  <2>. QED  BY <2>1, <2>3, <2>4, <2>5, <2>6, <2>7, <2>8, <2>9 DEF s, ids
<1>. QED  BY <1>2

\* A descriptor of endpoint 1.
LEMMA DescriptorFacts ==
  ASSUME TypeInv, HandleDescriptor
  PROVE  \/ UNCHANGED <<table, h>>
         \/ LET s == FindNode(Head(queue).node)
                i == FindEndpoint(s, 1)
            IN  /\ s \in Slots /\ Interviewed(s) /\ table[s].node = Head(queue).node
                /\ i \in 1..MaxEndpoints
                /\ h' = Begin(s) /\ broken' = broken
                /\ \E e \in EntryType :
                     /\ table' = [table EXCEPT ![s] = e]
                     /\ e.node = table[s].node /\ e.ieee = table[s].ieee
                     /\ e.epCount = table[s].epCount /\ e.state \in {"readAttr", "getCluster"}
                     /\ \A j \in 1..MaxEndpoints :
                          /\ e.eps[j].id = table[s].eps[j].id
                          /\ j # i => e.eps[j] = table[s].eps[j]
<1> DEFINE m == Head(queue)
           s == FindNode(m.node)
           i == FindEndpoint(s, 1)
           kept == Only(ClustersOf[m.from], Used)
           state == IF table[s].eps[1].id = 1 THEN "readAttr" ELSE "getCluster"
           new(r) == [r EXCEPT !.eps = Described(@, i, TypeOf[m.from], kept),
                               !.state = state]
<1>1. table \in [Slots -> EntryType] /\ MaxEndpoints \in Nat \ {0}
  BY SizesAssumption DEF TypeInv, TypeOK
<1>2. CASE ~ UNCHANGED <<table, h>>
  <2>1. /\ s # 0 /\ Interviewed(s) /\ i # 0 /\ broken' = broken
        /\ table' = [table EXCEPT ![s] = [table[s] EXCEPT
                       !.eps = Described(@, i, TypeOf[m.from], kept), !.state = state]]
        /\ h' = Begin(s)
    BY <1>2 DEF HandleDescriptor
  <2>2. m.from \in Devices
    BY HandlersTake DEF HandleDescriptor, Sent, Messages
  <2>3. kept \in Seq(Used) /\ TypeOf[m.from] \in DeviceTypes
    <3>1. ClustersOf[m.from] \in Seq(Used \cup Ignored) /\ TypeOf[m.from] \in DeviceTypes
      BY <2>2, DevicesAssumption DEF DeviceTypes
    <3> DEFINE R == {ClustersOf[m.from][j] : j \in DOMAIN ClustersOf[m.from]} \cap Used
    <3>2. kept \in Seq(R)
      BY <3>1, OnlyType
    <3>3. R \subseteq Used
      OBVIOUS
    <3> HIDE DEF R, kept
    <3>4. kept \in Seq(Used)
      BY <3>2, <3>3, ElementOfSeq, LenProperties, SeqDef
    <3>. QED  BY <3>1, <3>4
  <2>4. s \in Slots /\ table[s].node = m.node
    BY <2>1, SlotsFound
  <2>5. i \in 1..MaxEndpoints
    BY <2>1, EndpointFound
  <2>6. table[s] \in EntryType /\ table[s].eps \in [1..MaxEndpoints -> EndpointType]
    BY <1>1, <2>4 DEF EntryType
  <2>7. table' = [table EXCEPT ![s] = new(table[s])]
    BY <2>1
  <2>8. state \in {"readAttr", "getCluster"}
    OBVIOUS
  <2> HIDE DEF s, i, kept, m, state
  <2> DEFINE eps == Described(table[s].eps, i, TypeOf[m.from], kept)
  <2>9. /\ eps \in [1..MaxEndpoints -> EndpointType]
        /\ \A j \in 1..MaxEndpoints :
             eps[j].id = table[s].eps[j].id /\ (j # i => eps[j] = table[s].eps[j])
    BY <2>3, <2>5, <2>6, DescribedType
  <2> HIDE DEF eps
  <2>10. ASSUME NEW r \in EntryType,
                Described(r.eps, i, TypeOf[m.from], kept) \in [1..MaxEndpoints -> EndpointType]
        PROVE  /\ new(r) \in EntryType
               /\ new(r).node = r.node /\ new(r).ieee = r.ieee
               /\ new(r).epCount = r.epCount /\ new(r).state = state
               /\ new(r).eps = Described(r.eps, i, TypeOf[m.from], kept)
    BY <2>8, <2>10 DEF EntryType, States
  <2> HIDE DEF new
  <2> DEFINE e == new(table[s])
  <2>11. /\ e \in EntryType /\ e.node = table[s].node /\ e.ieee = table[s].ieee
         /\ e.epCount = table[s].epCount /\ e.state = state /\ e.eps = eps
    BY <2>6, <2>9, <2>10 DEF eps
  <2> HIDE DEF e
  <2>12. \E f \in EntryType :
            /\ table' = [table EXCEPT ![s] = f]
            /\ f.node = table[s].node /\ f.ieee = table[s].ieee
            /\ f.epCount = table[s].epCount /\ f.state \in {"readAttr", "getCluster"}
            /\ \A j \in 1..MaxEndpoints :
                 /\ f.eps[j].id = table[s].eps[j].id
                 /\ j # i => f.eps[j] = table[s].eps[j]
    BY <2>7, <2>8, <2>9, <2>11 DEF e
  <2>. QED  BY <2>1, <2>4, <2>5, <2>12, Zenon DEF s, i, m
<1>. QED  BY <1>2

\* The step of an interview on entry s, which leaves its addresses alone and
\* changes its endpoints as the answers say: the device is not active, becomes
\* so, or has not answered the first question.
Interviews(s, e) ==
  /\ e.node = table[s].node /\ e.ieee = table[s].ieee
  /\ \/ e.eps = table[s].eps
     \/ /\ HandleActiveEp /\ table[s].node = Head(queue).node
        /\ Len(EndpointsOf[Head(queue).from]) <= MaxEndpoints
        /\ e.eps = Numbered(table[s].eps, EndpointsOf[Head(queue).from])
     \/ /\ HandleDescriptor /\ table[s].node = Head(queue).node
        /\ \A i \in 1..MaxEndpoints :
             /\ e.eps[i].id = table[s].eps[i].id
             /\ i # FindEndpoint(s, 1) => e.eps[i] = table[s].eps[i]
  /\ \/ Interviewed(s) \/ e.state = "active"
     \/ h.at \in {"ask", "wait"} /\ h.kind = "activeEp" /\ h.slot = s

\* The step changes entry s, and nothing else of the table, to e.
EntryStep(s, e) ==
  /\ table' = [table EXCEPT ![s] = e]
  /\ \/ /\ HandleAnnounce
        /\ table[s].node = None /\ FindIeee(Head(queue).from) = 0
        /\ e = [Blank EXCEPT !.node = Head(queue).node, !.ieee = Head(queue).from,
                             !.state = "new"]
     \/ HandleLeave /\ s = FindIeee(Head(queue).from) /\ e = Blank
     \/ /\ HandleIeeeAddr
        /\ s = FindIeee(Head(queue).from)
        /\ e = [table[s] EXCEPT !.node = Head(queue).node]
     \/ Interviews(s, e)

\* Every step leaves the table alone, clears it, or changes one entry.
LEMMA TableSteps ==
  ASSUME TypeInv, Next
  PROVE  \/ UNCHANGED table
         \/ ErasePersistentData
         \/ \E s \in Slots, e \in EntryType : EntryStep(s, e)
<1> DEFINE Goal == \/ UNCHANGED table
                   \/ ErasePersistentData
                   \/ \E s \in Slots, e \in EntryType : EntryStep(s, e)
<1> USE DEF EntryStep
<1>1. table \in [Slots -> EntryType] /\ MaxEndpoints \in Nat \ {0}
  BY SizesAssumption DEF TypeInv, TypeOK
<1>2. ASSUME NEW s \in Slots, NEW state \in States
      PROVE  /\ [table[s] EXCEPT !.state = state] \in EntryType
             /\ [table[s] EXCEPT !.state = state].node = table[s].node
             /\ [table[s] EXCEPT !.state = state].ieee = table[s].ieee
             /\ [table[s] EXCEPT !.state = state].state = state
             /\ [table[s] EXCEPT !.state = state].eps = table[s].eps
  <2> DEFINE new(r) == [r EXCEPT !.state = state]
  <2>1. \A r \in EntryType :
          /\ new(r) \in EntryType
          /\ new(r).node = r.node /\ new(r).ieee = r.ieee /\ new(r).state = state
          /\ new(r).eps = r.eps
    BY DEF EntryType
  <2> HIDE DEF new
  <2>2. /\ new(table[s]) \in EntryType
        /\ new(table[s]).node = table[s].node /\ new(table[s]).ieee = table[s].ieee
        /\ new(table[s]).state = state /\ new(table[s]).eps = table[s].eps
    BY <1>1, <2>1
  <2>. QED  BY <2>2 DEF new
<1>3. CASE h.at \in {"ask", "wait"} /\ Failed
  <2> DEFINE new(r) == [r EXCEPT !.epCount = 1, !.state = "getCluster"]
  <2>1. CASE h.kind = "activeEp" /\ table' = [table EXCEPT ![h.slot] = new(Entry)]
    <3>1. h.slot \in Slots /\ Entry \in EntryType /\ Entry = table[h.slot]
      BY <1>3, EntryTyped
    <3>2. \A r \in EntryType :
            /\ new(r) \in EntryType /\ new(r).node = r.node /\ new(r).ieee = r.ieee
            /\ new(r).eps = r.eps
      <4>1. 1 \in 0..MaxEndpoints /\ "getCluster" \in States
        BY <1>1 DEF States
      <4>. QED  BY <4>1 DEF EntryType
    <3> HIDE DEF new
    <3>3. new(Entry) \in EntryType /\ Interviews(h.slot, new(Entry))
      BY <1>3, <2>1, <3>1, <3>2 DEF Interviews
    <3>. QED  BY <2>1, <3>1, <3>3
  <2>2. CASE UNCHANGED table
    BY <2>2
  <2>. QED  BY <1>3, <2>1, <2>2, FailedFacts
<1>4. CASE BindEnds
  <2>1. h.slot \in Slots /\ "active" \in States
    BY <1>4, EntryTyped DEF BindEnds, States
  <2>2. table' = [table EXCEPT ![h.slot] = [table[h.slot] EXCEPT !.state = "active"]]
    BY <1>4 DEF BindEnds
  <2>3. Interviews(h.slot, [table[h.slot] EXCEPT !.state = "active"])
    BY <1>2, <2>1 DEF Interviews
  <2>. QED  BY <1>2, <2>1, <2>2, <2>3
<1>5. CASE HandleAnnounce
  <2> DEFINE e == [Blank EXCEPT !.node = Head(queue).node, !.ieee = Head(queue).from,
                                !.state = "new"]
  <2>1. CASE IeeeUnknown(Head(queue).from) /\ FreeSlot # 0 /\ table' = [table EXCEPT ![FreeSlot] = e]
    <3>1. Head(queue).node \in Nodes /\ Head(queue).from \in Devices
      BY <1>5, HandlersTake DEF HandleAnnounce, Sent, Messages
    <3>2. FreeSlot \in Slots /\ table[FreeSlot].node = None
      BY <2>1, SlotsFound
    <3>3. e \in EntryType
      <4> HIDE DEF Blank
      <4>. QED  BY <3>1, BlankTyped DEF EntryType, States
    <3>4. FindIeee(Head(queue).from) = 0
      BY <2>1 DEF IeeeUnknown
    <3>. QED  BY <1>5, <2>1, <3>2, <3>3, <3>4
  <2>2. CASE UNCHANGED table
    BY <2>2
  <2>. QED  BY <1>5, <2>1, <2>2 DEF HandleAnnounce
<1>6. CASE HandleLeave
  <2> DEFINE s == FindIeee(Head(queue).from)
  <2>1. CASE s # 0 /\ table' = [table EXCEPT ![s] = Blank]
    <3>1. s \in Slots
      BY <2>1, SlotsFound
    <3>. QED  BY <1>6, <2>1, <3>1, BlankTyped
  <2>2. CASE UNCHANGED table
    BY <2>2
  <2>. QED  BY <1>6, <2>1, <2>2 DEF HandleLeave
<1>7. CASE HandleActiveEp
  <2> DEFINE s == FindNode(Head(queue).node)
  <2>1. \/ UNCHANGED table
        \/ /\ s \in Slots
           /\ \E e \in EntryType : table' = [table EXCEPT ![s] = e] /\ Interviews(s, e)
    <3> HIDE DEF EntryStep
    <3> HIDE DEF s
    <3>1. CASE /\ s \in Slots /\ Interviewed(s) /\ table[s].node = Head(queue).node
               /\ Len(EndpointsOf[Head(queue).from]) \in 0..MaxEndpoints
               /\ \E e \in EntryType :
                    /\ table' = [table EXCEPT ![s] = e]
                    /\ e.node = table[s].node /\ e.ieee = table[s].ieee
                    /\ e.eps = Numbered(table[s].eps, EndpointsOf[Head(queue).from])
      <4>1. Len(EndpointsOf[Head(queue).from]) <= MaxEndpoints
        BY <3>1
      <4>. QED  BY <1>7, <3>1, <4>1, Zenon DEF Interviews
    <3>. QED  BY <1>7, <3>1, ActiveEpFacts, Zenon DEF s
  <2> HIDE DEF s
  <2>. QED  BY <2>1
<1>8. CASE HandleDescriptor
  <2> DEFINE s == FindNode(Head(queue).node)
  <2>1. \/ UNCHANGED table
        \/ /\ s \in Slots
           /\ \E e \in EntryType : table' = [table EXCEPT ![s] = e] /\ Interviews(s, e)
    <3> HIDE DEF EntryStep
    <3>. QED  BY <1>8, DescriptorFacts DEF Interviews
  <2> HIDE DEF s
  <2>. QED  BY <2>1
<1>9. CASE HandleReadAttr
  <2> DEFINE s == FindNode(Head(queue).node)
  <2>1. CASE s # 0 /\ Interviewed(s) /\ table' = [table EXCEPT ![s].state = "bind"]
    <3>1. s \in Slots /\ "bind" \in States
      BY <2>1, SlotsFound DEF States
    <3> HIDE DEF s
    <3>2. table' = [table EXCEPT ![s] = [table[s] EXCEPT !.state = "bind"]]
      BY <2>1
    <3>3. Interviews(s, [table[s] EXCEPT !.state = "bind"])
      BY <1>2, <2>1, <3>1 DEF Interviews
    <3>. QED  BY <1>2, <3>1, <3>2, <3>3
  <2>2. CASE UNCHANGED table
    BY <2>2
  <2>. QED  BY <1>9, <2>1, <2>2 DEF HandleReadAttr
<1>10. CASE HandleIeeeAddr
  <2> DEFINE s == FindIeee(Head(queue).from)
             new(r) == [r EXCEPT !.node = Head(queue).node]
  <2>1. CASE s # 0 /\ table' = [table EXCEPT ![s].node = Head(queue).node]
    <3>1. s \in Slots
      BY <2>1, SlotsFound
    <3>2. Head(queue).node \in Nodes
      BY <1>10, HandlersTake DEF HandleIeeeAddr, Sent, Messages
    <3>3. \A r \in EntryType : new(r) \in EntryType
      BY <3>2 DEF EntryType
    <3>4. table' = [table EXCEPT ![s] = new(table[s])]
      BY <2>1
    <3>5. new(table[s]) \in EntryType
      <4> HIDE DEF new, s
      <4>. QED  BY <1>1, <3>1, <3>3
    <3>. QED  BY <1>10, <3>1, <3>4, <3>5
  <2>2. CASE UNCHANGED table
    BY <2>2
  <2>. QED  BY <1>10, <2>1, <2>2 DEF HandleIeeeAddr, Moved
<1>11. \/ UNCHANGED table \/ ErasePersistentData
       \/ h.at \in {"ask", "wait"} /\ Failed
       \/ BindEnds \/ HandleAnnounce \/ HandleLeave \/ HandleActiveEp \/ HandleDescriptor
       \/ HandleReadAttr \/ HandleIeeeAddr
  BY DEF Next, Callback, Network, Loop, Ask, Wake, Timeout, Clusters, ReadCluster, ReadEnds,
         BindCluster, HandleReport, Join, Leave, Report, Arrive, TimerExpires, tableVars
<1>12. Goal
  <2>1. CASE UNCHANGED table \/ ErasePersistentData
    BY <2>1
  <2> HIDE DEF Goal
  <2>. QED
    BY <1>3, <1>4, <1>5, <1>6, <1>7, <1>8, <1>9, <1>10, <1>11, <2>1 DEF Goal
<1>. QED  BY <1>12

LEMMA TableStep ==
  ASSUME TypeInv, Next
  PROVE  table' \in [Slots -> EntryType]
<1>1. table \in [Slots -> EntryType]
  BY DEF TypeInv, TypeOK
<1>2. ErasePersistentData => table' \in [Slots -> EntryType]
  BY BlankTyped, Zenon DEF ErasePersistentData, ClearAllDeviceTables
<1>3. ASSUME NEW s \in Slots, NEW e \in EntryType, table' = [table EXCEPT ![s] = e]
      PROVE  table' \in [Slots -> EntryType]
  BY <1>1, <1>3
<1>. QED  BY <1>1, <1>2, <1>3, TableSteps, Zenon DEF EntryStep

\* What becomes of the handler's state: a step from one place to the next.
LEMMA HandlerStep ==
  ASSUME TypeInv, Next
  PROVE  /\ h' \in HandlerType
         /\ h'.at = "idle" => h' = Idle
         /\ h'.at # "idle" => h'.slot \in Slots
         /\ h'.at \in {"ask", "wait"} => h'.kind \in {"activeEp", "descriptor", "readAttr"}
<1> DEFINE Goal == /\ h' \in HandlerType
                   /\ h'.at = "idle" => h' = Idle
                   /\ h'.at # "idle" => h'.slot \in Slots
                   /\ h'.at \in {"ask", "wait"} =>
                        h'.kind \in {"activeEp", "descriptor", "readAttr"}
<1> SUFFICES Goal
  OBVIOUS
<1>1. /\ h \in HandlerType
      /\ h.at = "idle" => h = Idle
      /\ h.at # "idle" => h.slot \in Slots
      /\ h.at \in {"ask", "wait"} => h.kind \in {"activeEp", "descriptor", "readAttr"}
  BY DEF TypeInv, TypeOK
<1>2. /\ Slots \subseteq 0..MaxDevices /\ <<>> \in Seq(Position)
      /\ 0 \in 0..2 /\ 1 \in 0..2 /\ 2 \in 0..2
  BY SizesAssumption, EmptySeq DEF Slots
<1>3. Idle \in HandlerType /\ Idle.at = "idle"
  BY SizesAssumption, EmptySeq DEF Idle, HandlerType
<1>4. ASSUME NEW s \in Slots, h' = Begin(s)
      PROVE  Goal
  <2>1. Begin(s) \in HandlerType /\ Begin(s).at = "loop" /\ Begin(s).slot = s
    BY <1>2, <1>3 DEF Begin, HandlerType
  <2>. QED  BY <1>4, <2>1
<1>5. CASE h' = Idle
  BY <1>3, <1>5
<1>6. CASE UNCHANGED h
  BY <1>1, <1>6
<1>7. CASE h.at \in {"ask", "wait"} /\ Failed
  <2>1. CASE h' = [h EXCEPT !.at = "ask", !.try = 2]
    BY <1>1, <1>2, <1>7, <2>1 DEF HandlerType
  <2>2. CASE h' = [h EXCEPT !.at = "next"]
    BY <1>1, <1>7, <2>2 DEF HandlerType
  <2>. QED  BY <1>1, <1>4, <1>5, <1>7, <2>1, <2>2, FailedFacts
<1>8. CASE Loop
  <2>1. Entry \in EntryType
    BY <1>8, EntryTyped DEF Loop
  <2>2. CASE LoopNew
    BY <1>1, <1>2, <1>8, <2>2 DEF Loop, LoopNew, HandlerType
  <2>3. CASE LoopCluster
    <3>1. \/ h' = Idle
          \/ h' = [h EXCEPT !.at = "ask", !.kind = "descriptor", !.try = 1]
      BY <2>3 DEF LoopCluster
    <3>2. CASE h' = [h EXCEPT !.at = "ask", !.kind = "descriptor", !.try = 1]
      BY <1>1, <1>2, <1>8, <3>2 DEF Loop, HandlerType
    <3>. QED  BY <1>5, <3>1, <3>2
  <2>4. ASSUME NEW kind \in {"readAttr", "bind"}, NEW S \in SUBSET Used,
               LoopClusters(kind, Positions(Entry, S))
        PROVE  Goal
    <3>1. Positions(Entry, S) \in Seq(Position)
      <4> DEFINE T == {p \in Position :
                        \E i \in 1..Entry.epCount :
                          /\ p.ep = Entry.eps[i].id
                          /\ \E j \in DOMAIN Entry.eps[i].clusters :
                               p.cluster = Entry.eps[i].clusters[j]}
      <4>1. Positions(Entry, S) \in Seq(T)
        BY <2>1, PositionsType
      <4>2. T \subseteq Position
        OBVIOUS
      <4> HIDE DEF T
      <4>. QED  BY <4>1, <4>2, ElementOfSeq, LenProperties, SeqDef
    <3> DEFINE todo == Positions(Entry, S)
    <3>2. h' = [h EXCEPT !.at = "next", !.kind = kind, !.todo = todo]
      BY <2>4 DEF LoopClusters
    <3> HIDE DEF todo
    <3>3. todo \in Seq(Position)
      BY <3>1 DEF todo
    <3>. QED  BY <1>1, <1>8, <3>2, <3>3 DEF Loop, HandlerType
  <2>5. CASE LoopOther
    BY <1>5, <2>5 DEF LoopOther
  <2>6. {"basic"} \in SUBSET Used /\ Used \in SUBSET Used
    BY DEF Used
  <2> HIDE DEF Goal
  <2>. QED  BY <1>8, <2>2, <2>3, <2>4, <2>5, <2>6 DEF Loop
<1>9. CASE Ask
  <2>1. CASE h' = [h EXCEPT !.at = "wait", !.woken = FALSE]
    BY <1>1, <1>9, <2>1 DEF Ask, HandlerType
  <2>. QED  BY <1>7, <1>9, <2>1 DEF Ask
<1>10. CASE Wake
  <2>1. CASE h' = [h EXCEPT !.at = "next"]
    BY <1>1, <1>10, <2>1 DEF Wake, HandlerType
  <2>. QED  BY <1>5, <1>10, <2>1 DEF Wake
<1>11. CASE ReadCluster \/ BindCluster
  <2>1. h.todo # <<>> /\ h.todo \in Seq(Position) /\ h.at = "next"
    BY <1>1, <1>11 DEF ReadCluster, BindCluster, HandlerType
  <2>2. Tail(h.todo) \in Seq(Position)
    BY <2>1, HeadTailProperties
  <2>3. CASE h' = [h EXCEPT !.at = "ask", !.try = 1, !.todo = Tail(@)] /\ h.kind = "readAttr"
    BY <1>1, <1>2, <2>1, <2>2, <2>3 DEF HandlerType
  <2>4. CASE h' = [h EXCEPT !.todo = Tail(@)]
    BY <1>1, <2>1, <2>2, <2>4 DEF HandlerType
  <2>. QED  BY <1>11, <2>3, <2>4 DEF ReadCluster, BindCluster
<1>12. CASE HandleAnnounce
  BY <1>4, <1>6, <1>12, SlotsFound DEF HandleAnnounce
<1>13. CASE HandleActiveEp
  BY <1>4, <1>6, <1>13, ActiveEpFacts
<1>14. CASE HandleDescriptor
  BY <1>4, <1>6, <1>14, DescriptorFacts
<1>15. CASE HandleReadAttr
  BY <1>4, <1>6, <1>15, SlotsFound DEF HandleReadAttr
<1>16. ASSUME NEW m, Arrive(m)
       PROVE  Goal
  <2>1. CASE h.at = "wait" /\ h' = [h EXCEPT !.woken = TRUE]
    BY <1>1, <2>1 DEF HandlerType
  <2>. QED  BY <1>6, <1>16, <2>1 DEF Arrive
<1>17. CASE ErasePersistentData
  <2>1. h' = [h EXCEPT !.todo = <<>>]
    BY <1>17 DEF ErasePersistentData, ClearAllDeviceTables
  <2>2. CASE h.at = "idle"
    <3>1. h = Idle /\ h.todo = <<>>
      BY <1>1, <2>2 DEF Idle
    <3>2. h' = h
      BY <1>1, <2>1, <3>1 DEF HandlerType
    <3>. QED  BY <1>6, <3>2
  <2>3. CASE h.at # "idle"
    BY <1>1, <1>2, <2>1, <2>3 DEF HandlerType
  <2>. QED  BY <2>2, <2>3
<1>18. \/ h' = Idle \/ UNCHANGED h
       \/ Loop \/ Ask \/ Wake \/ (h.at \in {"ask", "wait"} /\ Failed)
       \/ ReadCluster \/ BindCluster \/ HandleAnnounce \/ HandleActiveEp \/ HandleDescriptor
       \/ HandleReadAttr \/ (\E m : Arrive(m)) \/ ErasePersistentData
  BY DEF Next, Callback, Network, Timeout, Clusters, ReadEnds, BindEnds, HandleLeave,
         HandleReport, HandleIeeeAddr, Join, Leave, Report, TimerExpires
<1> HIDE DEF Goal
<1>. QED
  BY <1>5, <1>6, <1>7, <1>8, <1>9, <1>10, <1>11, <1>12, <1>13, <1>14, <1>15, <1>16, <1>17, <1>18

\* The attributes a cluster is bound for have names.
LEMMA BoundAttributesType ==
  ASSUME NEW cluster, NEW type
  PROVE  BoundAttributes(cluster, type) \in Seq(AttributeNames)
<1> DEFINE N == AttributeNames
<1>1. /\ "onoff" \in N /\ "currentLevel" \in N /\ "temperature" \in N /\ "x" \in N
      /\ "y" \in N /\ "measured" \in N /\ "occupancy" \in N
  BY DEF AttributeNames
<1> HIDE DEF N
<1>2. /\ <<"onoff">> \in Seq(N) /\ <<"currentLevel">> \in Seq(N)
      /\ <<"temperature">> \in Seq(N) /\ <<"measured">> \in Seq(N)
      /\ <<"occupancy">> \in Seq(N) /\ <<>> \in Seq(N)
  BY <1>1
<1>3. <<"temperature", "x", "y">> \in Seq(N)
  BY <1>1
<1>. QED  BY <1>2, <1>3, Zenon DEF BoundAttributes, N

\* Added for an entry with an address and a valid endpoint: the attributes there
\* are, then the entry's, as many as fit.
LEMMA AddedParts ==
  ASSUME TypeInv, NEW e \in EntryType, NEW ep \in 0..255, NEW cluster \in Used,
         NEW names \in Seq(AttributeNames), ValidNode(e.node), ValidEndpoint(ep)
  PROVE  /\ Added(e, ep, cluster, names) \in Seq(AttributeType)
         /\ Len(Added(e, ep, cluster, names)) <= MaxAttributes
         /\ Len(Added(e, ep, cluster, names)) <= Len(attrs) + Len(names)
         /\ \/ Len(Added(e, ep, cluster, names)) = MaxAttributes
            \/ Len(Added(e, ep, cluster, names)) = Len(attrs) + Len(names)
         /\ \A i \in 1..Len(Added(e, ep, cluster, names)) :
              \/ i <= Len(attrs) /\ Added(e, ep, cluster, names)[i] = attrs[i]
              \/ /\ i > Len(attrs) /\ i - Len(attrs) \in DOMAIN names
                 /\ Added(e, ep, cluster, names)[i] =
                      [node |-> e.node, ep |-> ep, cluster |-> cluster,
                       attr |-> names[i - Len(attrs)]]
<1> DEFINE more == [i \in DOMAIN names |->
                     [node |-> e.node, ep |-> ep, cluster |-> cluster, attr |-> names[i]]]
           all == AllAttributes(e, ep, cluster, names)
           n == Min({Len(all), MaxAttributes})
<1>1. /\ attrs \in Seq(AttributeType) /\ Len(attrs) \in Nat
      /\ Len(names) \in Nat /\ DOMAIN names = 1..Len(names) /\ \A i \in DOMAIN names : names[i] \in AttributeNames
  BY LenProperties, ElementOfSeq DEF TypeInv, TypeOK
<1>2. e.node \in Nodes /\ ep \in 1..242
  BY DEF ValidNode, ValidEndpoint, EntryType
<1>3. more \in [1..Len(names) -> AttributeType]
  BY <1>1, <1>2 DEF AttributeType
<1>4. \A i \in DOMAIN names :
        more[i] = [node |-> e.node, ep |-> ep, cluster |-> cluster, attr |-> names[i]]
  OBVIOUS
<1>5. all = attrs \o more
  BY DEF AllAttributes
<1>6. DOMAIN more = 1..Len(names)
  BY <1>1
<1> HIDE DEF more
<1>7. more \in Seq(AttributeType)
  BY <1>1, <1>3, SeqDef, ZenonT(30)
<1>8. Len(more) = Len(names)
  BY <1>1, <1>6, <1>7, LenProperties
<1>9. /\ all \in Seq(AttributeType) /\ Len(all) = Len(attrs) + Len(names)
      /\ \A i \in 1..(Len(attrs) + Len(names)) :
           all[i] = IF i <= Len(attrs) THEN attrs[i] ELSE more[i - Len(attrs)]
  <2>1. attrs \o more \in Seq(AttributeType) /\ Len(attrs \o more) = Len(attrs) + Len(more)
    BY <1>1, <1>7, ConcatProperties
  <2>2. \A i \in 1..(Len(attrs) + Len(more)) :
          (attrs \o more)[i] = IF i <= Len(attrs) THEN attrs[i] ELSE more[i - Len(attrs)]
    BY <1>1, <1>7, ConcatProperties
  <2> HIDE DEF all
  <2>. QED  BY <1>5, <1>8, <2>1, <2>2
<1>10. Added(e, ep, cluster, names) = SubSeq(all, 1, n)
  BY DEF Added
<1> HIDE DEF all
<1>11. n \in {Len(all), MaxAttributes} /\ n <= Len(all) /\ n <= MaxAttributes /\ n \in Nat
  <2>1. {Len(all), MaxAttributes} \in SUBSET Nat
    BY <1>1, <1>9, SizesAssumption
  <2>2. n \in {Len(all), MaxAttributes} /\ \A k \in {Len(all), MaxAttributes} : n <= k
    BY <2>1, MinOfNats
  <2> HIDE DEF n
  <2>. QED  BY <2>1, <2>2
<1> HIDE DEF n
<1> DEFINE kept == SubSeq(all, 1, n)
<1>12. /\ kept \in Seq(AttributeType) /\ Len(kept) = n
       /\ \A i \in 1..n : kept[i] = all[i]
  <2>1. n \in 0..Len(all)
    BY <1>1, <1>9, <1>11
  <2>. QED  BY <1>9, <2>1, PrefixProperties
<1> HIDE DEF kept
<1>13. ASSUME NEW i \in 1..n
       PROVE  \/ i <= Len(attrs) /\ kept[i] = attrs[i]
              \/ /\ i > Len(attrs) /\ i - Len(attrs) \in DOMAIN names
                 /\ kept[i] = [node |-> e.node, ep |-> ep, cluster |-> cluster,
                               attr |-> names[i - Len(attrs)]]
  <2>1. i \in 1..(Len(attrs) + Len(names)) /\ kept[i] = all[i]
    <3>1. n \in Nat /\ n <= Len(attrs) + Len(names) /\ kept[i] = all[i]
      BY <1>9, <1>11, <1>12
    <3>. QED  BY <1>1, <3>1
  <2>2. CASE i <= Len(attrs)
    BY <1>9, <2>1, <2>2
  <2>3. CASE ~ (i <= Len(attrs))
    <3>1. i - Len(attrs) \in DOMAIN names /\ i > Len(attrs)
      BY <1>1, <2>1, <2>3
    <3>. QED  BY <1>4, <1>9, <2>1, <2>3, <3>1
  <2>. QED  BY <2>2, <2>3
<1>. QED  BY <1>9, <1>10, <1>11, <1>12, <1>13 DEF kept

\* Added keeps the attributes there are and adds some of the entry's, if it has
\* an address, and never more than fit.
LEMMA AddedFacts ==
  ASSUME TypeInv, NEW e \in EntryType, NEW ep \in 0..255, NEW cluster \in Used,
         NEW names \in Seq(AttributeNames)
  PROVE  /\ Added(e, ep, cluster, names) \in Seq(AttributeType)
         /\ Len(Added(e, ep, cluster, names)) <= MaxAttributes
         /\ \A i \in DOMAIN Added(e, ep, cluster, names) :
              \/ i \in DOMAIN attrs /\ Added(e, ep, cluster, names)[i] = attrs[i]
              \/ ValidNode(e.node) /\ Added(e, ep, cluster, names)[i].node = e.node
         /\ Added(e, ep, cluster, names) # attrs => ValidNode(e.node) /\ ValidEndpoint(ep)
<1> DEFINE A == Added(e, ep, cluster, names)
<1>1. /\ attrs \in Seq(AttributeType) /\ Len(attrs) \in Nat /\ Len(attrs) <= MaxAttributes
      /\ DOMAIN attrs = 1..Len(attrs)
  BY LenProperties DEF TypeInv, TypeOK
<1>2. CASE ~ (ValidNode(e.node) /\ ValidEndpoint(ep))
  BY <1>1, <1>2 DEF Added
<1>3. CASE ValidNode(e.node) /\ ValidEndpoint(ep)
  <2> DEFINE new(a) == [node |-> e.node, ep |-> ep, cluster |-> cluster, attr |-> a]
  <2>0. \A a : new(a).node = e.node
    OBVIOUS
  <2>1. /\ A \in Seq(AttributeType) /\ Len(A) <= MaxAttributes
        /\ \A i \in 1..Len(A) :
             \/ i <= Len(attrs) /\ A[i] = attrs[i]
             \/ A[i] = new(names[i - Len(attrs)])
    BY <1>3, AddedParts
  <2> HIDE DEF A, new
  <2>2. Len(A) \in Nat /\ DOMAIN A = 1..Len(A)
    BY <2>1, LenProperties
  <2>3. \A i \in DOMAIN A : (i \in DOMAIN attrs /\ A[i] = attrs[i]) \/ A[i].node = e.node
    BY <1>1, <2>0, <2>1, <2>2
  <2>. QED  BY <1>3, <2>1, <2>3 DEF A
<1>. QED  BY <1>2, <1>3

\* The attributes there are stay where they are.
Continues(new) ==
  Len(attrs) <= Len(new) /\ \A i \in DOMAIN attrs : i \in DOMAIN new /\ new[i] = attrs[i]

\* The attributes of a cluster are among those of a table.
Lists(list, n, ep, cluster, names) ==
  \A a \in Range(names) : \E i \in DOMAIN list :
    list[i] = [node |-> n, ep |-> ep, cluster |-> cluster, attr |-> a]

\* Added leaves none out unless the table is full then.
LEMMA AddedAll ==
  ASSUME TypeInv, NEW e \in EntryType, NEW ep \in 0..255, NEW cluster \in Used,
         NEW names \in Seq(AttributeNames)
  PROVE  /\ Continues(Added(e, ep, cluster, names))
         /\ /\ ValidNode(e.node) /\ ValidEndpoint(ep)
            /\ Len(Added(e, ep, cluster, names)) < MaxAttributes
            => Lists(Added(e, ep, cluster, names), e.node, ep, cluster, names)
<1> DEFINE A == Added(e, ep, cluster, names)
           new(a) == [node |-> e.node, ep |-> ep, cluster |-> cluster, attr |-> a]
<1>1. /\ attrs \in Seq(AttributeType) /\ Len(attrs) \in Nat /\ Len(attrs) <= MaxAttributes
      /\ DOMAIN attrs = 1..Len(attrs) /\ Len(names) \in Nat /\ DOMAIN names = 1..Len(names)
  BY LenProperties DEF TypeInv, TypeOK
<1>2. CASE ~ (ValidNode(e.node) /\ ValidEndpoint(ep))
  BY <1>1, <1>2 DEF Added, Continues
<1>3. CASE ValidNode(e.node) /\ ValidEndpoint(ep)
  <2>1. /\ A \in Seq(AttributeType)
        /\ Len(A) = MaxAttributes \/ Len(A) = Len(attrs) + Len(names)
        /\ \A i \in 1..Len(A) :
             \/ i <= Len(attrs) /\ A[i] = attrs[i]
             \/ i > Len(attrs) /\ A[i] = new(names[i - Len(attrs)])
    BY <1>3, AddedParts
  <2> HIDE DEF A, new
  <2>2. Len(A) \in Nat /\ DOMAIN A = 1..Len(A) /\ Len(attrs) <= Len(A)
    BY <1>1, <2>1, LenProperties
  <2>3. ASSUME NEW i \in DOMAIN attrs
        PROVE  i \in DOMAIN A /\ A[i] = attrs[i]
    <3>1. i \in 1..Len(A) /\ ~ (i > Len(attrs))
      BY <1>1, <2>2
    <3>. QED  BY <2>1, <2>2, <3>1, Zenon
  <2>4. ASSUME Len(A) < MaxAttributes, NEW j \in DOMAIN names
        PROVE  \E i \in DOMAIN A : A[i] = new(names[j])
    <3>1. /\ Len(attrs) + j \in 1..Len(A) /\ (Len(attrs) + j) - Len(attrs) = j
          /\ ~ (Len(attrs) + j <= Len(attrs))
      <4>1. Len(A) = Len(attrs) + Len(names)
        <5>1. Len(A) # MaxAttributes
          BY <2>2, <2>4, SizesAssumption
        <5>. QED  BY <2>1, <5>1
      <4>. QED  BY <1>1, <2>2, <4>1
    <3>2. A[Len(attrs) + j] = new(names[j])
      BY <2>1, <3>1, Zenon
    <3>. QED  BY <2>2, <3>1, <3>2
  <2>5. Len(A) < MaxAttributes => \A a \in Range(names) : \E i \in DOMAIN A : A[i] = new(a)
    BY <2>4 DEF Range
  <2>. QED  BY <2>2, <2>3, <2>5 DEF A, new, Continues, Lists
<1>. QED  BY <1>2, <1>3

\* Erasing the attributes of n keeps some of the first ones, and none of n's.
LEMMA EraseFacts ==
  ASSUME TypeInv, NEW n, EraseAttributes(n)
  PROVE  /\ attrs' \in Seq(AttributeType) /\ Len(attrs') <= MaxAttributes
         /\ \A i \in DOMAIN attrs' :
              i \in DOMAIN attrs /\ attrs'[i] = attrs[i] /\ attrs'[i].node # n
         /\ broken' \in {broken, "overrun"}
<1> DEFINE S == {i \in DOMAIN attrs : attrs[i].node = n}
<1>1. /\ attrs \in Seq(AttributeType) /\ Len(attrs) \in Nat /\ Len(attrs) <= MaxAttributes
      /\ DOMAIN attrs = 1..Len(attrs)
  BY LenProperties DEF TypeInv, TypeOK
<1>2. CASE S = {}
  <2>1. UNCHANGED <<attrs, broken>>
    BY <1>2 DEF EraseAttributes
  <2>. QED  BY <1>1, <1>2, <2>1
<1>3. CASE S # {}
  <2>1. /\ attrs' = SubSeq(attrs, 1, Min(S) - 1)
        /\ broken' \in {broken, "overrun"}
    BY <1>3 DEF EraseAttributes
  <2>2. S \in SUBSET Nat
    BY <1>1
  <2>3. Min(S) \in S /\ \A k \in S : Min(S) <= k
    BY <1>3, <2>2, MinOfNats, Zenon
  <2>4. Min(S) \in 1..Len(attrs)
    BY <1>1, <2>3
  <2>5. Min(S) - 1 \in 0..Len(attrs)
    BY <1>1, <2>4
  <2>6. /\ attrs' \in Seq(AttributeType) /\ Len(attrs') = Min(S) - 1
        /\ \A i \in 1..(Min(S) - 1) : attrs'[i] = attrs[i]
    BY <1>1, <2>1, <2>5, PrefixProperties
  <2>7. DOMAIN attrs' = 1..(Min(S) - 1)
    BY <2>6, LenProperties
  <2>8. ASSUME NEW i \in DOMAIN attrs'
        PROVE  i \in DOMAIN attrs /\ attrs'[i] = attrs[i] /\ attrs'[i].node # n
    <3>1. i \in DOMAIN attrs /\ attrs'[i] = attrs[i] /\ ~ (Min(S) <= i)
      BY <1>1, <2>4, <2>6, <2>7
    <3>2. i \notin S
      BY <2>3, <3>1, Zenon
    <3>. QED  BY <3>1, <3>2
  <2>9. Len(attrs') <= MaxAttributes
    BY <1>1, <2>4, <2>6, SizesAssumption
  <2>. QED  BY <2>1, <2>6, <2>8, <2>9
<1>. QED  BY <1>2, <1>3

\* The clusters taken up add attributes of the entry the handler works on.
LEMMA AttributesStep ==
  ASSUME TypeInv, Next
  PROVE  /\ attrs' \in Seq(AttributeType) /\ Len(attrs') <= MaxAttributes
         /\ \/ /\ h.at = "next"
               /\ \A i \in DOMAIN attrs' :
                    \/ i \in DOMAIN attrs /\ attrs'[i] = attrs[i]
                    \/ ValidNode(Entry.node) /\ attrs'[i].node = Entry.node
            \/ /\ HandleLeave /\ FindIeee(Head(queue).from) # 0
               /\ \A i \in DOMAIN attrs' :
                    /\ i \in DOMAIN attrs /\ attrs'[i] = attrs[i]
                    /\ attrs'[i].node # table[FindIeee(Head(queue).from)].node
            \/ ErasePersistentData /\ attrs' = <<>>
            \/ ~ ErasePersistentData /\ attrs' = attrs
<1> DEFINE Goal ==
         /\ attrs' \in Seq(AttributeType) /\ Len(attrs') <= MaxAttributes
         /\ \/ /\ h.at = "next"
               /\ \A i \in DOMAIN attrs' :
                    \/ i \in DOMAIN attrs /\ attrs'[i] = attrs[i]
                    \/ ValidNode(Entry.node) /\ attrs'[i].node = Entry.node
            \/ /\ HandleLeave /\ FindIeee(Head(queue).from) # 0
               /\ \A i \in DOMAIN attrs' :
                    /\ i \in DOMAIN attrs /\ attrs'[i] = attrs[i]
                    /\ attrs'[i].node # table[FindIeee(Head(queue).from)].node
            \/ ErasePersistentData /\ attrs' = <<>>
            \/ ~ ErasePersistentData /\ attrs' = attrs
<1> SUFFICES Goal
  OBVIOUS
<1>1. attrs \in Seq(AttributeType) /\ Len(attrs) <= MaxAttributes
  BY DEF TypeInv, TypeOK
<1>2. CASE ~ ErasePersistentData /\ UNCHANGED attrs
  BY <1>1, <1>2
<1>3. CASE ErasePersistentData
  <2>1. attrs' = <<>>
    BY <1>3 DEF ErasePersistentData, ClearAllDeviceTables
  <2>2. attrs' \in Seq(AttributeType) /\ Len(attrs') <= MaxAttributes
    BY <2>1, EmptySeq, SizesAssumption
  <2>. QED  BY <1>3, <2>1, <2>2
<1>4. CASE ReadCluster \/ BindCluster
  <2>1. /\ h.at = "next" /\ h.todo # <<>> /\ h.todo \in Seq(Position)
        /\ \E as \in Seq(AttributeNames) : AddAttributes(Head(h.todo), as)
    <3>1. "model" \in AttributeNames
      BY DEF AttributeNames
    <3> DEFINE N == AttributeNames
    <3> HIDE DEF N
    <3>2. <<"model">> \in Seq(N)
      BY <3>1 DEF N
    <3>3. h.todo \in Seq(Position)
      BY DEF TypeInv, HandlerType
    <3>. QED
      BY <1>4, <3>2, <3>3, BoundAttributesType DEF ReadCluster, BindCluster, N
  <2>2. PICK as \in Seq(AttributeNames) : AddAttributes(Head(h.todo), as)
    BY <2>1
  <2>3. Head(h.todo) \in Position
    BY <2>1, HeadTailProperties
  <2>4. Head(h.todo).ep \in 0..255 /\ Head(h.todo).cluster \in Used
    BY <2>3 DEF Position
  <2>5. Entry \in EntryType
    BY <2>1, EntryTyped
  <2> DEFINE A == Added(Entry, Head(h.todo).ep, Head(h.todo).cluster, as)
  <2>6. attrs' = A
    BY <2>2 DEF AddAttributes
  <2>8. /\ A \in Seq(AttributeType) /\ Len(A) <= MaxAttributes
        /\ \A i \in DOMAIN A :
             \/ i \in DOMAIN attrs /\ A[i] = attrs[i]
             \/ ValidNode(Entry.node) /\ A[i].node = Entry.node
    BY <2>4, <2>5, AddedFacts, ZenonT(30)
  <2> HIDE DEF A
  <2>7. /\ attrs' \in Seq(AttributeType) /\ Len(attrs') <= MaxAttributes
        /\ \A i \in DOMAIN attrs' :
             \/ i \in DOMAIN attrs /\ attrs'[i] = attrs[i]
             \/ ValidNode(Entry.node) /\ attrs'[i].node = Entry.node
    BY <2>6, <2>8
  <2>. QED  BY <2>1, <2>7
<1>5. CASE HandleLeave
  <2>1. ~ ErasePersistentData
    BY <1>5, HandlersTake DEF HandleLeave, Taken, ErasePersistentData, EmptyBag
  <2>2. CASE FindIeee(Head(queue).from) = 0
    BY <1>2, <1>5, <2>1, <2>2 DEF HandleLeave
  <2>3. CASE FindIeee(Head(queue).from) # 0
    <3>1. EraseAttributes(table[FindIeee(Head(queue).from)].node)
      BY <1>5, <2>3 DEF HandleLeave
    <3>. QED  BY <1>5, <2>3, <3>1, EraseFacts
  <2>. QED  BY <2>2, <2>3
<1>6. UNCHANGED attrs \/ ErasePersistentData \/ ReadCluster \/ BindCluster \/ HandleLeave
  BY DEF Next, Callback, Network, Loop, Ask, Wake, Timeout, Clusters, ReadEnds, BindEnds,
         HandleAnnounce, HandleActiveEp, HandleDescriptor, HandleReadAttr, HandleReport,
         HandleIeeeAddr, Join, Leave, Report, Arrive, TimerExpires, tableVars
<1>. QED  BY <1>2, <1>3, <1>4, <1>5, <1>6

LEMMA CountersStep ==
  ASSUME TypeInv, Next
  PROVE  /\ joins' \in 0..MaxJoins /\ gone' \in 0..MaxGone /\ faults' \in 0..MaxFaults
         /\ gone' >= gone
<1>1. MaxJoins \in Nat /\ MaxGone \in Nat /\ MaxFaults \in Nat
  BY SizesAssumption
<1>2. joins \in 0..MaxJoins /\ gone \in 0..MaxGone /\ faults \in 0..MaxFaults
  BY DEF TypeInv, TypeOK
<1>3. joins' = joins \/ (joins < MaxJoins /\ joins' = joins + 1)
  BY DEF Next, Callback, Network, Loop, Ask, Wake, Timeout, Clusters, HandleAnnounce, HandleLeave,
         HandleActiveEp, HandleDescriptor, HandleReadAttr, HandleReport, HandleIeeeAddr, Taken,
         Join, Leave, Report, Arrive, ErasePersistentData, TimerExpires, envVars
<1>4. gone' = gone \/ (gone < MaxGone /\ gone' = gone + 1)
  BY DEF Next, Callback, Network, Loop, Ask, Wake, Timeout, Clusters, HandleAnnounce, HandleLeave,
         HandleActiveEp, HandleDescriptor, HandleReadAttr, HandleReport, HandleIeeeAddr, Taken,
         Join, Leave, Report, Arrive, ErasePersistentData, TimerExpires, envVars
<1>5. faults' = faults \/ \E happens \in BOOLEAN : Fault(happens)
  <2>1. \A happens : Fault(happens) => faults' = faults \/ \E b \in BOOLEAN : Fault(b)
    BY DEF Fault
  <2>. QED
    BY <2>1
       DEF Next, Callback, Network, Loop, Ask, Wake, Timeout, Clusters, HandleAnnounce,
           HandleLeave, HandleActiveEp, HandleDescriptor, HandleReadAttr, HandleReport,
           HandleIeeeAddr, Join, Leave, Report, Arrive, ErasePersistentData, TimerExpires
<1>6. faults' = faults \/ (faults < MaxFaults /\ faults' = faults + 1)
  BY <1>5 DEF Fault
<1>. QED  BY <1>1, <1>2, <1>3, <1>4, <1>6

LEMMA HistoryStep ==
  ASSUME TypeInv, Next
  PROVE  /\ epIndex' \in 0..255 /\ beyond' \in BOOLEAN
         /\ timed' \subseteq Slots
         /\ joinNode' \in [Devices -> Nodes \cup {None}]
         /\ broken' \in {"no", "pointer", "overrun", "timer"}
<1>1. /\ epIndex \in 0..255 /\ beyond \in BOOLEAN /\ timed \subseteq Slots
      /\ joinNode \in [Devices -> Nodes \cup {None}]
      /\ broken \in {"no", "pointer", "overrun", "timer"}
  BY DEF TypeInv, TypeOK
<1>2. epIndex' \in 0..255
  <2>1. epIndex' = epIndex \/ epIndex' = 0 \/ epIndex' = (epIndex + 1) % 256
    BY DEF Next, Callback, Network, Loop, LoopNew, LoopCluster, LoopClusters, LoopOther, Ask,
           Wake, Timeout, Clusters, ReadCluster, ReadEnds, BindCluster, BindEnds, IndexReset,
           HandleAnnounce, HandleLeave, HandleActiveEp, HandleDescriptor, HandleReadAttr,
           HandleReport, HandleIeeeAddr, Join, Leave, Report, Arrive, ErasePersistentData,
           TimerExpires, indexVars
  <2>. QED  BY <1>1, <2>1
<1>3. beyond' \in BOOLEAN
  <2>1. beyond' = beyond \/ beyond' = (beyond \/ epIndex' \notin 1..MaxEndpoints)
    BY DEF Next, Callback, Network, Loop, LoopNew, LoopCluster, LoopClusters, LoopOther, Ask,
           Wake, Timeout, Clusters, ReadCluster, ReadEnds, BindCluster, BindEnds, IndexReset,
           HandleAnnounce, HandleLeave, HandleActiveEp, HandleDescriptor, HandleReadAttr,
           HandleReport, HandleIeeeAddr, Join, Leave, Report, Arrive, ErasePersistentData,
           TimerExpires, indexVars
  <2>. QED  BY <1>1, <2>1
<1>4. timed' \subseteq Slots
  <2>1. timed' = timed \/ \E n : FindNode(n) # 0 /\ timed' = timed \cup {FindNode(n)}
    BY DEF Next, Callback, Network, Loop, Ask, Wake, Timeout, Clusters, HandleAnnounce,
           HandleLeave, HandleActiveEp, HandleDescriptor, HandleReadAttr, HandleReport,
           HandleIeeeAddr, Join, Leave, Report, Arrive, ErasePersistentData, TimerExpires
  <2>. QED  BY <1>1, <2>1, SlotsFound
<1>5. joinNode' \in [Devices -> Nodes \cup {None}]
  <2>1. CASE HandleAnnounce
    <3>1. Head(queue).node \in Nodes /\ Head(queue).from \in Devices
      BY <2>1, HandlersTake DEF HandleAnnounce, Sent, Messages
    <3>. QED  BY <1>1, <2>1, <3>1 DEF HandleAnnounce
  <2>2. UNCHANGED joinNode \/ HandleAnnounce
    BY DEF Next, Callback, Network, Loop, Ask, Wake, Timeout, Clusters,
           HandleLeave, HandleActiveEp, HandleDescriptor, HandleReadAttr, HandleReport,
           HandleIeeeAddr, Join, Leave, Report, Arrive, ErasePersistentData, TimerExpires, tableVars
  <2>. QED  BY <1>1, <2>1, <2>2
<1>6. broken' \in {"no", "pointer", "overrun", "timer"}
  <2>1. CASE HandleLeave
    <3>1. UNCHANGED broken \/ \E n : EraseAttributes(n)
      BY <2>1 DEF HandleLeave
    <3>. QED  BY <1>1, <3>1, EraseFacts
  <2>2. CASE Clusters
    BY <1>1, <2>2 DEF Clusters, ReadCluster, ReadEnds, BindCluster, BindEnds, AddAttributes
  <2>3. CASE Callback /\ ~ Clusters /\ ~ HandleLeave
    BY <1>1, <2>3 DEF Callback, Loop, Ask, Wake, Timeout, HandleAnnounce,
           HandleActiveEp, HandleDescriptor, HandleReadAttr, HandleReport, HandleIeeeAddr
  <2>4. CASE Network \/ ErasePersistentData \/ (\E m : Arrive(m)) \/ (\E s : TimerExpires(s))
    BY <1>1, <2>4 DEF Network, Join, Leave, Report, Arrive, ErasePersistentData, TimerExpires
  <2>. QED  BY <2>1, <2>2, <2>3, <2>4 DEF Next
<1>. QED  BY <1>2, <1>3, <1>4, <1>5, <1>6

LEMMA TypeStep == TypeInv /\ [Next]_vars => TypeInv'
<1> SUFFICES ASSUME TypeInv, [Next]_vars PROVE TypeInv'
  OBVIOUS
<1>1. CASE Next
  <2>1. BagToSet(air') \subseteq Messages
    BY <1>1, NetworkStep DEF Sent
  <2>2. h'.at \in {"idle", "loop", "ask", "wait", "next"}
    BY <1>1, HandlerStep DEF HandlerType
  <2>3. TypeOK'
    BY <1>1, <2>1, <2>2, NetworkStep, QueueStep, TableStep, HandlerStep, AttributesStep,
       CountersStep, HistoryStep DEF TypeOK
  <2>. QED  BY <1>1, <2>3, NetworkStep, QueueStep, HandlerStep DEF TypeInv
<1>2. CASE UNCHANGED vars
  BY <1>2 DEF TypeInv, TypeOK, vars, envVars, tableVars, indexVars
<1>. QED  BY <1>1, <1>2

LEMMA TypeHolds == Spec => []TypeInv
BY InitType, TypeStep, PTL DEF Spec

\* The variables have their types: no more attributes than the table holds, no
\* more messages than the queue holds, and an index that stays a byte.
THEOREM TypeCorrect == Spec => []TypeOK
<1>1. TypeInv => TypeOK
  BY DEF TypeInv
<1>. QED  BY <1>1, TypeHolds, PTL

-----------------------------------------------------------------------------
(* One entry per device.                                                   *)

\* No device ever has two entries (ZCB_HandleDeviceAnnounce).  An entry is added
\* only when no other has the IEEE address, and no step changes the address of
\* an entry but those that clear it.
THEOREM OneEntryPerDevice == Spec => []IeeeDistinct
<1>1. Init => IeeeDistinct
  BY DEF Init, IeeeDistinct, Blank
<1>2. TypeInv /\ IeeeDistinct /\ [Next]_vars => IeeeDistinct'
  <2> SUFFICES ASSUME TypeInv, IeeeDistinct, [Next]_vars PROVE IeeeDistinct'
    OBVIOUS
  <2>1. table \in [Slots -> EntryType]
    BY DEF TypeInv, TypeOK
  <2>2. CASE UNCHANGED table
    BY <2>2 DEF IeeeDistinct
  <2>3. CASE ErasePersistentData
    BY <2>3 DEF ErasePersistentData, ClearAllDeviceTables, IeeeDistinct, Blank
  <2>4. ASSUME NEW s \in Slots, NEW e \in EntryType, table' = [table EXCEPT ![s] = e],
               e.ieee = None \/ \A t \in Slots \ {s} : table[t].ieee # e.ieee
        PROVE  IeeeDistinct'
    BY <2>1, <2>4 DEF IeeeDistinct
  <2>5. ASSUME NEW s \in Slots, NEW e \in EntryType,
               e.ieee = table[s].ieee \/ e.ieee = None \/ FindIeee(e.ieee) = 0
        PROVE  e.ieee = None \/ \A t \in Slots \ {s} : table[t].ieee # e.ieee
    BY <2>5, SlotsFound DEF IeeeDistinct
  <2>6. Blank.ieee = None
    BY DEF Blank
  <2>9. CASE Next
    <3>1. ASSUME NEW s \in Slots, NEW e \in EntryType, table' = [table EXCEPT ![s] = e],
                 e.ieee = table[s].ieee \/ e.ieee = None \/ FindIeee(e.ieee) = 0
          PROVE  IeeeDistinct'
      BY <2>4, <2>5, <3>1
    <3>2. ASSUME NEW s \in Slots, NEW e, Interviews(s, e)
          PROVE  e.ieee = table[s].ieee
      BY <3>2 DEF Interviews
    <3>3. ASSUME NEW s \in Slots, NEW e \in EntryType, EntryStep(s, e)
          PROVE  IeeeDistinct'
      <4>1. CASE /\ FindIeee(Head(queue).from) = 0
                 /\ e = [Blank EXCEPT !.node = Head(queue).node, !.ieee = Head(queue).from,
                                      !.state = "new"]
        <5>1. e.ieee = Head(queue).from
          BY <4>1 DEF Blank
        <5>. QED  BY <3>1, <3>3, <4>1, <5>1 DEF EntryStep
      <4>2. CASE e = Blank
        BY <2>6, <3>1, <3>3, <4>2 DEF EntryStep
      <4>3. CASE e = [table[s] EXCEPT !.node = Head(queue).node]
        <5>1. e.ieee = table[s].ieee
          BY <2>1, <4>3 DEF EntryType
        <5>. QED  BY <3>1, <3>3, <5>1 DEF EntryStep
      <4>4. CASE Interviews(s, e)
        BY <3>1, <3>2, <3>3, <4>4 DEF EntryStep
      <4>. QED  BY <3>3, <4>1, <4>2, <4>3, <4>4 DEF EntryStep
    <3>. QED  BY <2>2, <2>3, <2>9, <3>3, TableSteps
  <2>. QED  BY <2>2, <2>9 DEF vars, tableVars
<1>. QED  BY <1>1, <1>2, TypeHolds, PTL DEF Spec

-----------------------------------------------------------------------------
(* An active device is left alone.                                         *)

\* While the answer with the endpoints is awaited, the entry is a new one, or was
\* erased by the shell meanwhile: the wait ends by writing to it.
WaitsForNew ==
  h.at \in {"ask", "wait"} /\ h.kind = "activeEp" => Entry.state \in {"new", "null"}

LEMMA WaitsForNewStep == TypeInv /\ WaitsForNew /\ [Next]_vars => WaitsForNew'
<1> SUFFICES ASSUME TypeInv, WaitsForNew, [Next]_vars PROVE WaitsForNew'
  OBVIOUS
<1>1. /\ table \in [Slots -> EntryType] /\ h \in HandlerType
      /\ h.at # "idle" => h.slot \in Slots
  BY DEF TypeInv, TypeOK
<1>2. CASE UNCHANGED <<table, h>>
  BY <1>2 DEF WaitsForNew, Entry
<1>3. CASE h'.at \in {"idle", "loop", "next"}
  BY <1>3 DEF WaitsForNew
<1>4. \A s : Begin(s).at = "loop"
  BY DEF Begin, Idle
<1>5. Idle.at = "idle"
  BY DEF Idle
<1>6. CASE Loop
  <2>1. CASE LoopNew
    BY <1>1, <1>6, <2>1 DEF Loop, LoopNew, WaitsForNew, Entry, HandlerType, tableVars
  <2>2. CASE LoopCluster
    <3>1. h' = Idle \/ h' = [h EXCEPT !.at = "ask", !.kind = "descriptor", !.try = 1]
      BY <2>2 DEF LoopCluster
    <3>2. CASE h' = [h EXCEPT !.at = "ask", !.kind = "descriptor", !.try = 1]
      BY <1>1, <3>2 DEF WaitsForNew, HandlerType
    <3>. QED  BY <1>3, <1>5, <3>1, <3>2
  <2>3. ASSUME NEW kind, NEW todo, LoopClusters(kind, todo)
        PROVE  WaitsForNew'
    BY <1>1, <2>3 DEF LoopClusters, WaitsForNew, HandlerType
  <2>4. CASE LoopOther
    BY <1>3, <1>5, <2>4 DEF LoopOther
  <2>. QED  BY <1>6, <2>1, <2>2, <2>3, <2>4 DEF Loop
<1>7. CASE h.at \in {"ask", "wait"} /\ Failed
  <2>1. CASE h' = [h EXCEPT !.at = "ask", !.try = 2] /\ table' = table
    BY <1>1, <1>7, <2>1 DEF WaitsForNew, Entry, HandlerType
  <2>2. CASE h' = [h EXCEPT !.at = "next"]
    BY <1>1, <2>2 DEF WaitsForNew, HandlerType
  <2>. QED  BY <1>3, <1>4, <1>5, <1>7, <2>1, <2>2, FailedFacts
<1>8. CASE /\ h.at = "ask" /\ UNCHANGED table
           /\ h' = [h EXCEPT !.at = "wait", !.woken = FALSE]
  BY <1>1, <1>8 DEF WaitsForNew, Entry, HandlerType
<1>9. CASE /\ h.at = "wait" /\ UNCHANGED table
           /\ h' = [h EXCEPT !.woken = TRUE]
  BY <1>1, <1>9 DEF WaitsForNew, Entry, HandlerType
<1>10. CASE ReadCluster \/ BindCluster
  <2>1. CASE h.kind = "readAttr" /\ h' = [h EXCEPT !.at = "ask", !.try = 1, !.todo = Tail(@)]
    BY <1>1, <2>1 DEF WaitsForNew, HandlerType
  <2>2. CASE h.at = "next" /\ h' = [h EXCEPT !.todo = Tail(@)]
    BY <1>1, <2>2 DEF WaitsForNew, HandlerType
  <2>. QED  BY <1>10, <2>1, <2>2 DEF ReadCluster, BindCluster
<1>11. CASE Wake
  <2>1. CASE h' = [h EXCEPT !.at = "next"]
    BY <1>1, <2>1 DEF WaitsForNew, HandlerType
  <2>. QED  BY <1>3, <1>5, <1>11, <2>1 DEF Wake
<1>12. CASE ErasePersistentData
  <2>1. /\ h' = [h EXCEPT !.todo = <<>>]
        /\ table' = [s \in Slots |-> Blank]
    BY <1>12 DEF ErasePersistentData, ClearAllDeviceTables
  <2>2. Blank.state = "null"
    BY DEF Blank
  <2> HIDE DEF Blank
  <2>3. CASE h.at # "idle"
    <3>1. h'.slot \in Slots /\ table'[h'.slot].state = "null"
      BY <1>1, <2>1, <2>2, <2>3 DEF HandlerType
    <3>. QED  BY <3>1 DEF WaitsForNew, Entry
  <2>4. CASE h.at = "idle"
    BY <1>1, <1>3, <2>1, <2>4 DEF HandlerType
  <2>. QED  BY <2>3, <2>4
<1>13. CASE /\ h.at = "idle" /\ UNCHANGED h
  BY <1>13 DEF WaitsForNew
<1>14. CASE h' = Idle \/ \E s : h' = Begin(s)
  BY <1>3, <1>4, <1>5, <1>14
<1>15. CASE Next
  <2>1. CASE Callback
    <3>1. CASE HandleActiveEp
      BY <1>2, <1>14, <3>1, ActiveEpFacts
    <3>2. CASE HandleDescriptor
      BY <1>2, <1>14, <3>2, DescriptorFacts
    <3>3. CASE HandleAnnounce \/ HandleLeave \/ HandleReadAttr \/ HandleReport \/ HandleIeeeAddr
      BY <1>13, <1>14, <3>3
         DEF HandleAnnounce, HandleLeave, HandleReadAttr, HandleReport, HandleIeeeAddr, Taken
    <3>4. CASE Ask \/ Timeout
      BY <1>7, <1>8, <3>4 DEF Ask, Timeout
    <3>5. CASE Clusters
      BY <1>10, <1>14, <3>5 DEF Clusters, ReadEnds, BindEnds
    <3>. QED  BY <1>6, <1>11, <2>1, <3>1, <3>2, <3>3, <3>4, <3>5 DEF Callback
  <2>2. ASSUME NEW m, Arrive(m) PROVE WaitsForNew'
    BY <1>2, <1>9, <2>2 DEF Arrive, tableVars
  <2>3. CASE Network \/ \E s : TimerExpires(s)
    BY <1>2, <2>3 DEF Network, Join, Leave, Report, TimerExpires, tableVars
  <2>. QED  BY <1>12, <1>15, <2>1, <2>2, <2>3 DEF Next
<1>. QED  BY <1>2, <1>15 DEF vars, tableVars

\* Late, repeated or unexpected answers never send an active device back into the
\* interview (the tests of eDeviceState in the handlers of zcb.c): a step on its
\* entry leaves it active, gives it an address or clears the entry.
THEOREM ActiveLeftAlone == Spec => ActiveStaysActive
<1> DEFINE Kept == \A s \in Slots :
                     table[s].state = "active" /\ table[s].node # None =>
                       table'[s].state = "active" \/ table'[s] = Blank
<1>1. Init => WaitsForNew
  BY DEF Init, WaitsForNew, Idle
<1>2. TypeInv /\ WaitsForNew /\ [Next]_vars => [Kept]_vars
  <2> SUFFICES ASSUME TypeInv, WaitsForNew, Next PROVE Kept
    OBVIOUS
  <2>1. table \in [Slots -> EntryType]
    BY DEF TypeInv, TypeOK
  <2>2. CASE UNCHANGED table
    BY <2>2
  <2>3. CASE ErasePersistentData
    BY <2>3 DEF ErasePersistentData, ClearAllDeviceTables
  <2>4. ASSUME NEW s \in Slots, NEW e \in EntryType, table' = [table EXCEPT ![s] = e],
               \/ table[s].node = None \/ table[s].state # "active"
               \/ e.state = "active" \/ e = Blank
        PROVE  Kept
    BY <2>1, <2>4
  <2>5. ASSUME NEW s \in Slots, NEW e, Interviews(s, e)
        PROVE  table[s].state # "active" \/ e.state = "active"
    BY <2>5 DEF Interviews, WaitsForNew, Entry, Interviewed
  <2>6. ASSUME NEW s \in Slots, NEW n
        PROVE  [table[s] EXCEPT !.node = n].state = table[s].state
    BY <2>1 DEF EntryType
  <2> HIDE DEF Kept
  <2>7. ASSUME NEW s \in Slots, NEW e \in EntryType, EntryStep(s, e)
        PROVE  Kept
    BY <2>4, <2>5, <2>6, <2>7 DEF EntryStep
  <2>. QED  BY <2>2, <2>3, <2>7, TableSteps
<1>3. Spec => []WaitsForNew
  BY <1>1, WaitsForNewStep, TypeHolds, PTL DEF Spec
<1>. QED  BY <1>2, <1>3, TypeHolds, PTL DEF Spec, ActiveStaysActive

-----------------------------------------------------------------------------
(* No attributes of a device that is gone.                                 *)

\* The address of an entry is one that its device may have.
OwnAddresses ==
  \A s \in Slots : table[s].ieee # None => table[s].node \in AddressesOf[table[s].ieee]

Moving(n) == \E d \in Devices : MayMove(d) /\ n \in AddressesOf[d]

\* A device with two addresses is one that may move.
LEMMA TwoAddresses ==
  ASSUME NEW d \in Devices, NEW a \in AddressesOf[d], NEW b \in AddressesOf[d], a # b
  PROVE  MayMove(d)
<1>1. IsFiniteSet(AddressesOf[d])
  BY DevicesAssumption, FS_Subset
<1>2. {a, b} \subseteq AddressesOf[d]
  OBVIOUS
<1>3. Cardinality({a, b}) <= Cardinality(AddressesOf[d])
  BY <1>1, <1>2, FS_Subset
<1>4. IsFiniteSet({a}) /\ Cardinality({a}) = 1
  BY FS_Singleton
<1>5. {a, b} = {a} \cup {b} /\ b \notin {a}
  OBVIOUS
<1>6. Cardinality({a} \cup {b}) = 2
  BY <1>4, <1>5, FS_AddElement
<1>7. Cardinality(AddressesOf[d]) \in Nat
  BY <1>1, FS_CardinalityType
<1>. QED  BY <1>3, <1>5, <1>6, <1>7 DEF MayMove

\* What becomes of the identity of the entry that a step changes.
LEMMA EntryFacts ==
  ASSUME TypeInv, NEW s \in Slots, NEW e \in EntryType, EntryStep(s, e)
  PROVE  \/ /\ HandleAnnounce /\ table[s].node = None /\ FindIeee(Head(queue).from) = 0
            /\ e.node = Head(queue).node /\ e.ieee = Head(queue).from
            /\ e.state = "new" /\ e.epCount = 0 /\ e.eps = Blank.eps
         \/ HandleLeave /\ table[s].ieee = Head(queue).from /\ e = Blank
         \/ /\ HandleIeeeAddr /\ table[s].ieee = Head(queue).from
            /\ e.ieee = Head(queue).from /\ e.node = Head(queue).node
            /\ e.state = table[s].state /\ e.epCount = table[s].epCount
            /\ e.eps = table[s].eps
         \/ e.node = table[s].node /\ e.ieee = table[s].ieee /\ Interviews(s, e)
<1>1. table[s] \in EntryType /\ s # 0
  <2>1. table[s] \in EntryType
    BY DEF TypeInv, TypeOK
  <2>2. s # 0
    BY SizesAssumption DEF Slots
  <2>. QED  BY <2>1, <2>2
<1>2. CASE /\ HandleAnnounce /\ table[s].node = None /\ FindIeee(Head(queue).from) = 0
           /\ e = [Blank EXCEPT !.node = Head(queue).node, !.ieee = Head(queue).from,
                                !.state = "new"]
  <2>1. /\ e.node = Head(queue).node /\ e.ieee = Head(queue).from
        /\ e.state = "new" /\ e.epCount = 0 /\ e.eps = Blank.eps
    BY <1>2 DEF Blank
  <2>. QED  BY <1>2, <2>1
<1>3. s = FindIeee(Head(queue).from) => table[s].ieee = Head(queue).from
  BY <1>1, SlotsFound
<1>4. CASE HandleLeave /\ s = FindIeee(Head(queue).from) /\ e = Blank
  BY <1>3, <1>4
<1>5. CASE /\ HandleIeeeAddr /\ s = FindIeee(Head(queue).from)
           /\ e = [table[s] EXCEPT !.node = Head(queue).node]
  <2>1. /\ e.ieee = table[s].ieee /\ e.node = Head(queue).node
        /\ e.state = table[s].state /\ e.epCount = table[s].epCount
        /\ e.eps = table[s].eps
    BY <1>1, <1>5 DEF EntryType
  <2>. QED  BY <1>3, <1>5, <2>1
<1>6. Interviews(s, e) => e.node = table[s].node /\ e.ieee = table[s].ieee
  BY DEF Interviews
<1>. QED  BY <1>2, <1>4, <1>5, <1>6 DEF EntryStep

LEMMA OwnAddressesStep == TypeInv /\ OwnAddresses /\ [Next]_vars => OwnAddresses'
<1> SUFFICES ASSUME TypeInv, OwnAddresses, [Next]_vars PROVE OwnAddresses'
  OBVIOUS
<1>1. table \in [Slots -> EntryType]
  BY DEF TypeInv, TypeOK
<1>2. CASE UNCHANGED table
  BY <1>2 DEF OwnAddresses
<1>3. CASE ErasePersistentData
  BY <1>3 DEF ErasePersistentData, ClearAllDeviceTables, OwnAddresses, Blank
<1>4. ASSUME NEW s \in Slots, NEW e \in EntryType, EntryStep(s, e)
      PROVE  OwnAddresses'
  <2>1. HandleAnnounce \/ HandleIeeeAddr => Head(queue).node \in AddressesOf[Head(queue).from]
    BY HandlersTake DEF HandleAnnounce, HandleIeeeAddr, Sent
  <2>2. e.ieee # None => e.node \in AddressesOf[e.ieee]
    <3>1. Blank.ieee = None
      BY DEF Blank
    <3>. QED  BY <1>4, <2>1, <3>1, EntryFacts DEF OwnAddresses
  <2>3. table' = [table EXCEPT ![s] = e]
    BY <1>4 DEF EntryStep
  <2>. QED  BY <1>1, <2>2, <2>3 DEF OwnAddresses
<1>. QED  BY <1>2, <1>3, <1>4, TableSteps DEF vars, tableVars

\* AttributesHaveDevice, without the search of the table.
AttributesNamed ==
  \A i \in DOMAIN attrs :
    Moving(attrs[i].node) \/ \E s \in Slots : table[s].node = attrs[i].node

LEMMA AttributesNamedStep ==
  TypeInv /\ OwnAddresses /\ AttributesNamed /\ [Next]_vars => AttributesNamed'
<1> SUFFICES ASSUME TypeInv, OwnAddresses, AttributesNamed, [Next]_vars
             PROVE  AttributesNamed'
  OBVIOUS
<1>1. /\ table \in [Slots -> EntryType]
      /\ \A i \in DOMAIN attrs : attrs[i].node \in Nodes
  <2>1. table \in [Slots -> EntryType] /\ attrs \in Seq(AttributeType)
    BY DEF TypeInv, TypeOK
  <2>2. \A i \in DOMAIN attrs : attrs[i] \in AttributeType
    BY <2>1, ElementOfSeq, LenProperties
  <2>. QED  BY <2>1, <2>2 DEF AttributeType
<1>2. CASE UNCHANGED <<table, attrs>>
  BY <1>2 DEF AttributesNamed, Moving
\* An address that was held is held, or one that its device changed.
<1>3. ASSUME NEW s \in Slots, NEW e \in EntryType, EntryStep(s, e),
             NEW n \in Nodes, Moving(n) \/ \E t \in Slots : table[t].node = n,
             ~ HandleLeave
      PROVE  Moving(n) \/ \E t \in Slots : table'[t].node = n
  <2>1. n # None /\ table' = [table EXCEPT ![s] = e]
    BY <1>3, DevicesAssumption DEF EntryStep
  <2>2. CASE \E t \in Slots \ {s} : table[t].node = n
    BY <1>1, <2>1, <2>2
  <2>3. CASE e.node = n
    BY <1>1, <2>1, <2>3
  <2>4. CASE /\ table[s].node = n /\ e.node # n
             /\ HandleIeeeAddr /\ table[s].ieee = Head(queue).from
             /\ e.node = Head(queue).node
    <3>1. /\ Head(queue).from \in Devices
          /\ Head(queue).node \in AddressesOf[Head(queue).from]
      BY <2>4, HandlersTake DEF HandleIeeeAddr, Sent, Messages
    <3>2. n \in AddressesOf[Head(queue).from]
      BY <2>4, <3>1, DevicesAssumption DEF OwnAddresses
    <3>. QED  BY <2>4, <3>1, <3>2, TwoAddresses DEF Moving
  <2>. QED  BY <1>3, <2>1, <2>2, <2>3, <2>4, EntryFacts
<1>4. ASSUME NEW n \in Nodes, Moving(n) \/ \E t \in Slots : table[t].node = n,
             Next, ~ ErasePersistentData,
             HandleLeave => n # table[FindIeee(Head(queue).from)].node
      PROVE  Moving(n) \/ \E t \in Slots : table'[t].node = n
  <2>1. CASE UNCHANGED table
    BY <1>4, <2>1
  <2>2. CASE HandleLeave
    <3> DEFINE s == FindIeee(Head(queue).from)
    <3>1. CASE s # 0 /\ table' = [table EXCEPT ![s] = Blank]
      BY <1>1, <1>4, <2>2, <3>1
    <3>. QED  BY <2>1, <2>2, <3>1 DEF HandleLeave
  <2>. QED  BY <1>3, <1>4, <2>1, <2>2, TableSteps
<1>5. ASSUME NEW i \in DOMAIN attrs', Next
      PROVE  Moving(attrs'[i].node) \/ \E t \in Slots : table'[t].node = attrs'[i].node
  <2>1. CASE i \in DOMAIN attrs /\ attrs'[i] = attrs[i] /\ ~ ErasePersistentData /\ ~ HandleLeave
    BY <1>1, <1>4, <1>5, <2>1 DEF AttributesNamed
  <2>2. CASE HandleLeave /\ ~ ErasePersistentData
    <3>1. CASE /\ i \in DOMAIN attrs /\ attrs'[i] = attrs[i]
               /\ attrs'[i].node # table[FindIeee(Head(queue).from)].node
      BY <1>1, <1>4, <1>5, <2>2, <3>1 DEF AttributesNamed
    <3>2. CASE UNCHANGED <<table, attrs>>
      BY <1>2, <3>2 DEF AttributesNamed
    <3>3. CASE EraseAttributes(table[FindIeee(Head(queue).from)].node)
      BY <1>5, <3>1, <3>3, EraseFacts
    <3>. QED  BY <2>2, <3>2, <3>3 DEF HandleLeave
  <2>3. CASE ErasePersistentData
    <3>1. attrs' = <<>>
      BY <2>3 DEF ErasePersistentData, ClearAllDeviceTables
    <3>. QED  BY <1>5, <3>1
  <2>4. CASE /\ h.at = "next" /\ ValidNode(Entry.node) /\ attrs'[i].node = Entry.node
             /\ ~ ErasePersistentData /\ ~ HandleLeave
    <3>1. h.slot \in Slots /\ table[h.slot] = Entry /\ Entry \in EntryType
      BY <2>4, EntryTyped
    <3>2. Entry.node \in Nodes
      BY <2>4, <3>1 DEF EntryType, ValidNode
    <3>. QED  BY <1>4, <1>5, <2>4, <3>1, <3>2
  <2>. QED  BY <1>5, <2>1, <2>2, <2>3, <2>4, AttributesStep
<1>6. CASE Next
  BY <1>5, <1>6 DEF AttributesNamed, Moving
<1>. QED  BY <1>2, <1>6 DEF vars, tableVars

LEMMA NamesHold == Spec => []AttributesNamed
<1>1. Init => OwnAddresses /\ AttributesNamed
  BY DEF Init, OwnAddresses, AttributesNamed, Blank
<1>2. Spec => []OwnAddresses
  BY <1>1, OwnAddressesStep, TypeHolds, PTL DEF Spec
<1>. QED  BY <1>1, <1>2, AttributesNamedStep, TypeHolds, PTL DEF Spec

\* attributeTable keeps nothing of a device that left or was erased
\* (bZDM_EraseDeviceFromDeviceTable, vZDM_ClearAllDeviceTables), whenever the
\* handler that fills it is interrupted, but for those that change their address.
THEOREM AttributesOfDevices == Spec => []AttributesHaveDevice
<1>1. AttributesNamed /\ TypeInv => AttributesHaveDevice
  <2> SUFFICES ASSUME AttributesNamed, TypeInv PROVE AttributesHaveDevice
    OBVIOUS
  <2>1. \A i \in DOMAIN attrs : attrs[i].node \in Nodes
    <3>1. attrs \in Seq(AttributeType)
      BY DEF TypeInv, TypeOK
    <3>2. \A i \in DOMAIN attrs : attrs[i] \in AttributeType
      BY <3>1, ElementOfSeq, LenProperties
    <3>. QED  BY <3>2 DEF AttributeType
  <2>2. ASSUME NEW n, n # None, NEW s \in Slots, table[s].node = n
        PROVE  FindNode(n) # 0
    BY <2>2, SlotsFound DEF ValidNode
  <2>. QED  BY <2>1, <2>2, DevicesAssumption DEF AttributesNamed, AttributesHaveDevice, Moving
<1>. QED  BY <1>1, NamesHold, TypeHolds, PTL

-----------------------------------------------------------------------------
(* The pointers that are used without a test.                              *)

\* No device left or was erased, no endpoint was taken from behind the array,
\* and no device may change its address.
Calm == gone = 0 /\ ~ beyond /\ \A d \in Devices : ~ MayMove(d)

OnTheWay == BagToSet(air) \cup {queue[i] : i \in DOMAIN queue}

\* As long as it is calm, everybody has the address it joined with.
Addressed ==
  /\ \A m \in OnTheWay : net[m.from] = m.node /\ m.kind # "leave"
  /\ \A d, e \in Devices : net[d] = net[e] => d = e \/ net[d] = None
  /\ \A s \in Slots : table[s].ieee = None <=> table[s].node = None
  /\ \A s \in Slots : table[s].ieee # None => table[s].node = net[table[s].ieee]
  /\ h.at # "idle" => Entry.ieee # None

\* Endpoint i of an entry is the first with id 1.
FirstOne(e, i) ==
  /\ i \in 1..MaxEndpoints /\ e.eps[i].id = 1
  /\ \A k \in 1..MaxEndpoints : k < i => e.eps[k].id # 1
\* The device has said which endpoints it has.
Filled(e) ==
  /\ Len(EndpointsOf[e.ieee]) <= MaxEndpoints
  /\ \A i \in 1..Len(EndpointsOf[e.ieee]) : e.eps[i].id = EndpointsOf[e.ieee][i]
\* An entry has the endpoints the device said, or none, and clusters only of the
\* first endpoint 1, which is the only one that is asked for.
EntryGood(e) ==
  /\ (\A i \in 1..MaxEndpoints : e.eps[i].id = 0) \/ Filled(e)
  /\ \A i \in 1..MaxEndpoints : e.eps[i].clusters # <<>> => FirstOne(e, i)
PositionGood(e, p) ==
  /\ p.ep = 1
  /\ \E i \in 1..MaxEndpoints :
       /\ FirstOne(e, i)
       /\ \E j \in DOMAIN e.eps[i].clusters : p.cluster = e.eps[i].clusters[j]

\* Whoever is asked for a descriptor has said which endpoints it has, and so has
\* whoever answers.
DescriptorsKnown ==
  /\ h.at \in {"ask", "wait"} /\ h.kind = "descriptor" => Filled(Entry)
  /\ \A m \in OnTheWay :
       m.kind = "descriptor" =>
         /\ \E i \in DOMAIN EndpointsOf[m.from] : EndpointsOf[m.from][i] = 1
         /\ \E s \in Slots : table[s].ieee = m.from /\ Filled(table[s])

CalmInv ==
  Calm => /\ Addressed
          /\ \A s \in Slots : EntryGood(table[s])
          /\ DescriptorsKnown
          /\ h.todo \in Seq({p \in Position : PositionGood(Entry, p)})
          /\ broken # "pointer"

\* A device that cannot move has one address.
LEMMA OneAddress ==
  ASSUME NEW d \in Devices, ~ MayMove(d), NEW a \in AddressesOf[d], NEW b \in AddressesOf[d]
  PROVE  a = b
BY TwoAddresses

\* The messages on their way after a step.
LEMMA MessagesStep ==
  ASSUME TypeInv, Next, NEW m \in OnTheWay'
  PROVE  \/ m \in OnTheWay
         \/ \E d \in Devices, n \in Nodes : Join(d, n) /\ m = Msg("announce", d, n)
         \/ gone' > gone
         \/ m.kind = "report" /\ net[m.from] = m.node
         \/ m.kind = "ieeeAddr" /\ net[m.from] = m.node
         \/ Ask /\ m.kind = h.kind /\ m.node = Entry.node /\ m.from \in Asked(h.kind, Entry.node)
<1> DEFINE Goal ==
         \/ m \in OnTheWay
         \/ \E d \in Devices, n \in Nodes : Join(d, n) /\ m = Msg("announce", d, n)
         \/ gone' > gone
         \/ m.kind = "report" /\ net[m.from] = m.node
         \/ m.kind = "ieeeAddr" /\ net[m.from] = m.node
         \/ Ask /\ m.kind = h.kind /\ m.node = Entry.node /\ m.from \in Asked(h.kind, Entry.node)
<1> SUFFICES Goal
  OBVIOUS
<1>1. /\ queue \in Seq(Sent) /\ gone \in Nat /\ Len(queue) \in Nat
      /\ DOMAIN queue = 1..Len(queue)
      /\ net \in [Devices -> Nodes \cup {None}]
      /\ IsABag(air) /\ BagToSet(air) \subseteq Sent
  BY SizesAssumption, LenProperties DEF TypeInv, TypeOK
<1>2. CASE UNCHANGED <<air, queue>>
  BY <1>2 DEF OnTheWay
<1>0. (\E kind : Taken(kind)) =>
        \A i \in DOMAIN queue' : \E j \in DOMAIN queue : queue'[i] = queue[j]
  <2> SUFFICES ASSUME \E kind : Taken(kind)
               PROVE  \A i \in DOMAIN queue' : \E j \in DOMAIN queue : queue'[i] = queue[j]
    OBVIOUS
  <2>1. queue # <<>> /\ queue' = Tail(queue)
    BY DEF Taken
  <2>2. /\ Len(Tail(queue)) = Len(queue) - 1
        /\ \A i \in 1..(Len(queue) - 1) : Tail(queue)[i] = queue[i + 1]
        /\ Tail(queue) \in Seq(Sent)
    BY <1>1, <2>1, HeadTailProperties
  <2>3. DOMAIN queue' = 1..(Len(queue) - 1)
    BY <2>1, <2>2, LenProperties
  <2>4. ASSUME NEW i \in 1..(Len(queue) - 1)
        PROVE  i + 1 \in 1..Len(queue) /\ queue'[i] = queue[i + 1]
    BY <1>1, <2>1, <2>2
  <2>. QED  BY <1>1, <2>3, <2>4
<1>3. CASE (\E kind : Taken(kind)) /\ UNCHANGED air
  BY <1>0, <1>3 DEF OnTheWay
<1>4. CASE HandleReport /\ ~ UNCHANGED air
  <2>1. PICK answered \in BOOLEAN : Question("ieeeAddr", Head(queue).node, answered)
    BY <1>4 DEF HandleReport
  <2>2. "ieeeAddr" \in Kinds
    BY DEF Kinds
  <2>3. m \in BagToSet(air') => m \in BagToSet(air) \/
          (m.kind = "ieeeAddr" /\ m.node = Head(queue).node
             /\ m.from \in Asked("ieeeAddr", Head(queue).node))
    BY <2>1, <2>2, QuestionAsked
  <2>4. m \in BagToSet(air') => Goal
    BY <2>3 DEF OnTheWay, Asked
  <2>5. m \in {queue'[i] : i \in DOMAIN queue'} => m \in {queue[i] : i \in DOMAIN queue}
    BY <1>0, <1>4 DEF HandleReport
  <2>. QED  BY <2>4, <2>5 DEF OnTheWay
<1>5. ASSUME NEW x, Arrive(x)
      PROVE  Goal
  <2>1. x \in BagToSet(air) /\ BagToSet(air') \subseteq BagToSet(air)
    BY <1>1, <1>5, BagTakes DEF Arrive
  <2>2. CASE queue' = queue
    BY <2>1, <2>2 DEF OnTheWay
  <2>3. CASE queue' = Append(queue, x)
    <3>1. x \in Sent
      BY <1>1, <2>1
    <3>2. /\ DOMAIN queue' = 1..(Len(queue) + 1)
          /\ \A i \in 1..(Len(queue) + 1) : queue'[i] = IF i <= Len(queue) THEN queue[i] ELSE x
      BY <1>1, <2>3, <3>1, AppendProperties, LenProperties
    <3>3. \A i \in DOMAIN queue' : queue'[i] = x \/ (i \in DOMAIN queue /\ queue'[i] = queue[i])
      BY <1>1, <3>2
    <3>. QED  BY <2>1, <3>3 DEF OnTheWay
  <2>. QED  BY <1>5, <2>2, <2>3 DEF Arrive
<1>6. ASSUME NEW d \in Devices, NEW n \in Nodes, Join(d, n)
      PROVE  Goal
  <2>1. Msg("announce", d, n) \in Sent
    BY <1>6 DEF Join, Msg, Sent, Messages, Kinds
  <2>2. BagToSet(air') = BagToSet(air) \cup {Msg("announce", d, n)} /\ queue' = queue
    BY <1>6, <2>1, SentInAir DEF Join
  <2>. QED  BY <1>6, <2>2 DEF OnTheWay
<1>7. ASSUME NEW d \in Devices, Leave(d)
      PROVE  Goal
  BY <1>1, <1>7 DEF Leave
<1>8. ASSUME NEW d \in Devices, Report(d)
      PROVE  Goal
  <2>1. Msg("report", d, net[d]) \in Sent
    BY <1>1, <1>8 DEF Report, Msg, Sent, Messages, Kinds, TypeInv
  <2>2. BagToSet(air') = BagToSet(air) \cup {Msg("report", d, net[d])} /\ queue' = queue
    BY <1>8, <2>1, SentInAir DEF Report
  <2>. QED  BY <2>2 DEF OnTheWay, Msg
<1>9. CASE Ask
  <2>1. h.kind \in Kinds /\ queue' = queue
    BY <1>9 DEF Ask, TypeInv, Kinds
  <2>2. PICK answered \in BOOLEAN : Question(h.kind, Entry.node, answered)
    BY <1>9 DEF Ask
  <2>. QED  BY <1>9, <2>1, <2>2, QuestionAsked DEF OnTheWay
<1>10. CASE ErasePersistentData
  BY <1>1, <1>10 DEF ErasePersistentData
<1>11. Callback => \/ UNCHANGED <<air, queue>> \/ Ask \/ HandleReport
                   \/ (\E kind : Taken(kind)) /\ UNCHANGED air
  BY DEF Callback, Loop, Wake, Timeout, Clusters, HandleAnnounce, HandleLeave, HandleActiveEp,
         HandleDescriptor, HandleReadAttr, HandleIeeeAddr, envVars
<1>12. HandleReport => \E kind : Taken(kind)
  BY DEF HandleReport
<1>13. \A s : TimerExpires(s) => UNCHANGED <<air, queue>>
  BY DEF TimerExpires, envVars
<1> HIDE DEF Goal
<1>. QED
  BY <1>2, <1>3, <1>4, <1>5, <1>6, <1>7, <1>8, <1>9, <1>10, <1>11, <1>12, <1>13
     DEF Next, Network

\* What a step leaves alone as long as it is calm.
LEMMA CalmStep ==
  ASSUME TypeInv, CalmInv, Next, Calm'
  PROVE  /\ Calm /\ Addressed
         /\ ~ ErasePersistentData /\ ~ HandleLeave
         /\ net' \in [Devices -> Nodes \cup {None}]
         /\ \A d \in Devices : net[d] # None => net'[d] = net[d]
         /\ \A s \in Slots : table[s].ieee # None => table'[s].ieee = table[s].ieee
<1>1. Calm
  <2>1. gone = 0
    BY CountersStep, SizesAssumption DEF Calm, TypeInv, TypeOK
  <2>2. beyond => beyond'
    BY DEF Next, Callback, Network, Loop, LoopNew, LoopCluster, LoopClusters, LoopOther, Ask,
           Wake, Timeout, Clusters, ReadCluster, ReadEnds, BindCluster, BindEnds, IndexReset,
           HandleAnnounce, HandleLeave, HandleActiveEp, HandleDescriptor, HandleReadAttr,
           HandleReport, HandleIeeeAddr, Join, Leave, Report, Arrive, ErasePersistentData,
           TimerExpires, indexVars
  <2>. QED  BY <2>1, <2>2 DEF Calm, MayMove
<1>2. Addressed
  BY <1>1 DEF CalmInv
<1>3. gone = 0 /\ gone' = 0
  BY <1>1 DEF Calm
<1>4. ~ ErasePersistentData
  BY <1>3 DEF ErasePersistentData
<1>5. ~ HandleLeave
  <2> SUFFICES ASSUME HandleLeave PROVE FALSE
    OBVIOUS
  <2>1. queue \in Seq(Sent) /\ queue # <<>> /\ Head(queue).kind = "leave"
    BY DEF HandleLeave, Taken, TypeInv
  <2>2. Head(queue) = queue[1] /\ 1 \in DOMAIN queue
    BY <2>1, EmptySeq, LenProperties
  <2>. QED  BY <1>2, <2>1, <2>2 DEF Addressed, OnTheWay
<1>6. /\ net' \in [Devices -> Nodes \cup {None}]
      /\ \A d \in Devices : net[d] # None => net'[d] = net[d]
  <2>1. /\ net' \in [Devices -> Nodes \cup {None}]
        /\ \A d \in Devices : net'[d] # None => net'[d] \in AddressesOf[d]
        /\ \A d \in Devices : net[d] # None => net[d] \in AddressesOf[d]
        /\ net \in [Devices -> Nodes \cup {None}]
    BY NetworkStep DEF TypeInv, TypeOK
  <2>2. CASE UNCHANGED net
    BY <2>1, <2>2
  <2>3. ASSUME NEW d \in Devices, NEW n \in Nodes, Join(d, n)
        PROVE  \A e \in Devices : net[e] # None => net'[e] = net[e]
    <3>1. net' = [net EXCEPT ![d] = n] /\ n \in AddressesOf[d]
      BY <2>3 DEF Join
    <3>2. net[d] # None => net[d] = n
      BY <1>1, <2>1, <3>1, OneAddress DEF Calm
    <3>. QED  BY <2>1, <3>1, <3>2
  <2>4. ASSUME NEW d \in Devices PROVE ~ Leave(d)
    BY <1>3 DEF Leave
  <2>5. UNCHANGED net \/ \E d \in Devices, n \in Nodes : Join(d, n)
    BY <1>4, <2>4
       DEF Next, Callback, Network, Loop, Ask, Wake, Timeout, Clusters, HandleAnnounce, HandleLeave,
         HandleActiveEp, HandleDescriptor, HandleReadAttr, HandleReport, HandleIeeeAddr, Taken,
         Report, Arrive, TimerExpires, envVars
  <2>. QED  BY <2>1, <2>2, <2>3, <2>5
<1>7. ASSUME NEW t \in Slots, table[t].ieee # None
      PROVE  table'[t].ieee = table[t].ieee
  <2>1. ASSUME NEW s \in Slots, NEW e \in EntryType, EntryStep(s, e)
        PROVE  table'[t].ieee = table[t].ieee
    <3>1. table' = [table EXCEPT ![s] = e] /\ table \in [Slots -> EntryType]
      BY <2>1 DEF EntryStep, TypeInv, TypeOK
    <3>2. s = t => e.ieee = table[t].ieee
      BY <1>2, <1>5, <1>7, <2>1, EntryFacts DEF Addressed
    <3>. QED  BY <3>1, <3>2
  <2>. QED  BY <1>4, <2>1, TableSteps
<1>. QED  BY <1>1, <1>2, <1>4, <1>5, <1>6, <1>7

\* The entry the handler works on is the same, a new one, or the one with the
\* address of an answer.
LEMMA SlotStep ==
  ASSUME TypeInv, Next, h'.at # "idle"
  PROVE  \/ h.at # "idle" /\ h'.slot = h.slot
         \/ /\ h' = Begin(h'.slot) /\ h'.slot \in Slots /\ h.at = "idle"
            /\ \/ HandleAnnounce /\ h'.slot = FreeSlot
               \/ /\ HandleActiveEp \/ HandleDescriptor \/ HandleReadAttr
                  /\ table[h'.slot].node = Head(queue).node /\ table[h'.slot].node # None
<1> DEFINE Same == h.at # "idle" /\ h'.slot = h.slot
           Begins == \E s \in Slots :
                       /\ h' = Begin(s) /\ h.at = "idle"
                       /\ \/ HandleAnnounce /\ s = FreeSlot
                          \/ /\ HandleActiveEp \/ HandleDescriptor \/ HandleReadAttr
                             /\ table[s].node = Head(queue).node /\ table[s].node # None
<1>0. /\ h \in HandlerType /\ Idle.at = "idle"
      /\ h.at = "idle" => h = Idle
      /\ \A s : Begin(s).slot = s
  BY DEF TypeInv, Idle, Begin
<1>1. CASE HandleActiveEp
  <2>1. h.at = "idle" /\ Head(queue).node \in Nodes
    BY <1>1, HandlersTake DEF HandleActiveEp, Taken, Sent, Messages
  <2> DEFINE s == FindNode(Head(queue).node)
  <2>2. s \in Slots /\ table[s].node = Head(queue).node /\ h' = Begin(s)
    <3>1. UNCHANGED <<table, h>> => h'.at = "idle"
      BY <2>1
    <3>. QED  BY <1>1, <3>1, ActiveEpFacts
  <2> HIDE DEF s
  <2>3. h'.slot = s /\ table[s].node # None
    BY <1>0, <2>1, <2>2, DevicesAssumption
  <2>. QED  BY <1>1, <2>1, <2>2, <2>3
<1>2. CASE HandleDescriptor
  <2>1. h.at = "idle" /\ Head(queue).node \in Nodes
    BY <1>2, HandlersTake DEF HandleDescriptor, Taken, Sent, Messages
  <2> DEFINE s == FindNode(Head(queue).node)
  <2>2. s \in Slots /\ table[s].node = Head(queue).node /\ h' = Begin(s)
    <3>1. UNCHANGED <<table, h>> => h'.at = "idle"
      BY <2>1
    <3>. QED  BY <1>2, <3>1, DescriptorFacts
  <2> HIDE DEF s
  <2>3. h'.slot = s /\ table[s].node # None
    BY <1>0, <2>1, <2>2, DevicesAssumption
  <2>. QED  BY <1>2, <2>1, <2>2, <2>3
<1>3. CASE HandleReadAttr
  <2>1. h.at = "idle"
    BY <1>3 DEF HandleReadAttr, Taken
  <2>2. CASE FindNode(Head(queue).node) # 0 /\ h' = Begin(FindNode(Head(queue).node))
    BY <1>0, <1>3, <2>1, <2>2, SlotsFound DEF ValidNode
  <2>3. CASE UNCHANGED h
    BY <2>1, <2>3
  <2>. QED  BY <1>3, <2>2, <2>3 DEF HandleReadAttr
<1>4. CASE HandleAnnounce
  <2>1. h.at = "idle"
    BY <1>4 DEF HandleAnnounce, Taken
  <2>2. CASE FreeSlot # 0 /\ h' = Begin(FreeSlot)
    BY <1>0, <1>4, <2>1, <2>2, SlotsFound
  <2>3. CASE UNCHANGED h
    BY <2>1, <2>3
  <2>. QED  BY <1>4, <2>2, <2>3 DEF HandleAnnounce
<1>5. CASE h.at = "idle" /\ UNCHANGED h
  BY <1>5
<1>6. CASE h.at # "idle"
  <2>1. CASE h' = Idle
    BY <1>0, <2>1
  <2>2. CASE h.at \in {"ask", "wait"} /\ Failed
    BY <1>0, <1>6, <2>2, FailedFacts DEF HandlerType
  <2>3. CASE Loop
    BY <1>0, <1>6, <2>3 DEF Loop, LoopNew, LoopCluster, LoopClusters, LoopOther, HandlerType
  <2>4. CASE Ask
    BY <1>0, <1>6, <2>2, <2>4 DEF Ask, HandlerType
  <2>5. CASE Wake
    BY <1>0, <1>6, <2>5 DEF Wake, HandlerType
  <2>6. CASE Clusters
    BY <1>0, <1>6, <2>6 DEF Clusters, ReadCluster, ReadEnds, BindCluster, BindEnds, HandlerType
  <2>7. CASE UNCHANGED h
    BY <1>6, <2>7
  <2>8. CASE h' = [h EXCEPT !.woken = TRUE] \/ h' = [h EXCEPT !.todo = <<>>]
    BY <1>0, <1>6, <2>8 DEF HandlerType
  <2>9. ~ \E kind : Taken(kind)
    BY <1>6 DEF Taken
  <2>. QED
    BY <1>6, <2>1, <2>2, <2>3, <2>4, <2>5, <2>6, <2>7, <2>8, <2>9
       DEF Next, Callback, Network, Timeout, Join, Leave, Report, Arrive, ErasePersistentData,
           ClearAllDeviceTables, TimerExpires, HandleAnnounce, HandleLeave, HandleActiveEp,
           HandleDescriptor, HandleReadAttr, HandleReport, HandleIeeeAddr
<1>7. \/ HandleActiveEp \/ HandleDescriptor \/ HandleReadAttr \/ HandleAnnounce
      \/ h.at # "idle" \/ (h.at = "idle" /\ UNCHANGED h)
  BY <1>0 DEF Next, Callback, Network, Loop, Ask, Wake, Timeout, Clusters, ReadCluster, ReadEnds,
       BindCluster, BindEnds, HandleLeave, HandleReport, HandleIeeeAddr, Join, Leave, Report,
       Arrive, ErasePersistentData, ClearAllDeviceTables, TimerExpires, Idle
<1>. QED  BY <1>1, <1>2, <1>3, <1>4, <1>5, <1>6, <1>7

LEMMA AddressedStep ==
  ASSUME TypeInv, TypeInv', CalmInv, Next, Calm'
  PROVE  Addressed'
<1> USE DEF Addressed
<1>1. /\ table \in [Slots -> EntryType] /\ net \in [Devices -> Nodes \cup {None}]
      /\ None \notin Nodes /\ None \notin Devices
  BY DevicesAssumption DEF TypeInv, TypeOK
<1>2. /\ Calm /\ Addressed /\ ~ ErasePersistentData /\ ~ HandleLeave
      /\ net' \in [Devices -> Nodes \cup {None}]
      /\ \A d \in Devices : net[d] # None => net'[d] = net[d]
      /\ \A s \in Slots : table[s].ieee # None => table'[s].ieee = table[s].ieee
  BY CalmStep
<1>3. ASSUME NEW m \in OnTheWay'
      PROVE  net'[m.from] = m.node /\ m.kind # "leave"
  <2>1. m \in Sent
    <3>1. BagToSet(air') \subseteq Sent /\ queue' \in Seq(Sent)
      BY DEF TypeInv
    <3>2. \A i \in DOMAIN queue' : queue'[i] \in Sent
      BY <3>1, ElementOfSeq, LenProperties
    <3>. QED  BY <3>1, <3>2 DEF OnTheWay
  <2>2. m.node \in Nodes /\ m.from \in Devices
    BY <2>1 DEF Sent, Messages
  <2>3. ASSUME NEW d \in Devices, NEW n \in Nodes, Join(d, n), m = Msg("announce", d, n)
        PROVE  net'[m.from] = m.node /\ m.kind # "leave"
    BY <1>1, <2>3 DEF Join, Msg
  <2>4. CASE Ask /\ m.kind = h.kind /\ m.node = Entry.node /\ m.from \in Asked(h.kind, Entry.node)
    <3>1. net[m.from] = m.node
      BY <2>4 DEF Asked
    <3>2. h.kind \in {"activeEp", "descriptor", "readAttr"}
      BY <2>4 DEF Ask, TypeInv
    <3>. QED  BY <1>1, <1>2, <2>2, <2>4, <3>1, <3>2
  <2>5. ~ (gone' > gone)
    BY <1>2 DEF Calm
  <2>6. CASE m \in OnTheWay
    BY <1>1, <1>2, <2>2, <2>6
  <2>7. CASE m.kind \in {"report", "ieeeAddr"} /\ net[m.from] = m.node
    BY <1>1, <1>2, <2>2, <2>7
  <2>. QED  BY <2>3, <2>4, <2>5, <2>6, <2>7, MessagesStep
<1>4. \A d, e \in Devices : net'[d] = net'[e] => d = e \/ net'[d] = None
  <2>1. ASSUME NEW d \in Devices, NEW n \in Nodes, Join(d, n)
        PROVE  \A x, y \in Devices : net'[x] = net'[y] => x = y \/ net'[x] = None
    BY <1>1, <1>2, <2>1 DEF Join, Unused
  <2>2. ASSUME NEW d \in Devices PROVE ~ Leave(d)
    BY <1>2 DEF Leave, Calm
  <2>3. UNCHANGED net \/ \E d \in Devices, n \in Nodes : Join(d, n)
    BY <1>2, <2>2
       DEF Next, Callback, Network, Loop, Ask, Wake, Timeout, Clusters, HandleAnnounce, HandleLeave,
         HandleActiveEp, HandleDescriptor, HandleReadAttr, HandleReport, HandleIeeeAddr, Taken,
         Report, Arrive, TimerExpires, envVars
  <2>. QED  BY <1>2, <2>1, <2>3
<1>5. /\ \A s \in Slots : table'[s].ieee = None <=> table'[s].node = None
      /\ \A s \in Slots : table'[s].ieee # None => table'[s].node = net'[table'[s].ieee]
  <2>1. ASSUME NEW e \in EntryType, e.ieee = None <=> e.node = None,
               e.ieee # None => e.node = net[e.ieee]
        PROVE  e.ieee # None => e.node = net'[e.ieee]
    BY <1>1, <1>2, <2>1 DEF EntryType
  <2>2. CASE UNCHANGED table
    BY <1>1, <1>2, <2>1, <2>2
  <2>3. ASSUME NEW s \in Slots, NEW e \in EntryType, EntryStep(s, e)
        PROVE  /\ e.ieee = None <=> e.node = None
               /\ e.ieee # None => e.node = net[e.ieee]
    <3>1. CASE /\ HandleAnnounce \/ HandleIeeeAddr
               /\ e.node = Head(queue).node /\ e.ieee = Head(queue).from
      <4>1. queue # <<>> /\ queue \in Seq(Sent) /\ Head(queue) \in Sent
        BY <3>1, HandlersTake DEF HandleAnnounce, HandleIeeeAddr, TypeInv
      <4>2. Head(queue) \in OnTheWay
        BY <4>1, EmptySeq, LenProperties DEF OnTheWay
      <4>. QED  BY <1>1, <1>2, <3>1, <4>1, <4>2 DEF Sent, Messages
    <3>. QED  BY <1>2, <2>3, <3>1, EntryFacts
  <2>4. ASSUME NEW s \in Slots, NEW e \in EntryType, EntryStep(s, e), NEW t \in Slots
        PROVE  /\ table'[t].ieee = None <=> table'[t].node = None
               /\ table'[t].ieee # None => table'[t].node = net'[table'[t].ieee]
    <3>1. table' = [table EXCEPT ![s] = e]
      BY <2>4 DEF EntryStep
    <3>2. CASE t = s
      BY <1>1, <2>1, <2>3, <2>4, <3>1, <3>2
    <3>3. CASE t # s
      <4>1. table'[t] = table[t] /\ table[t] \in EntryType
        BY <1>1, <3>1, <3>3
      <4>. QED  BY <1>2, <2>1, <4>1
    <3>. QED  BY <3>2, <3>3
  <2>. QED  BY <1>2, <2>2, <2>4, TableSteps
<1>6. h'.at # "idle" => Entry'.ieee # None
  <2> SUFFICES ASSUME h'.at # "idle" PROVE table'[h'.slot].ieee # None
    BY DEF Entry
  <2>1. CASE h.at # "idle" /\ h'.slot = h.slot
    BY <1>2, <2>1, EntryTyped
  <2>2. CASE h'.slot \in Slots /\ table[h'.slot].node # None
    BY <1>2, <2>2
  <2>3. CASE HandleAnnounce /\ h'.slot = FreeSlot /\ h' = Begin(FreeSlot)
    <3>1. Idle.at = "idle" /\ h = Idle /\ Head(queue).from \in Devices
      BY <2>3, HandlersTake DEF Idle, HandleAnnounce, Sent, Messages
    <3>2. FreeSlot \in Slots /\ table' = [table EXCEPT ![FreeSlot] = [Blank EXCEPT
              !.node = Head(queue).node, !.ieee = Head(queue).from, !.state = "new"]]
      BY <2>3, <3>1, SlotsFound DEF HandleAnnounce
    <3>3. table'[FreeSlot].ieee = Head(queue).from
      BY <1>1, <3>2 DEF Blank
    <3>. QED  BY <1>1, <2>3, <3>1, <3>3
  <2>. QED  BY <2>1, <2>2, <2>3, SlotStep
<1>7. \A m \in OnTheWay' : net'[m.from] = m.node /\ m.kind # "leave"
  BY <1>3
<1>. QED  BY <1>4, <1>5, <1>6, <1>7, Zenon

\* Every message on its way is from a device that may have the address it gives.
LEMMA MessagesSent ==
  ASSUME TypeInv, NEW m \in OnTheWay
  PROVE  m \in Sent /\ m.from \in Devices /\ m.node \in Nodes /\ m.node \in AddressesOf[m.from]
<1>1. \A i \in DOMAIN queue : queue[i] \in Sent
  BY ElementOfSeq, LenProperties DEF TypeInv
<1>2. m \in Sent
  BY <1>1 DEF OnTheWay, TypeInv
<1>. QED  BY <1>2 DEF Sent, Messages

\* A message's sender is the device of the entry with its address.
LEMMA SenderEntry ==
  ASSUME TypeInv, Addressed, NEW m \in OnTheWay, NEW s \in Slots, table[s].node = m.node
  PROVE  /\ m.from \in Devices /\ m.node \in Nodes /\ m.node # None
         /\ table[s].ieee = m.from
<1>2. m.from \in Devices /\ m.node \in Nodes /\ m.node # None
  BY MessagesSent, DevicesAssumption
<1>3. table[s] \in EntryType
  BY DEF TypeInv, TypeOK
<1>4. table[s].ieee \in Devices
  BY <1>2, <1>3 DEF Addressed, EntryType
<1>5. net[table[s].ieee] = net[m.from] /\ net[m.from] # None
  BY <1>2, <1>4, DevicesAssumption DEF Addressed
<1>. QED  BY <1>2, <1>4, <1>5 DEF Addressed

\* The message that a handler takes was on its way.
LEMMA TakenOnTheWay ==
  ASSUME TypeInv, queue # <<>>
  PROVE  Head(queue) \in OnTheWay
<1>1. Head(queue) = queue[1] /\ 1 \in DOMAIN queue
  BY EmptySeq, LenProperties DEF TypeInv
<1>. QED  BY <1>1 DEF OnTheWay

\* An entry stays good, and what its device has said of its endpoints stays, if
\* the answers with its address are its device's.
LEMMA EntryStays ==
  ASSUME TypeInv, Next, ~ ErasePersistentData, ~ HandleLeave, NEW t \in Slots,
         EntryGood(table[t]), table[t].ieee = None <=> table[t].node = None,
         HandleActiveEp /\ table[t].node = Head(queue).node => table[t].ieee = Head(queue).from
  PROVE  /\ EntryGood(table'[t])
         /\ table[t].ieee # None /\ Filled(table[t]) => Filled(table'[t])
<1>2. table \in [Slots -> EntryType] /\ MaxEndpoints \in Nat \ {0}
  BY SizesAssumption DEF TypeInv, TypeOK
<1>3. ASSUME NEW e, EntryGood(table[t]), e.ieee = table[t].ieee,
             e.eps = table[t].eps
      PROVE  EntryGood(e) /\ (Filled(table[t]) => Filled(e))
  BY <1>3 DEF EntryGood, Filled, FirstOne
<1>4. ASSUME NEW e \in EntryType, EntryStep(t, e)
      PROVE  EntryGood(e) /\ (table[t].ieee # None /\ Filled(table[t]) => Filled(e))
  <2>1. CASE HandleAnnounce /\ table[t].node = None /\ e.eps = Blank.eps
    <3>1. \A i \in 1..MaxEndpoints : e.eps[i].id = 0 /\ e.eps[i].clusters = <<>>
      BY <2>1 DEF Blank, NoEndpoint
    <3>2. table[t].ieee = None
      BY <2>1
    <3>. QED  BY <3>1, <3>2 DEF EntryGood
  <2>2. CASE HandleActiveEp /\ table[t].node = Head(queue).node
             /\ e.ieee = table[t].ieee
             /\ Len(EndpointsOf[Head(queue).from]) <= MaxEndpoints
             /\ e.eps = Numbered(table[t].eps, EndpointsOf[Head(queue).from])
    <3>2. Head(queue).from \in Devices /\ table[t].ieee = Head(queue).from
      BY <2>2, HandlersTake DEF HandleActiveEp, Sent, Messages
    <3> DEFINE ids == EndpointsOf[e.ieee]
               eps == table[t].eps
    <3>3. ids \in Seq(0..255) /\ Len(ids) \in Nat /\ eps \in [1..MaxEndpoints -> EndpointType]
      BY <1>2, <2>2, <3>2, DevicesAssumption, LenProperties DEF EntryType
    <3>4. \A i \in 1..MaxEndpoints :
            /\ e.eps[i].id = IF i <= Len(ids) THEN ids[i] ELSE eps[i].id
            /\ e.eps[i].clusters = eps[i].clusters
      BY <2>2, <3>2, <3>3, NumberedType
    <3>5. Filled(e)
      <4>1. 1..Len(ids) \subseteq 1..MaxEndpoints
        BY <1>2, <2>2, <3>2, <3>3
      <4>. QED  BY <2>2, <3>2, <3>3, <3>4, <4>1 DEF Filled
    <3>6. ASSUME NEW i \in 1..MaxEndpoints, e.eps[i].clusters # <<>>
          PROVE  FirstOne(e, i)
      <4>1. FirstOne(table[t], i)
        BY <1>2, <3>4, <3>6 DEF EntryGood
      <4>2. Filled(table[t])
        BY <1>2, <4>1 DEF EntryGood, FirstOne
      <4>3. \A k \in 1..MaxEndpoints : e.eps[k].id = eps[k].id
        BY <2>2, <3>3, <3>4, <4>2 DEF Filled
      <4>. QED  BY <4>1, <4>3 DEF FirstOne
    <3>. QED  BY <3>5, <3>6 DEF EntryGood
  <2>3. CASE HandleDescriptor /\ e.ieee = table[t].ieee
             /\ \A i \in 1..MaxEndpoints :
                  /\ e.eps[i].id = table[t].eps[i].id
                  /\ i # FindEndpoint(t, 1) => e.eps[i] = table[t].eps[i]
    <3>1. ASSUME NEW i \in 1..MaxEndpoints, e.eps[i].clusters # <<>>
          PROVE  FirstOne(e, i)
      <4>1. FirstOne(table[t], i)
        <5>1. CASE i = FindEndpoint(t, 1)
          <6>1. /\ table[t].eps[i].id = 1
                /\ \A k \in 1..MaxEndpoints : table[t].eps[k].id = 1 => i <= k
            BY <1>2, <5>1, EndpointFound
          <6>. QED  BY <1>2, <6>1 DEF FirstOne
        <5>2. CASE i # FindEndpoint(t, 1)
          BY <1>2, <2>3, <3>1, <5>2 DEF EntryGood
        <5>. QED  BY <5>1, <5>2
      <4>. QED  BY <2>3, <4>1 DEF FirstOne
    <3>2. Filled(table[t]) => Filled(e)
      <4>1. Len(EndpointsOf[e.ieee]) <= MaxEndpoints => 1..Len(EndpointsOf[e.ieee]) \subseteq 1..MaxEndpoints
        BY <1>2
      <4>. QED  BY <2>3, <4>1 DEF Filled
    <3>3. (\A i \in 1..MaxEndpoints : e.eps[i].id = 0) \/ Filled(e)
      BY <1>2, <2>3, <3>2 DEF EntryGood
    <3>. QED  BY <3>1, <3>2, <3>3 DEF EntryGood
  <2>. QED  BY <1>2, <1>3, <1>4, <2>1, <2>2, <2>3, EntryFacts DEF Interviews
<1>5. CASE UNCHANGED table
  BY <1>2, <1>5
<1>6. ASSUME NEW s \in Slots, NEW e \in EntryType, EntryStep(s, e)
      PROVE  \/ UNCHANGED table[t]
             \/ EntryStep(t, e) /\ table'[t] = e
  BY <1>2, <1>6 DEF EntryStep
<1>. QED  BY <1>2, <1>4, <1>5, <1>6, TableSteps

\* The entries stay good, and what a device has said of its endpoints stays.
LEMMA EntriesStep ==
  ASSUME TypeInv, CalmInv, Next, Calm', NEW t \in Slots
  PROVE  /\ EntryGood(table'[t])
         /\ table[t].ieee # None /\ Filled(table[t]) => Filled(table'[t])
<1>1. /\ Calm /\ Addressed /\ ~ ErasePersistentData /\ ~ HandleLeave
      /\ EntryGood(table[t])
  BY CalmStep DEF CalmInv
<1>2. table[t].ieee = None <=> table[t].node = None
  BY <1>1 DEF Addressed
<1>3. ASSUME HandleActiveEp, table[t].node = Head(queue).node
      PROVE  table[t].ieee = Head(queue).from
  <2>1. Head(queue) \in OnTheWay
    BY <1>3, TakenOnTheWay DEF HandleActiveEp, Taken
  <2>. QED  BY <1>1, <1>3, <2>1, SenderEntry
<1>. QED  BY <1>1, <1>2, <1>3, EntryStays

\* What is left to do for an entry comes from the entry, which does not change
\* meanwhile.
LEMMA TodoStep ==
  ASSUME TypeInv, Next, h'.todo # <<>>
  PROVE  /\ h.at # "idle" /\ h'.slot = h.slot /\ table' = table
         /\ \/ h'.todo = h.todo
            \/ h.todo # <<>> /\ h'.todo = Tail(h.todo)
            \/ h'.todo = Positions(Entry, {"basic"})
            \/ h'.todo = Positions(Entry, Used)
<1>1. /\ h \in HandlerType /\ Idle.todo = <<>>
      /\ h.at = "idle" => h.todo = <<>>
      /\ \A s : Begin(s).todo = <<>>
  BY DEF TypeInv, Idle, Begin
<1>2. h' # Idle /\ ~ (\E s : h' = Begin(s)) /\ h' # [h EXCEPT !.todo = <<>>]
  BY <1>1 DEF HandlerType
<1>3. h.at # "idle"
  <2>1. CASE h' = h
    BY <1>1, <2>1
  <2>2. CASE ~ (h' = h) /\ h.at = "idle"
    BY <1>2, <2>2 DEF Next, Callback, Network, Loop, Ask, Wake, Timeout, Clusters, ReadCluster,
         ReadEnds, BindCluster, BindEnds, HandleAnnounce, HandleLeave, HandleActiveEp,
         HandleDescriptor, HandleReadAttr, HandleReport, HandleIeeeAddr, Join, Leave, Report,
         Arrive, ErasePersistentData, ClearAllDeviceTables, TimerExpires
  <2>. QED  BY <2>1, <2>2
<1>4. ~ \E kind : Taken(kind)
  BY <1>3 DEF Taken
<1>5. CASE h.at \in {"ask", "wait"} /\ Failed
  <2>1. table' = table
    BY <1>2, <1>5, FailedFacts
  <2>2. h' = [h EXCEPT !.at = "ask", !.try = 2] \/ h' = [h EXCEPT !.at = "next"]
    BY <1>2, <1>5, FailedFacts
  <2>. QED  BY <1>1, <1>3, <2>1, <2>2 DEF HandlerType
<1>6. CASE Loop
  BY <1>1, <1>2, <1>3, <1>6 DEF Loop, LoopNew, LoopCluster, LoopClusters, LoopOther, HandlerType,
                               tableVars
<1>7. CASE Ask
  BY <1>1, <1>2, <1>3, <1>5, <1>7 DEF Ask, HandlerType
<1>8. CASE Wake
  BY <1>1, <1>2, <1>3, <1>8 DEF Wake, HandlerType, tableVars
<1>9. CASE Clusters
  BY <1>1, <1>2, <1>3, <1>9 DEF Clusters, ReadCluster, ReadEnds, BindCluster, BindEnds, HandlerType,
                               tableVars
<1>10. CASE Timeout
  BY <1>5, <1>10 DEF Timeout
<1>11. CASE UNCHANGED <<h, table>>
  BY <1>3, <1>11
<1>12. CASE h' = [h EXCEPT !.woken = TRUE] /\ UNCHANGED table
  BY <1>1, <1>3, <1>12 DEF HandlerType
<1>. QED
  BY <1>2, <1>4, <1>6, <1>7, <1>8, <1>9, <1>10, <1>11, <1>12
     DEF Next, Callback, Network, Join, Leave, Report, Arrive, ErasePersistentData,
         ClearAllDeviceTables, TimerExpires, tableVars, HandleAnnounce, HandleLeave,
         HandleActiveEp, HandleDescriptor, HandleReadAttr, HandleReport, HandleIeeeAddr

\* What is left to do names the endpoint 1 of the entry and one of its clusters.
LEMMA TodoGood ==
  ASSUME TypeInv, TypeInv', CalmInv, Next, Calm'
  PROVE  h'.todo \in Seq({p \in Position : PositionGood(Entry', p)})
<1>1. CASE h'.todo = <<>>
  BY <1>1
<1>2. CASE h'.todo # <<>>
  <2> DEFINE good == {p \in Position : PositionGood(Entry, p)}
  <2>1. /\ h.at # "idle" /\ Entry' = Entry
        /\ \/ h'.todo = h.todo
           \/ h.todo # <<>> /\ h'.todo = Tail(h.todo)
           \/ h'.todo = Positions(Entry, {"basic"})
           \/ h'.todo = Positions(Entry, Used)
    BY <1>2, TodoStep DEF Entry
  <2>2. h.todo \in Seq(good) /\ \A s \in Slots : EntryGood(table[s])
    BY CalmStep DEF CalmInv
  <2>3. Entry \in EntryType /\ EntryGood(Entry)
    BY <2>1, <2>2, EntryTyped
  <2>4. ASSUME NEW S \in SUBSET Used
        PROVE  Positions(Entry, S) \in Seq(good)
    <3> DEFINE T == {p \in Position :
                  \E i \in 1..Entry.epCount :
                    /\ p.ep = Entry.eps[i].id
                    /\ \E j \in DOMAIN Entry.eps[i].clusters :
                         p.cluster = Entry.eps[i].clusters[j]}
    <3>1. Positions(Entry, S) \in Seq(T)
      BY <2>3, PositionsType
    <3>2. T \subseteq good
      <4> SUFFICES ASSUME NEW p \in T PROVE p \in good
        OBVIOUS
      <4>1. PICK i \in 1..Entry.epCount :
              /\ p.ep = Entry.eps[i].id
              /\ \E j \in DOMAIN Entry.eps[i].clusters : p.cluster = Entry.eps[i].clusters[j]
        OBVIOUS
      <4>2. i \in 1..MaxEndpoints
        BY <2>3, SizesAssumption DEF EntryType
      <4>3. Entry.eps[i].clusters # <<>>
        BY <4>1, EmptySeq
      <4>4. FirstOne(Entry, i)
        BY <2>3, <4>2, <4>3 DEF EntryGood
      <4>. QED  BY <4>1, <4>2, <4>4 DEF PositionGood, FirstOne
    <3> HIDE DEF T, good
    <3>. QED  BY <3>1, <3>2, LenProperties, ElementOfSeq, SeqDef
  <2>5. {"basic"} \subseteq Used
    BY DEF Used
  <2>6. h.todo # <<>> => Tail(h.todo) \in Seq(good)
    <3> HIDE DEF good
    <3>. QED  BY <2>2, HeadTailProperties
  <2>7. h'.todo \in Seq(good)
    BY <2>1, <2>2, <2>4, <2>5, <2>6
  <2>. QED  BY <2>1, <2>7
<1>. QED  BY <1>1, <1>2

\* Who asks for a descriptor did so before, or finds a used endpoint at the index.
LEMMA DescriptorAsked ==
  ASSUME TypeInv, Next, h'.at \in {"ask", "wait"}, h'.kind = "descriptor"
  PROVE  /\ h.at # "idle" /\ h'.slot = h.slot
         /\ \/ h.at \in {"ask", "wait"} /\ h.kind = "descriptor"
            \/ /\ table' = table
               /\ beyond' \/ \E i \in 1..MaxEndpoints : UsedEndpoint(Entry.eps[i].id)
<1>1. /\ h \in HandlerType /\ Idle.at = "idle"
      /\ h.at = "idle" => h = Idle
      /\ \A s : Begin(s).at = "loop"
  BY DEF TypeInv, Idle, Begin
<1>2. h' # Idle /\ ~ (\E s : h' = Begin(s))
  BY <1>1
<1>3. h.at # "idle"
  <2>1. CASE h' = h \/ h' = [h EXCEPT !.todo = <<>>]
    BY <1>1, <2>1 DEF HandlerType
  <2>2. CASE ~ (h' = h \/ h' = [h EXCEPT !.todo = <<>>]) /\ h.at = "idle"
    BY <1>2, <2>2 DEF Next, Callback, Network, Loop, Ask, Wake, Timeout, Clusters, ReadCluster,
         ReadEnds, BindCluster, BindEnds, HandleAnnounce, HandleLeave, HandleActiveEp,
         HandleDescriptor, HandleReadAttr, HandleReport, HandleIeeeAddr, Join, Leave, Report,
         Arrive, ErasePersistentData, ClearAllDeviceTables, TimerExpires
  <2>. QED  BY <2>1, <2>2
<1>4. ~ \E kind : Taken(kind)
  BY <1>3 DEF Taken
<1>5. CASE h.at \in {"ask", "wait"} /\ Failed
  BY <1>1, <1>2, <1>5, FailedFacts DEF HandlerType
<1>6. CASE Loop
  <2>1. CASE LoopCluster
    BY <1>1, <1>2, <1>3, <1>6, <2>1 DEF Loop, LoopCluster, HandlerType, tableVars
  <2>. QED
    BY <1>1, <1>2, <1>3, <1>6, <2>1 DEF Loop, LoopNew, LoopClusters, LoopOther, HandlerType
<1>7. CASE Ask
  BY <1>1, <1>2, <1>3, <1>5, <1>7 DEF Ask, HandlerType
<1>8. CASE Wake
  BY <1>1, <1>2, <1>3, <1>8 DEF Wake, HandlerType
<1>9. CASE Clusters
  BY <1>1, <1>2, <1>3, <1>9 DEF Clusters, ReadCluster, ReadEnds, BindCluster, BindEnds, HandlerType
<1>10. CASE Timeout
  BY <1>5, <1>10 DEF Timeout
<1>11. CASE h' = h
  BY <1>3, <1>11
<1>12. CASE h' = [h EXCEPT !.woken = TRUE] \/ h' = [h EXCEPT !.todo = <<>>]
  BY <1>1, <1>3, <1>12 DEF HandlerType
<1>. QED
  BY <1>2, <1>4, <1>6, <1>7, <1>8, <1>9, <1>10, <1>11, <1>12
     DEF Next, Callback, Network, Join, Leave, Report, Arrive, ErasePersistentData,
         ClearAllDeviceTables, TimerExpires, HandleAnnounce, HandleLeave,
         HandleActiveEp, HandleDescriptor, HandleReadAttr, HandleReport, HandleIeeeAddr

LEMMA KnownStep ==
  ASSUME TypeInv, TypeInv', CalmInv, Next, Calm'
  PROVE  DescriptorsKnown'
<1>1. /\ Calm /\ Addressed /\ DescriptorsKnown
      /\ \A s \in Slots : EntryGood(table[s])
      /\ \A s \in Slots : table[s].ieee # None => table'[s].ieee = table[s].ieee
      /\ None \notin Devices /\ None \notin Nodes
  BY CalmStep, DevicesAssumption DEF CalmInv
<1>2. ASSUME h'.at \in {"ask", "wait"}, h'.kind = "descriptor"
      PROVE  Filled(table'[h'.slot])
  <2>1. /\ h.slot \in Slots /\ h'.slot = h.slot /\ table[h.slot] = Entry /\ Entry.ieee # None
    BY <1>1, <1>2, DescriptorAsked, EntryTyped DEF Addressed
  <2>2. CASE h.at \in {"ask", "wait"} /\ h.kind = "descriptor"
    <3>1. Filled(Entry)
      BY <1>1, <2>2 DEF DescriptorsKnown
    <3>. QED  BY <2>1, <3>1, EntriesStep
  <2>3. CASE table' = table /\ \E i \in 1..MaxEndpoints : UsedEndpoint(Entry.eps[i].id)
    BY <1>1, <2>1, <2>3 DEF EntryGood, UsedEndpoint
  <2>4. ~ beyond'
    BY DEF Calm
  <2>. QED  BY <1>2, <2>2, <2>3, <2>4, DescriptorAsked
<1>3. ASSUME NEW m \in OnTheWay', m.kind = "descriptor"
      PROVE  /\ \E i \in DOMAIN EndpointsOf[m.from] : EndpointsOf[m.from][i] = 1
             /\ \E s \in Slots : table'[s].ieee = m.from /\ Filled(table'[s])
  <2>1. m.from \in Devices
    <3>1. \A i \in DOMAIN queue' : queue'[i] \in Sent
      BY ElementOfSeq, LenProperties DEF TypeInv
    <3>. QED  BY <3>1 DEF OnTheWay, TypeInv, Sent, Messages
  <2>2. ASSUME NEW s \in Slots, table[s].ieee = m.from, Filled(table[s])
        PROVE  table'[s].ieee = m.from /\ Filled(table'[s])
    BY <1>1, <2>1, <2>2, EntriesStep
  <2>3. CASE m \in OnTheWay
    BY <1>1, <1>3, <2>2, <2>3 DEF DescriptorsKnown
  <2>4. CASE Ask /\ m.kind = h.kind /\ m.node = Entry.node /\ m.from \in Asked(h.kind, Entry.node)
    <3>1. /\ h.at = "ask" /\ h.slot \in Slots /\ Entry \in EntryType /\ table[h.slot] = Entry
          /\ Entry.ieee # None
      BY <1>1, <2>4, EntryTyped DEF Ask, Addressed
    <3>2. Entry.ieee \in Devices /\ net[Entry.ieee] = Entry.node
      BY <1>1, <3>1 DEF Addressed, EntryType
    <3>3. net[m.from] = Entry.node /\ Entry.node # None /\ 1 \in Range(EndpointsOf[m.from])
      BY <1>3, <2>4 DEF Asked
    <3>4. Entry.ieee = m.from
      BY <1>1, <2>1, <3>2, <3>3 DEF Addressed
    <3>5. Filled(Entry)
      BY <1>1, <1>3, <2>4, <3>1 DEF DescriptorsKnown
    <3>. QED  BY <2>2, <3>1, <3>3, <3>4, <3>5 DEF Range
  <2>5. ~ (gone' > gone)
    BY <1>1 DEF Calm
  <2>6. \A d \in Devices, n \in Nodes : m # Msg("announce", d, n)
    BY <1>3 DEF Msg
  <2>. QED  BY <1>3, <2>3, <2>4, <2>5, <2>6, MessagesStep
<1>. QED  BY <1>2, <1>3 DEF DescriptorsKnown, Entry

\* Every entry and endpoint that is used without a test is found.
LEMMA PointerStep ==
  ASSUME TypeInv, CalmInv, IeeeDistinct, AttributesNamed, Next, Calm'
  PROVE  broken' # "pointer"
<1>1. /\ Calm /\ Addressed /\ DescriptorsKnown /\ broken = "no"
      /\ h.todo \in Seq({p \in Position : PositionGood(Entry, p)})
      /\ None \notin Devices /\ None \notin Nodes
      /\ table \in [Slots -> EntryType]
  BY CalmStep, DevicesAssumption DEF CalmInv, Next, TypeInv, TypeOK
\* The entry with an address is the only one.
<1>2. ASSUME NEW s \in Slots, NEW t \in Slots, table[s].ieee # None,
             table[t].node = table[s].node
      PROVE  t = s
  <2>1. table[s].ieee \in Devices /\ table[t].ieee \in Devices
    <3>1. table[t].node # None
      BY <1>1, <1>2 DEF Addressed
    <3>2. table[t].ieee # None
      BY <1>1, <3>1 DEF Addressed
    <3>. QED  BY <1>1, <1>2, <3>2 DEF EntryType
  <2>2. /\ net[table[s].ieee] = table[s].node /\ net[table[t].ieee] = table[t].node
        /\ table[s].node # None
    BY <1>1, <1>2, <2>1 DEF Addressed
  <2>3. table[s].ieee = table[t].ieee
    BY <1>1, <1>2, <2>1, <2>2 DEF Addressed
  <2>. QED  BY <1>2, <2>3 DEF IeeeDistinct
<1>3. ASSUME h.at = "next", h.todo # <<>>, NEW as, AddAttributes(Head(h.todo), as)
      PROVE  broken' # "pointer"
  <2> DEFINE p == Head(h.todo)
             s == FindNode(Entry.node)
             i == FindEndpoint(s, 1)
  <2>1. /\ h.slot \in Slots /\ table[h.slot] = Entry /\ Entry.ieee # None
    BY <1>1, <1>3, EntryTyped DEF Addressed
  <2>2. PositionGood(Entry, p)
    <3>1. p \in {q \in Position : PositionGood(Entry, q)}
      BY <1>1, <1>3, HeadTailProperties, Zenon
    <3>. QED  BY <3>1
  <2>3. Entry.node # None
    BY <1>1, <2>1 DEF Addressed
  <2>4. s # 0 /\ s \in Slots /\ table[s].node = Entry.node
    BY <2>1, <2>3, SlotsFound DEF ValidNode
  <2>5. s = h.slot
    BY <1>2, <2>1, <2>4
  <2> HIDE DEF p, s
  <2>6. PICK k \in 1..MaxEndpoints :
          /\ FirstOne(Entry, k)
          /\ \E j \in DOMAIN Entry.eps[k].clusters : p.cluster = Entry.eps[k].clusters[j]
    BY <2>2 DEF PositionGood
  <2>7. i = k
    <3>1. ValidEndpoint(1) /\ table[s].eps[k].id = 1
      BY <2>1, <2>5, <2>6 DEF ValidEndpoint, FirstOne
    <3>2. i \in 1..MaxEndpoints /\ table[s].eps[i].id = 1 /\ i <= k
      BY <3>1, EndpointFound
    <3>3. ~ (i < k)
      BY <2>1, <2>5, <2>6, <3>2 DEF FirstOne
    <3> HIDE DEF i
    <3>. QED  BY <3>2, <3>3, SizesAssumption
  <2>8. i # 0 /\ p.cluster \in Range(table[s].eps[i].clusters)
    <3> HIDE DEF i
    <3>1. k # 0 /\ table[s].eps[k] = Entry.eps[k]
      BY <2>1, <2>5, SizesAssumption
    <3>2. p.cluster \in Range(Entry.eps[k].clusters)
      BY <2>6 DEF Range
    <3>. QED  BY <2>7, <3>1, <3>2
  <2>9. p.ep = 1
    BY <2>2 DEF PositionGood
  <2>10. broken' = broken
    BY <1>3, <2>4, <2>8, <2>9 DEF AddAttributes, p, s
  <2>. QED  BY <1>1, <2>10
<1>4. CASE HandleDescriptor
  <2> DEFINE m == Head(queue)
             t == FindNode(m.node)
  <2>1. m \in OnTheWay /\ m.kind = "descriptor"
    BY <1>4, TakenOnTheWay DEF HandleDescriptor, Taken
  <2>2. PICK s \in Slots : table[s].ieee = m.from /\ Filled(table[s])
    BY <1>1, <2>1 DEF DescriptorsKnown
  <2>3. m.from \in Devices /\ m.node \in Nodes
    BY <1>4, HandlersTake DEF HandleDescriptor, Sent, Messages
  <2>4. net[m.from] = m.node /\ m.node # None
    BY <1>1, <2>1, <2>3 DEF Addressed
  <2> HIDE DEF m
  <2>5. table[s].node = m.node
    BY <1>1, <2>2, <2>3, <2>4 DEF Addressed
  <2>6. t # 0 /\ t \in Slots /\ table[t].node = m.node
    BY <2>4, <2>5, SlotsFound DEF ValidNode
  <2> HIDE DEF t
  <2>7. t = s
    BY <1>1, <1>2, <2>2, <2>3, <2>5, <2>6
  <2>8. PICK i \in DOMAIN EndpointsOf[m.from] : EndpointsOf[m.from][i] = 1
    BY <1>1, <2>1 DEF DescriptorsKnown
  <2>9. i \in 1..MaxEndpoints /\ table[s].eps[i].id = 1
    <3>1. EndpointsOf[m.from] \in Seq(0..255)
      BY <2>3, DevicesAssumption
    <3>2. Len(EndpointsOf[m.from]) \in Nat /\ i \in 1..Len(EndpointsOf[m.from])
      BY <2>8, <3>1, LenProperties
    <3>. QED  BY <2>2, <2>8, <3>2, SizesAssumption DEF Filled
  <2>10. FindEndpoint(t, 1) # 0
    <3>1. ValidEndpoint(1)
      BY DEF ValidEndpoint
    <3>. QED  BY <2>7, <2>9, <3>1, EndpointFound
  <2>11. broken' \in {broken, "overrun"}
    BY <1>4, <2>6, <2>10 DEF HandleDescriptor, m, t
  <2>. QED  BY <1>1, <2>11
<1>5. CASE HandleReadAttr
  <2>1. CASE FindAttribute(Head(queue).node, 1, "basic", "model")
    <3>1. PICK i \in DOMAIN attrs : attrs[i].node = Head(queue).node
      BY <2>1 DEF FindAttribute
    <3>2. Head(queue).node \in Nodes
      BY <1>5, HandlersTake DEF HandleReadAttr, Sent, Messages
    <3>3. ~ Moving(attrs[i].node)
      BY <1>1 DEF Moving, Calm
    <3>4. \E s \in Slots : table[s].node = Head(queue).node
      BY <3>1, <3>3 DEF AttributesNamed
    <3>5. FindNode(Head(queue).node) # 0
      BY <1>1, <3>2, <3>4, SlotsFound DEF ValidNode
    <3>. QED  BY <1>1, <1>5, <3>5 DEF HandleReadAttr
  <2>. QED  BY <1>1, <1>5, <2>1 DEF HandleReadAttr
<1>6. CASE Clusters
  BY <1>1, <1>3, <1>6 DEF Clusters, ReadCluster, ReadEnds, BindCluster, BindEnds
<1>7. ~ HandleLeave
  BY CalmStep
<1>. QED
  BY <1>1, <1>4, <1>5, <1>6, <1>7
     DEF Next, Callback, Network, Loop, Ask, Wake, Timeout, HandleAnnounce, HandleActiveEp,
         HandleReport, HandleIeeeAddr, Join, Leave, Report, Arrive, ErasePersistentData,
         TimerExpires

LEMMA CalmInvStep ==
  TypeInv /\ TypeInv' /\ CalmInv /\ IeeeDistinct /\ AttributesNamed /\ [Next]_vars => CalmInv'
<1> SUFFICES ASSUME TypeInv, TypeInv', CalmInv, IeeeDistinct, AttributesNamed, [Next]_vars, Calm'
             PROVE  CalmInv'
  BY DEF CalmInv
<1>1. CASE Next
  <2>1. \A s \in Slots : EntryGood(table'[s])
    BY <1>1, EntriesStep
  <2>. QED  BY <1>1, <2>1, AddressedStep, KnownStep, TodoGood, PointerStep DEF CalmInv
<1>2. CASE UNCHANGED vars
  <2>1. /\ gone' = gone /\ beyond' = beyond /\ net' = net /\ air' = air /\ queue' = queue
        /\ table' = table /\ h' = h /\ broken' = broken
    BY <1>2 DEF vars, envVars, tableVars, indexVars
  <2>2. Calm /\ Entry' = Entry /\ OnTheWay' = OnTheWay
    BY <2>1 DEF Calm, MayMove, Entry, OnTheWay
  <2>3. Addressed' /\ \A s \in Slots : EntryGood(table'[s])
    BY <2>1, <2>2 DEF CalmInv, Addressed
  <2>4. DescriptorsKnown'
    BY <2>1, <2>2 DEF CalmInv, DescriptorsKnown, Filled
  <2>5. h'.todo \in Seq({p \in Position : PositionGood(Entry', p)}) /\ broken' # "pointer"
    BY <2>1, <2>2 DEF CalmInv
  <2>. QED  BY <2>3, <2>4, <2>5 DEF CalmInv, EntryGood, Filled, FirstOne, PositionGood
<1>. QED  BY <1>1, <1>2

\* The entries and endpoints that the handlers of answers use without a test
\* exist (ZCB_HandleSimpleDescriptorResponse, ZCB_HandleReadAttrResp,
\* tZDM_AddNewAttributeToAttributeTable), unless a device left, changed its
\* address or was erased, or an endpoint was taken from behind the array.
THEOREM PointersAreGood == Spec => []PointersGood
<1>1. Init => CalmInv
  <2> SUFFICES ASSUME Init PROVE CalmInv
    OBVIOUS
  <2>1. OnTheWay = {} /\ h.at = "idle" /\ h.todo = <<>> /\ broken = "no"
    BY DEF Init, OnTheWay, EmptyBag, BagToSet, SetToBag, Idle
  <2>2. Addressed /\ DescriptorsKnown
    BY <2>1 DEF Addressed, DescriptorsKnown, Init, Blank
  <2>3. \A s \in Slots : EntryGood(table[s])
    BY DEF Init, Blank, NoEndpoint, EntryGood
  <2>. QED  BY <2>1, <2>2, <2>3 DEF CalmInv
<1>2. CalmInv /\ TypeInv => PointersGood
  BY SizesAssumption DEF CalmInv, Calm, PointersGood, TypeInv, TypeOK
<1>3. Spec => []CalmInv
  BY <1>1, CalmInvStep, TypeHolds, OneEntryPerDevice, NamesHold, PTL DEF Spec
<1>. QED  BY <1>2, <1>3, TypeHolds, PTL

-----------------------------------------------------------------------------
(* The attributes that are found when a device reports them.               *)

\* No two devices are ever given the same address.
NoSharedAddress ==
  \A d, e \in Devices : d # e => AddressesOf[d] \cap AddressesOf[e] = {}

Answers == {"activeEp", "descriptor", "readAttr"}
\* As long as no device leaves and nothing is erased, an answer has the address
\* of the announcement that added its device, and so has the entry the handler
\* works on, whatever the devices have moved to since.
Placed ==
  /\ \A m \in OnTheWay : m.kind # "leave"
  /\ \A m \in OnTheWay :
       m.kind \in Answers =>
         m.node = joinNode[m.from] /\ \E s \in Slots : table[s].ieee = m.from
  /\ \A s \in Slots : table[s].ieee = None <=> table[s].node = None
  /\ h.at # "idle" => Entry.ieee # None /\ Entry.node = joinNode[Entry.ieee]

\* Entries stay with their devices, and the addresses they were added with.
LEMMA PlacedKept ==
  ASSUME TypeInv, Placed, Next, gone' = 0
  PROVE  /\ gone = 0 /\ ~ ErasePersistentData /\ ~ HandleLeave
         /\ \A s \in Slots : table[s].ieee # None => table'[s].ieee = table[s].ieee
         /\ \A s \in Slots : table[s].ieee # None => joinNode'[table[s].ieee] = joinNode[table[s].ieee]
<1>1. gone = 0
  BY CountersStep, SizesAssumption DEF TypeInv, TypeOK
<1>2. ~ ErasePersistentData
  BY <1>1 DEF ErasePersistentData
<1>3. ~ HandleLeave
  <2> SUFFICES ASSUME HandleLeave PROVE FALSE
    OBVIOUS
  <2>1. queue # <<>> /\ Head(queue).kind = "leave"
    BY DEF HandleLeave, Taken
  <2>. QED  BY <2>1, TakenOnTheWay DEF Placed
<1>4. ASSUME NEW t \in Slots, table[t].ieee # None
      PROVE  table'[t].ieee = table[t].ieee
  <2>1. ASSUME NEW s \in Slots, NEW e \in EntryType, EntryStep(s, e)
        PROVE  table'[t].ieee = table[t].ieee
    <3>1. table' = [table EXCEPT ![s] = e] /\ table \in [Slots -> EntryType]
      BY <2>1 DEF EntryStep, TypeInv, TypeOK
    <3>2. s = t => e.ieee = table[t].ieee
      BY <1>3, <1>4, <2>1, EntryFacts DEF Placed
    <3>. QED  BY <3>1, <3>2
  <2>. QED  BY <1>2, <2>1, TableSteps
<1>5. ASSUME NEW t \in Slots, table[t].ieee # None
      PROVE  joinNode'[table[t].ieee] = joinNode[table[t].ieee]
  <2>1. CASE HandleAnnounce /\ FindIeee(Head(queue).from) = 0
             /\ joinNode' = [joinNode EXCEPT ![Head(queue).from] = Head(queue).node]
    <3>1. table[t].ieee # Head(queue).from
      BY <2>1, SlotsFound
    <3>2. table[t].ieee \in Devices /\ joinNode \in [Devices -> Nodes \cup {None}]
      BY <1>5 DEF TypeInv, TypeOK, EntryType
    <3>. QED  BY <2>1, <3>1, <3>2
  <2>2. UNCHANGED joinNode \/ HandleAnnounce
    BY <1>2 DEF Next, Callback, Network, Loop, Ask, Wake, Timeout, Clusters,
           HandleLeave, HandleActiveEp, HandleDescriptor, HandleReadAttr, HandleReport,
           HandleIeeeAddr, Join, Leave, Report, Arrive, TimerExpires, tableVars
  <2>. QED  BY <2>1, <2>2 DEF HandleAnnounce, IeeeUnknown
<1>. QED  BY <1>1, <1>2, <1>3, <1>4, <1>5

\* A device with the address of an entry is the entry's.
LEMMA OwnerOf ==
  ASSUME TypeInv, OwnAddresses, Placed, NoSharedAddress,
         NEW d \in Devices, NEW s \in Slots, NEW n \in AddressesOf[d], table[s].node = n
  PROVE  table[s].ieee = d
<1>1. n \in Nodes /\ n # None /\ table[s] \in EntryType
  BY DevicesAssumption DEF TypeInv, TypeOK
<1>2. table[s].ieee \in Devices /\ table[s].ieee # None
  BY <1>1 DEF Placed, EntryType
<1>3. n \in AddressesOf[table[s].ieee]
  BY <1>2 DEF OwnAddresses
<1>. QED  BY <1>2, <1>3 DEF NoSharedAddress

LEMMA PlacedStep ==
  ASSUME TypeInv, TypeInv', OwnAddresses, Placed, NoSharedAddress, Next, gone' = 0
  PROVE  Placed'
<1>1. /\ table \in [Slots -> EntryType] /\ table' \in [Slots -> EntryType]
      /\ joinNode \in [Devices -> Nodes \cup {None}]
      /\ None \notin Nodes /\ None \notin Devices
  BY DevicesAssumption DEF TypeInv, TypeOK
<1>2. /\ gone = 0 /\ ~ ErasePersistentData /\ ~ HandleLeave
      /\ \A s \in Slots : table[s].ieee # None => table'[s].ieee = table[s].ieee
      /\ \A s \in Slots : table[s].ieee # None => joinNode'[table[s].ieee] = joinNode[table[s].ieee]
  BY PlacedKept
<1>3. ASSUME NEW d \in Devices, NEW s \in Slots, table[s].ieee = d
      PROVE  joinNode'[d] = joinNode[d] /\ table'[s].ieee = d
  BY <1>1, <1>2, <1>3
<1>4. ASSUME NEW m \in OnTheWay'
      PROVE  /\ m.kind # "leave"
             /\ m.kind \in Answers =>
                  m.node = joinNode'[m.from] /\ \E s \in Slots : table'[s].ieee = m.from
  <2>1. m.from \in Devices /\ m.node \in Nodes /\ m.node \in AddressesOf[m.from]
    <3>1. \A i \in DOMAIN queue' : queue'[i] \in Sent
      BY ElementOfSeq, LenProperties DEF TypeInv
    <3>2. m \in Sent
      BY <3>1 DEF OnTheWay, TypeInv
    <3>. QED  BY <3>2 DEF Sent, Messages
  <2>2. CASE m \in OnTheWay
    BY <1>3, <2>1, <2>2 DEF Placed
  <2>3. CASE Ask /\ m.kind = h.kind /\ m.node = Entry.node
    <3>1. h.at # "idle" /\ h.kind \in Answers
      BY <2>3 DEF Ask, TypeInv, Answers
    <3>2. /\ h.slot \in Slots /\ table[h.slot] = Entry
          /\ Entry.node = joinNode[Entry.ieee]
      BY <3>1, EntryTyped DEF Placed
    <3>3. Entry.ieee = m.from
      BY <2>1, <2>3, <3>2, OwnerOf
    <3>4. joinNode'[m.from] = joinNode[m.from] /\ table'[h.slot].ieee = m.from
      BY <1>3, <2>1, <3>2, <3>3
    <3>5. m.kind # "leave"
      BY <2>3, <3>1 DEF Answers
    <3>. QED  BY <2>3, <3>2, <3>3, <3>4, <3>5
  <2>4. CASE m.kind \in {"report", "ieeeAddr", "announce"}
    BY <2>4 DEF Answers
  <2>5. ~ (gone' > gone)
    BY <1>2
  <2>6. \A d \in Devices, n \in Nodes : Msg("announce", d, n).kind = "announce"
    BY DEF Msg
  <2>. QED  BY <2>2, <2>3, <2>4, <2>5, <2>6, MessagesStep
<1>5. ASSUME NEW t \in Slots
      PROVE  table'[t].ieee = None <=> table'[t].node = None
  <2>1. CASE UNCHANGED table
    BY <2>1 DEF Placed
  <2>2. ASSUME NEW s \in Slots, NEW e \in EntryType, EntryStep(s, e)
        PROVE  table'[t].ieee = None <=> table'[t].node = None
    <3>1. table' = [table EXCEPT ![s] = e]
      BY <2>2 DEF EntryStep
    <3>2. CASE /\ HandleAnnounce \/ HandleIeeeAddr
               /\ e.node = Head(queue).node /\ e.ieee = Head(queue).from
      <4>1. Head(queue).node \in Nodes /\ Head(queue).from \in Devices
        BY <3>2, HandlersTake DEF HandleAnnounce, HandleIeeeAddr, Sent, Messages
      <4>. QED  BY <1>1, <3>1, <3>2, <4>1 DEF Placed
    <3>3. CASE e.node = table[s].node /\ e.ieee = table[s].ieee
      BY <1>1, <3>1, <3>3 DEF Placed
    <3>. QED  BY <1>2, <2>2, <3>2, <3>3, EntryFacts
  <2>. QED  BY <1>2, <2>1, <2>2, TableSteps
<1>6. ASSUME h'.at # "idle"
      PROVE  Entry'.ieee # None /\ Entry'.node = joinNode'[Entry'.ieee]
\* The handler stays with an entry, or begins with one, that keeps its address.
  <2>1. ASSUME NEW s \in Slots, table[s].ieee # None, table[s].node = joinNode[table[s].ieee],
               ~ HandleIeeeAddr
        PROVE  table'[s].ieee # None /\ table'[s].node = joinNode'[table'[s].ieee]
    <3>1. table'[s].node = table[s].node
      <4>1. ASSUME NEW u \in Slots, NEW e \in EntryType, EntryStep(u, e)
            PROVE  table'[s].node = table[s].node
        <5>1. table' = [table EXCEPT ![u] = e]
          BY <4>1 DEF EntryStep
        <5>2. u = s => e.node = table[s].node
          BY <1>2, <2>1, <4>1, EntryFacts DEF Placed
        <5>. QED  BY <1>1, <5>1, <5>2
      <4>. QED  BY <1>2, <4>1, TableSteps
    <3>. QED  BY <1>1, <1>2, <2>1, <3>1
  <2>2. CASE h.at # "idle" /\ h'.slot = h.slot
    <3>1. h.slot \in Slots /\ table[h.slot] = Entry
      BY <2>2, EntryTyped
    <3>2. ~ HandleIeeeAddr
      BY <2>2 DEF HandleIeeeAddr, Taken
    <3>. QED  BY <2>1, <2>2, <3>1, <3>2 DEF Entry, Placed
  <2>3. CASE HandleAnnounce /\ h'.slot = FreeSlot /\ h' = Begin(FreeSlot)
    <3>1. /\ Idle.at = "idle" /\ h = Idle /\ Head(queue).from \in Devices
          /\ Head(queue).node \in Nodes
      BY <2>3, HandlersTake DEF Idle, HandleAnnounce, Sent, Messages
    <3>2. /\ FreeSlot \in Slots
          /\ joinNode' = [joinNode EXCEPT ![Head(queue).from] = Head(queue).node]
          /\ table' = [table EXCEPT ![FreeSlot] = [Blank EXCEPT
              !.node = Head(queue).node, !.ieee = Head(queue).from, !.state = "new"]]
      BY <1>6, <2>3, <3>1, SlotsFound DEF HandleAnnounce
    <3>3. table'[FreeSlot].ieee = Head(queue).from /\ table'[FreeSlot].node = Head(queue).node
      BY <1>1, <3>2 DEF Blank
    <3>4. joinNode'[Head(queue).from] = Head(queue).node
      BY <1>1, <3>1, <3>2
    <3>. QED  BY <1>1, <2>3, <3>1, <3>3, <3>4 DEF Entry
  <2>4. CASE /\ HandleActiveEp \/ HandleDescriptor \/ HandleReadAttr
             /\ h'.slot \in Slots /\ table[h'.slot].node = Head(queue).node
    <3> DEFINE m == Head(queue)
    <3>1. /\ m \in OnTheWay /\ m.kind \in Answers /\ ~ HandleIeeeAddr
      BY <2>4, TakenOnTheWay
         DEF HandleActiveEp, HandleDescriptor, HandleReadAttr, HandleIeeeAddr, Taken, Answers
    <3>2. m.from \in Devices /\ m.node \in AddressesOf[m.from]
      BY <3>1, MessagesSent
    <3>3. table[h'.slot].ieee = m.from /\ m.node = joinNode[m.from]
      BY <2>4, <3>1, <3>2, OwnerOf DEF Placed
    <3>. QED  BY <1>1, <2>1, <2>4, <3>1, <3>2, <3>3 DEF Entry
  <2>. QED  BY <1>6, <2>2, <2>3, <2>4, SlotStep
<1>7. /\ \A m \in OnTheWay' : m.kind # "leave"
      /\ \A m \in OnTheWay' : m.kind \in Answers =>
           m.node = joinNode'[m.from] /\ \E s \in Slots : table'[s].ieee = m.from
  BY <1>4
<1>. QED  BY <1>5, <1>6, <1>7, Zenon DEF Placed

\* The attributes only grow as long as no device leaves and nothing is erased.
LEMMA AttributesKeptStep ==
  ASSUME TypeInv, Next, ~ ErasePersistentData, ~ HandleLeave
  PROVE  Continues(attrs')
<1>1. CASE UNCHANGED attrs
  <2>1. Len(attrs) \in Nat
    BY LenProperties DEF TypeInv, TypeOK
  <2>. QED  BY <1>1, <2>1 DEF Continues
<1>2. CASE ReadCluster \/ BindCluster
  <2>1. PICK names \in Seq(AttributeNames) : AddAttributes(Head(h.todo), names)
    <3> DEFINE N == AttributeNames
    <3>1. "model" \in N
      BY DEF AttributeNames
    <3> HIDE DEF N
    <3>2. <<"model">> \in Seq(N)
      BY <3>1
    <3>. QED  BY <1>2, <3>2, BoundAttributesType DEF ReadCluster, BindCluster, N
  <2>2. /\ h.at = "next" /\ h.todo # <<>> /\ h.todo \in Seq(Position)
    BY <1>2 DEF ReadCluster, BindCluster, TypeInv, HandlerType
  <2>3. Head(h.todo) \in Position
    BY <2>2, HeadTailProperties
  <2>4. Head(h.todo).ep \in 0..255 /\ Head(h.todo).cluster \in Used
    BY <2>3 DEF Position
  <2>5. Entry \in EntryType
    BY <2>2, EntryTyped
  <2>6. attrs' = Added(Entry, Head(h.todo).ep, Head(h.todo).cluster, names)
    BY <2>1 DEF AddAttributes
  <2>7. Continues(Added(Entry, Head(h.todo).ep, Head(h.todo).cluster, names))
    BY <2>4, <2>5, AddedAll, ZenonT(30)
  <2>. QED  BY <2>6, <2>7
<1>3. UNCHANGED attrs \/ ReadCluster \/ BindCluster
  BY DEF Next, Callback, Network, Loop, Ask, Wake, Timeout, Clusters, ReadEnds, BindEnds,
         HandleAnnounce, HandleActiveEp, HandleDescriptor, HandleReadAttr, HandleReport,
         HandleIeeeAddr, Join, Leave, Report, Arrive, TimerExpires, tableVars
<1>. QED  BY <1>1, <1>2, <1>3

\* The attributes that cluster c of endpoint i of an entry is bound for are found
\* under the address its device joined with.
Known(e, i, c) ==
  \A a \in Range(BoundAttributes(c, e.eps[i].type)) :
    FindAttribute(joinNode[e.ieee], e.eps[i].id, c, a)
Left(e, i, c) ==
  [ep |-> e.eps[i].id, cluster |-> c, type |-> e.eps[i].type] \in Range(h.todo)

ActiveKnown ==
  \A s \in Slots : table[s].state = "active" =>
    /\ table[s].ieee # None
    /\ \A i \in 1..table[s].epCount : \A c \in Range(table[s].eps[i].clusters) :
         Known(table[s], i, c)
TodoKnown ==
  h.at = "next" /\ h.kind = "bind" =>
    \A i \in 1..Entry.epCount : \A c \in Range(Entry.eps[i].clusters) :
      Known(Entry, i, c) \/ Left(Entry, i, c)

\* An entry becomes active at the end of its binding, and stays as it is then,
\* but for its address.
LEMMA BecomesActive ==
  ASSUME TypeInv, Next, ~ ErasePersistentData, ~ HandleLeave,
         NEW t \in Slots, table'[t].state = "active"
  PROVE  /\ table[t].state = "active" \/ (BindEnds /\ t = h.slot)
         /\ table'[t].ieee = table[t].ieee /\ table'[t].epCount = table[t].epCount
         /\ table'[t].eps = table[t].eps
<1> DEFINE Goal == /\ table[t].state = "active" \/ (BindEnds /\ t = h.slot)
                   /\ table'[t].ieee = table[t].ieee /\ table'[t].epCount = table[t].epCount
                   /\ table'[t].eps = table[t].eps
<1> SUFFICES Goal
  OBVIOUS
<1>1. table \in [Slots -> EntryType] /\ table[t] \in EntryType
  BY DEF TypeInv, TypeOK
<1>2. CASE table'[t] = table[t]
  BY <1>2
<1>3. ASSUME NEW u, NEW e, table' = [table EXCEPT ![u] = e], e.state # "active"
      PROVE  Goal
  <2>1. table'[t] = IF t = u THEN e ELSE table[t]
    BY <1>1, <1>3
  <2>. QED  BY <1>2, <1>3, <2>1
<1>4. CASE h.at \in {"ask", "wait"} /\ Failed
  <2>1. CASE table' = [table EXCEPT ![h.slot] = [Entry EXCEPT !.epCount = 1, !.state = "getCluster"]]
    <3>1. Entry \in EntryType
      BY <1>4, EntryTyped
    <3>2. [Entry EXCEPT !.epCount = 1, !.state = "getCluster"].state = "getCluster"
      BY <3>1 DEF EntryType
    <3>. QED  BY <1>3, <2>1, <3>2
  <2>. QED  BY <1>2, <1>4, <2>1, FailedFacts
<1>5. CASE BindEnds
  <2>1. table' = [table EXCEPT ![h.slot].state = "active"]
    BY <1>5 DEF BindEnds
  <2>2. CASE t = h.slot
    <3>1. table'[t] = [table[t] EXCEPT !.state = "active"]
      BY <1>1, <2>1, <2>2
    <3>. QED  BY <1>1, <1>5, <2>2, <3>1 DEF EntryType
  <2>. QED  BY <1>1, <1>2, <2>1, <2>2
<1>6. CASE HandleAnnounce
  <2> DEFINE e == [Blank EXCEPT !.node = Head(queue).node, !.ieee = Head(queue).from,
                                !.state = "new"]
  <2>1. e.state # "active"
    BY DEF Blank
  <2>2. UNCHANGED table \/ table' = [table EXCEPT ![FreeSlot] = e]
    BY <1>6 DEF HandleAnnounce
  <2> HIDE DEF e
  <2>. QED  BY <1>2, <1>3, <2>1, <2>2
<1>7. CASE HandleActiveEp
  BY <1>2, <1>3, <1>7, ActiveEpFacts
<1>8. CASE HandleDescriptor
  BY <1>2, <1>3, <1>8, DescriptorFacts
<1>9. CASE HandleReadAttr
  <2> DEFINE s == FindNode(Head(queue).node)
  <2>1. CASE s # 0 /\ table' = [table EXCEPT ![s].state = "bind"]
    <3>1. table' = [table EXCEPT ![s] = [table[s] EXCEPT !.state = "bind"]] /\ s \in Slots
      BY <2>1, SlotsFound
    <3>2. [table[s] EXCEPT !.state = "bind"].state # "active"
      BY <1>1, <3>1 DEF EntryType
    <3> HIDE DEF s
    <3>. QED  BY <1>3, <3>1, <3>2
  <2>. QED  BY <1>2, <1>9, <2>1 DEF HandleReadAttr
<1>10. CASE HandleIeeeAddr
  <2> DEFINE s == FindIeee(Head(queue).from)
  <2>1. CASE table' = [table EXCEPT ![s].node = Head(queue).node]
    <3> HIDE DEF s
    <3>1. CASE t = s
      <4>1. table'[t] = [table[t] EXCEPT !.node = Head(queue).node]
        BY <1>1, <2>1, <3>1
      <4>. QED  BY <1>1, <4>1 DEF EntryType
    <3>. QED  BY <1>1, <1>2, <2>1, <3>1
  <2>. QED  BY <1>2, <1>10, <2>1 DEF HandleIeeeAddr, Moved
<1>11. \/ UNCHANGED table
       \/ h.at \in {"ask", "wait"} /\ Failed
       \/ BindEnds \/ HandleAnnounce \/ HandleActiveEp \/ HandleDescriptor \/ HandleReadAttr
       \/ HandleIeeeAddr
  BY DEF Next, Callback, Network, Loop, Ask, Wake, Timeout, Clusters, ReadCluster, ReadEnds,
         BindCluster, HandleReport, Join, Leave, Report, Arrive, TimerExpires, tableVars
<1> HIDE DEF Goal
<1>. QED  BY <1>2, <1>4, <1>5, <1>6, <1>7, <1>8, <1>9, <1>10, <1>11

\* The clusters left to bind are all of the entry's, then one less at a time.
LEMMA BindStep ==
  ASSUME TypeInv, Next, ~ ErasePersistentData, h'.at = "next", h'.kind = "bind"
  PROVE  /\ h.at # "idle" /\ h'.slot = h.slot /\ UNCHANGED <<table, joinNode>>
         /\ \/ h.at = "next" /\ h.kind = "bind" /\ h'.todo = h.todo /\ UNCHANGED attrs
            \/ h'.todo = Positions(Entry, Used) /\ UNCHANGED attrs
            \/ BindCluster
<1>1. /\ h \in HandlerType /\ Idle.at = "idle"
      /\ h.at = "idle" => h = Idle
      /\ \A s : Begin(s).at = "loop"
      /\ h.at \in {"ask", "wait"} => h.kind # "bind"
  BY DEF TypeInv, Idle, Begin
<1>2. h' # Idle /\ ~ (\E s : h' = Begin(s))
  BY <1>1
<1>3. h.at # "idle" /\ h'.slot = h.slot
  <2>1. ~ (\E s : h' = Begin(s)) /\ h'.at # "idle"
    BY <1>2
  <2>. QED  BY <2>1, SlotStep
<1>4. ~ \E kind : Taken(kind)
  BY <1>3 DEF Taken
<1>5. CASE h.at \in {"ask", "wait"} /\ Failed
  <2>1. h'.kind = h.kind
    BY <1>1, <1>2, <1>5, FailedFacts DEF HandlerType
  <2>. QED  BY <1>1, <1>5, <2>1
<1>6. CASE Loop
  <2>1. UNCHANGED <<table, attrs, joinNode>>
    BY <1>6 DEF Loop, tableVars
  <2>2. CASE LoopClusters("bind", Positions(Entry, Used))
    <3> DEFINE todo == Positions(Entry, Used)
    <3>1. h' = [h EXCEPT !.at = "next", !.kind = "bind", !.todo = todo]
      BY <2>2 DEF LoopClusters
    <3> HIDE DEF todo
    <3>2. h'.todo = todo
      BY <1>1, <3>1 DEF HandlerType
    <3>. QED  BY <1>3, <2>1, <3>2 DEF todo
  <2>3. CASE LoopClusters("readAttr", Positions(Entry, {"basic"}))
    <3> DEFINE todo == Positions(Entry, {"basic"})
    <3>1. h' = [h EXCEPT !.at = "next", !.kind = "readAttr", !.todo = todo]
      BY <2>3 DEF LoopClusters
    <3> HIDE DEF todo
    <3>. QED  BY <1>1, <3>1 DEF HandlerType
  <2>4. LoopNew \/ LoopCluster \/ LoopOther => h'.at # "next"
    BY <1>1 DEF LoopNew, LoopCluster, LoopOther, HandlerType
  <2>. QED  BY <1>6, <2>2, <2>3, <2>4 DEF Loop
<1>7. CASE Ask
  BY <1>1, <1>3, <1>5, <1>7 DEF Ask, HandlerType
<1>8. CASE Wake
  <2>1. h.at = "wait" /\ (h' = Idle \/ h' = [h EXCEPT !.at = "next"])
    BY <1>8 DEF Wake
  <2>. QED  BY <1>1, <1>2, <2>1 DEF HandlerType
<1>9. CASE Clusters
  <2>1. CASE ReadCluster \/ ReadEnds \/ BindEnds
    BY <1>1, <1>2, <2>1 DEF ReadCluster, ReadEnds, BindEnds, HandlerType
  <2>2. CASE BindCluster
    BY <1>3, <1>9, <2>2 DEF Clusters, BindCluster
  <2>. QED  BY <1>9, <2>1, <2>2 DEF Clusters
<1>10. CASE Timeout
  BY <1>5, <1>10 DEF Timeout
<1>11. CASE UNCHANGED <<h, tableVars>>
  BY <1>3, <1>11 DEF tableVars
<1>12. CASE h.at = "wait" /\ h' = [h EXCEPT !.woken = TRUE]
  BY <1>1, <1>12 DEF HandlerType
<1>. QED
  BY <1>4, <1>6, <1>7, <1>8, <1>9, <1>10, <1>11, <1>12
     DEF Next, Callback, Network, Join, Leave, Report, Arrive, TimerExpires, HandleAnnounce,
         HandleLeave, HandleActiveEp, HandleDescriptor, HandleReadAttr, HandleReport,
         HandleIeeeAddr

KnownInv ==
  gone = 0 =>
    /\ Placed
    /\ \A s \in Slots : EntryGood(table[s])
    /\ Len(attrs) < MaxAttributes => ActiveKnown /\ TodoKnown

\* What is found stays to be found.
LEMMA FoundStays ==
  ASSUME TypeInv, Placed, Next, gone' = 0,
         NEW s \in Slots, table[s].ieee # None, table'[s].ieee = table[s].ieee,
         table'[s].eps = table[s].eps, NEW i, NEW c, Known(table[s], i, c)
  PROVE  Known(table[s], i, c)'
<1> DEFINE node == joinNode[table[s].ieee]
<1>1. Continues(attrs') /\ joinNode'[table[s].ieee] = node
  BY PlacedKept, AttributesKeptStep
<1>2. ASSUME NEW a, FindAttribute(node, table[s].eps[i].id, c, a)
      PROVE  FindAttribute(node, table[s].eps[i].id, c, a)'
  BY <1>1, <1>2 DEF FindAttribute, Continues
<1>. QED  BY <1>1, <1>2 DEF Known

\* A table that is not full was not full before.
LEMMA RoomBefore ==
  ASSUME TypeInv, TypeInv', Placed, Next, gone' = 0, Len(attrs') < MaxAttributes
  PROVE  Len(attrs) < MaxAttributes
<1>1. Len(attrs) <= Len(attrs')
  BY PlacedKept, AttributesKeptStep DEF Continues
<1>2. Len(attrs) \in Nat /\ Len(attrs') \in Nat
  BY LenProperties DEF TypeInv, TypeOK
<1>. QED  BY <1>1, <1>2, SizesAssumption

LEMMA ActiveKnownStep ==
  ASSUME TypeInv, TypeInv', Placed, ActiveKnown, TodoKnown, Next, gone' = 0
  PROVE  ActiveKnown'
<1> SUFFICES ASSUME NEW s \in Slots, table'[s].state = "active"
             PROVE  /\ table'[s].ieee # None
                    /\ \A i \in 1..table'[s].epCount : \A c \in Range(table'[s].eps[i].clusters) :
                         Known(table[s], i, c)'
  BY DEF ActiveKnown
<1>1. /\ table[s].state = "active" \/ (BindEnds /\ s = h.slot)
      /\ table'[s].ieee = table[s].ieee /\ table'[s].epCount = table[s].epCount
      /\ table'[s].eps = table[s].eps
  BY PlacedKept, BecomesActive
<1>2. CASE table[s].state = "active"
  BY <1>1, <1>2, FoundStays DEF ActiveKnown
<1>3. CASE BindEnds /\ s = h.slot
  <2>1. /\ h.at = "next" /\ h.kind = "bind" /\ h.todo = <<>> /\ table[s] = Entry
        /\ Entry.ieee # None
    BY <1>3 DEF BindEnds, Entry, Placed
  <2>2. \A i, c : ~ Left(Entry, i, c)
    BY <2>1 DEF Left, Range
  <2>3. \A i \in 1..table[s].epCount : \A c \in Range(table[s].eps[i].clusters) :
          Known(table[s], i, c)
    BY <2>1, <2>2 DEF TodoKnown
  <2>. QED  BY <1>1, <2>1, <2>3, FoundStays
<1>. QED  BY <1>1, <1>2, <1>3

LEMMA TodoKnownStep ==
  ASSUME TypeInv, TypeInv', Placed, \A s \in Slots : EntryGood(table[s]),
         TodoKnown, Next, gone' = 0, Len(attrs') < MaxAttributes
  PROVE  TodoKnown'
<1> SUFFICES ASSUME h'.at = "next", h'.kind = "bind",
                    NEW i \in 1..Entry'.epCount, NEW c \in Range(Entry'.eps[i].clusters)
             PROVE  Known(Entry, i, c)' \/ Left(Entry, i, c)'
  BY DEF TodoKnown
<1>0. ~ ErasePersistentData
  BY PlacedKept
<1>1. /\ h.at # "idle" /\ h'.slot = h.slot /\ UNCHANGED <<table, joinNode>>
      /\ \/ h.at = "next" /\ h.kind = "bind" /\ h'.todo = h.todo /\ UNCHANGED attrs
         \/ h'.todo = Positions(Entry, Used) /\ UNCHANGED attrs
         \/ BindCluster
  BY <1>0, BindStep
<1>2. /\ h.slot \in Slots /\ Entry = table[h.slot] /\ Entry' = Entry /\ Entry \in EntryType
      /\ EntryGood(Entry) /\ Entry.ieee # None /\ Entry.node = joinNode[Entry.ieee]
  BY <1>1, EntryTyped DEF Placed, Entry
<1> DEFINE p == [ep |-> Entry.eps[i].id, cluster |-> c, type |-> Entry.eps[i].type]
<1>3. i \in 1..Entry.epCount /\ c \in Range(Entry.eps[i].clusters)
  BY <1>2
<1>4. /\ i \in 1..MaxEndpoints /\ Entry.eps[i] \in EndpointType
      /\ Entry.eps[i].clusters \in Seq(Used) /\ c \in Used
  <2>1. i \in 1..MaxEndpoints
    BY <1>2, <1>3, SizesAssumption DEF EntryType
  <2>2. Entry.eps[i] \in EndpointType /\ Entry.eps[i].clusters \in Seq(Used)
    BY <1>2, <2>1 DEF EntryType, EndpointType
  <2>3. c \in Used
    BY <1>3, <2>2, ElementOfSeq, LenProperties DEF Range
  <2>. QED  BY <2>1, <2>2, <2>3
<1>5. Entry.eps[i].id = 1
  <2>1. Entry.eps[i].clusters # <<>>
    BY <1>3, EmptySeq DEF Range
  <2>. QED  BY <1>2, <1>4, <2>1 DEF EntryGood, FirstOne
<1>6. Known(Entry, i, c) => Known(Entry, i, c)'
  <2>1. PICK s \in Slots : s = h.slot
    BY <1>2
  <2>2. Entry = table[s] /\ Entry' = table'[s] /\ table' = table /\ table[s].ieee # None
    BY <1>1, <1>2, <2>1 DEF Entry
  <2>3. Known(table[s], i, c) => Known(table[s], i, c)'
    BY <2>2, FoundStays
  <2>. QED  BY <2>2, <2>3 DEF Known
<1>7. Left(Entry, i, c)' <=> p \in Range(h'.todo)
  BY <1>2 DEF Left
<1>8. CASE h'.todo = h.todo /\ h.at = "next" /\ h.kind = "bind"
  BY <1>2, <1>3, <1>6, <1>7, <1>8 DEF TodoKnown, Left
<1>9. CASE h'.todo = Positions(Entry, Used)
  <2>1. PICK j \in DOMAIN Entry.eps[i].clusters : c = Entry.eps[i].clusters[j]
    BY <1>3 DEF Range
  <2>2. p \in Range(Positions(Entry, Used))
    BY <1>2, <1>3, <1>4, <2>1, PositionsRange
  <2>. QED  BY <1>7, <1>9, <2>2
<1>10. CASE BindCluster
  <2>1. /\ h.at = "next" /\ h.kind = "bind" /\ h.todo # <<>>
        /\ h' = [h EXCEPT !.todo = Tail(@)]
        /\ AddAttributes(Head(h.todo), BoundAttributes(Head(h.todo).cluster, Head(h.todo).type))
    BY <1>10 DEF BindCluster
  <2>2. h \in HandlerType /\ h.todo \in Seq(Position)
    BY DEF TypeInv, HandlerType
  <2>3. h'.todo = Tail(h.todo)
    BY <2>1, <2>2 DEF HandlerType
  <2>4. CASE Known(Entry, i, c)
    BY <1>6, <2>4
  <2>5. CASE p \in Range(h.todo) /\ p # Head(h.todo)
    <3>1. p \in Range(Tail(h.todo))
      BY <2>1, <2>2, <2>5, RangeTail
    <3>. QED  BY <1>7, <2>3, <3>1
  <2>6. CASE p = Head(h.todo)
    <3> DEFINE names == BoundAttributes(c, Entry.eps[i].type)
               A == Added(Entry, 1, c, names)
    <3>1. attrs' = A
      BY <1>5, <2>1, <2>6 DEF AddAttributes
    <3>2. ValidNode(Entry.node) /\ ValidEndpoint(1) /\ 1 \in 0..255
      BY <1>2 DEF Placed, ValidNode, ValidEndpoint
    <3>3. names \in Seq(AttributeNames)
      BY BoundAttributesType
    <3>4. Lists(A, Entry.node, 1, c, names)
      <4>1. Len(A) < MaxAttributes
        BY <3>1
      <4>2. Entry \in EntryType /\ c \in Used
        BY <1>2, <1>4
      <4> HIDE DEF names
      <4>. QED  BY <3>2, <3>3, <4>1, <4>2, AddedAll, Zenon
    <3> HIDE DEF A
    <3>5. \A a \in Range(names) : FindAttribute(Entry.node, 1, c, a)'
      BY <1>2, <3>1, <3>4 DEF FindAttribute, Lists
    <3>. QED  BY <1>1, <1>2, <1>5, <3>5 DEF Known, names
  <2>7. Known(Entry, i, c) \/ p \in Range(h.todo)
    BY <1>3, <2>1 DEF TodoKnown, Left
  <2>. QED  BY <2>4, <2>5, <2>6, <2>7
<1>. QED  BY <1>1, <1>6, <1>8, <1>9, <1>10

LEMMA KnownInvStep ==
  ASSUME NoSharedAddress
  PROVE  TypeInv /\ TypeInv' /\ OwnAddresses /\ KnownInv /\ [Next]_vars => KnownInv'
<1> SUFFICES ASSUME TypeInv, TypeInv', OwnAddresses, KnownInv, [Next]_vars, gone' = 0
             PROVE  /\ Placed' /\ \A s \in Slots : EntryGood(table'[s])
                    /\ Len(attrs') < MaxAttributes => ActiveKnown' /\ TodoKnown'
  BY DEF KnownInv, EntryGood, FirstOne, Filled
<1>1. CASE Next
  <2>1. gone = 0
    <3>1. gone' >= gone /\ gone \in 0..MaxGone
      BY <1>1, CountersStep DEF TypeInv, TypeOK
    <3>. QED  BY <3>1, SizesAssumption
  <2>2. Placed /\ \A s \in Slots : EntryGood(table[s])
    BY <2>1 DEF KnownInv
  <2>3. ~ ErasePersistentData /\ ~ HandleLeave
    BY <1>1, <2>2, PlacedKept
  <2>4. ASSUME NEW t \in Slots
        PROVE  EntryGood(table'[t])
    <3>1. table[t].ieee = None <=> table[t].node = None
      BY <2>2 DEF Placed
    <3>2. ASSUME HandleActiveEp, table[t].node = Head(queue).node
          PROVE  table[t].ieee = Head(queue).from
      <4>1. Head(queue) \in OnTheWay
        BY <3>2, TakenOnTheWay DEF HandleActiveEp, Taken
      <4>2. Head(queue).from \in Devices /\ Head(queue).node \in AddressesOf[Head(queue).from]
        BY <4>1, MessagesSent
      <4>. QED  BY <2>2, <3>2, <4>2, OwnerOf
    <3>. QED  BY <1>1, <2>2, <2>3, <3>1, <3>2, EntryStays
  <2>5. ASSUME Len(attrs') < MaxAttributes
        PROVE  ActiveKnown' /\ TodoKnown'
    <3>1. ActiveKnown /\ TodoKnown
      BY <1>1, <2>1, <2>2, <2>5, RoomBefore DEF KnownInv
    <3>. QED  BY <1>1, <2>2, <2>5, <3>1, ActiveKnownStep, TodoKnownStep
  <2>. QED  BY <1>1, <2>2, <2>4, <2>5, PlacedStep
<1>2. CASE UNCHANGED vars
  <2>1. /\ gone' = gone /\ air' = air /\ queue' = queue /\ table' = table /\ attrs' = attrs
        /\ h' = h /\ joinNode' = joinNode
    BY <1>2 DEF vars, envVars, tableVars
  <2>2. Entry' = Entry /\ OnTheWay' = OnTheWay
    BY <2>1 DEF Entry, OnTheWay
  <2>3. Placed' /\ \A s \in Slots : EntryGood(table'[s])
    BY <2>1, <2>2 DEF KnownInv, Placed
  <2>4. \A n, ep, c, a : FindAttribute(n, ep, c, a)' <=> FindAttribute(n, ep, c, a)
    BY <2>1 DEF FindAttribute
  <2>5. Len(attrs') < MaxAttributes => ActiveKnown' /\ TodoKnown'
    BY <2>1, <2>2, <2>4 DEF KnownInv, ActiveKnown, TodoKnown, Known, Left
  <2>. QED  BY <2>3, <2>5
<1>. QED  BY <1>1, <1>2

\* What a device was bound for is found when it reports it (the loop over the
\* clusters in vZDM_NewDeviceQualifyProcess, tZDM_AddNewAttributeToAttributeTable,
\* ZCB_HandleAttributeReport), as long as attributeTable is not full, so that none
\* was left out, and if no address is ever given to two devices.
THEOREM ReportsKnown ==
  ASSUME NoSharedAddress
  PROVE  Spec => [](Len(attrs) < MaxAttributes => ReportsAreKnown)
<1>1. Init => OwnAddresses /\ KnownInv
  <2> SUFFICES ASSUME Init PROVE OwnAddresses /\ KnownInv
    OBVIOUS
  <2>1. OnTheWay = {} /\ h.at = "idle" /\ \A s \in Slots : table[s] = Blank
    BY DEF Init, OnTheWay, EmptyBag, BagToSet, SetToBag, Idle
  <2>2. OwnAddresses /\ Placed
    BY <2>1 DEF OwnAddresses, Placed, Blank
  <2>3. \A s \in Slots : EntryGood(table[s])
    BY DEF Init, Blank, NoEndpoint, EntryGood
  <2>4. ActiveKnown /\ TodoKnown
    BY <2>1 DEF ActiveKnown, TodoKnown, Blank
  <2>. QED  BY <2>2, <2>3, <2>4 DEF KnownInv
<1>2. KnownInv => (Len(attrs) < MaxAttributes => ReportsAreKnown)
  BY DEF KnownInv, ActiveKnown, Known, ReportsAreKnown
<1>3. Spec => []OwnAddresses
  BY <1>1, OwnAddressesStep, TypeHolds, PTL DEF Spec
<1>4. TypeInv /\ TypeInv' /\ OwnAddresses /\ KnownInv /\ [Next]_vars => KnownInv'
  BY KnownInvStep
<1>5. Spec => []KnownInv
  BY <1>1, <1>3, <1>4, TypeHolds, PTL DEF Spec
<1>. QED  BY <1>2, <1>5, PTL

====
