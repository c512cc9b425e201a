---------------------------- MODULE NodeJoin_proofs ----------------------------
(***************************************************************************)
(* Proofs about NodeJoin, for every number of nodes, entries, devices and  *)
(* endpoint ids.                                                           *)
(***************************************************************************)
EXTENDS NodeJoin, DataLemmas, FiniteSetTheorems

-----------------------------------------------------------------------------
(* Facts about the constants and the operators on the record.              *)

LEMMA ConstantFacts ==
  /\ Entries \subseteq Nat /\ 0 \in Entries
  /\ Devices \subseteq Nat /\ 0 \in Devices
  /\ 0 \in EndpointIds /\ EndpointIds \subseteq Nat
  /\ Empty \in Entry /\ NoDev \in Dev
  /\ \A t \in 0..3, kind \in Kinds : TypeAfter(kind, t) \in 0..3
  /\ \A t \in 0..3 : KindOfType(t) \in Kinds
BY SizesAssumption
   DEF Entries, Devices, EndpointIds, Empty, NoDev, Entry, Dev, Kinds, TypeAfter,
       KindOfType

LEMMA RecordFacts ==
  ASSUME NEW s \in Record
  PROVE  /\ s \in Seq(Entry)
         /\ Len(s) \in 0..DevNum
         /\ DOMAIN s = 1..Len(s)
         /\ \A j \in 1..Len(s) : s[j] \in Entry
BY LenProperties, ElementOfSeq, SizesAssumption DEF Record

\* The empty record.
LEMMA EmptyRecord == <<>> \in Record
BY EmptySeq, SizesAssumption DEF Record

\* Where the entry at position j of the record without entry g was.
Kept(g, j) == IF j <= g THEN j ELSE j + 1

LEMMA WithoutFacts ==
  ASSUME NEW s \in Record, s # <<>>, NEW g \in Nat
  PROVE  /\ Without(s, g) \in Record
         /\ Len(Without(s, g)) = Len(s) - 1
         /\ \A j \in 1..(Len(s) - 1) :
              Kept(g, j) \in 1..Len(s) /\ Without(s, g)[j] = s[Kept(g, j)]
<1>0. s \in Seq(Entry) /\ Len(s) \in 1..DevNum /\ DevNum \in Nat
  BY RecordFacts, EmptySeq, SizesAssumption
<1>1. CASE g < Len(s)
  <2>1. g + 1 \in 1..Len(s)
    BY <1>0, <1>1
  <2>2. /\ RemoveAt(s, g + 1) \in Seq(Entry)
        /\ Len(RemoveAt(s, g + 1)) = Len(s) - 1
        /\ \A j \in 1..(Len(s) - 1) :
             RemoveAt(s, g + 1)[j] = IF j < g + 1 THEN s[j] ELSE s[j + 1]
    BY <1>0, <2>1, RemoveAtProperties
  <2>3. Without(s, g) = RemoveAt(s, g + 1)
    BY <1>1 DEF Without
  <2>4. \A j \in 1..(Len(s) - 1) :
          /\ Kept(g, j) \in 1..Len(s)
          /\ s[Kept(g, j)] = IF j < g + 1 THEN s[j] ELSE s[j + 1]
    BY <1>0 DEF Kept
  <2>. QED  BY <1>0, <2>2, <2>3, <2>4 DEF Record
<1>2. CASE ~ (g < Len(s))
  <2>1. /\ Front(s) \in Seq(Entry)
        /\ Len(Front(s)) = Len(s) - 1
        /\ \A j \in 1..(Len(s) - 1) : Front(s)[j] = s[j]
    BY <1>0, FrontProperties
  <2>2. Without(s, g) = Front(s)
    BY <1>2 DEF Without
  <2>3. \A j \in 1..(Len(s) - 1) : Kept(g, j) \in 1..Len(s) /\ Kept(g, j) = j
    BY <1>0, <1>2 DEF Kept
  <2>. QED  BY <1>0, <2>1, <2>2, <2>3 DEF Record
<1>. QED  BY <1>1, <1>2

\* What the two searches for a MAC address return.
LEMMA SearchFacts ==
  ASSUME NEW s \in Record, NEW m
  PROVE  /\ Position(s, m) \in 0..DevNum
         /\ Position(s, m) # 0 =>
              Position(s, m) \in DOMAIN s /\ s[Position(s, m)].mac = m
         /\ Position(s, m) = 0 => \A j \in DOMAIN s : s[j].mac # m
<1>1. Matching(s, m) \subseteq 1..Len(s) /\ Len(s) \in 0..DevNum
  BY RecordFacts DEF Matching
<1>2. CASE Matching(s, m) = {}
  BY <1>2, SizesAssumption DEF Position, Matching
<1>3. CASE Matching(s, m) # {}
  <2>1. Min(Matching(s, m)) \in Matching(s, m)
    BY <1>1, <1>3, MinOfNats
  <2>2. Position(s, m) = Min(Matching(s, m))
    BY <1>3 DEF Position
  <2>3. Position(s, m) \in DOMAIN s /\ s[Position(s, m)].mac = m
    BY <2>1, <2>2 DEF Matching
  <2>4. Position(s, m) \in 1..DevNum
    BY <1>1, <2>1, <2>2, SizesAssumption
  <2>. QED  BY <2>3, <2>4
<1>. QED  BY <1>2, <1>3

LEMMA FoundFacts ==
  ASSUME NEW s \in Record, cb.Idx \in 0..DevNum
  PROVE  /\ FoundAt(s) \in 0..DevNum
         /\ Matching(s, cb.node) # {} =>
              FoundAt(s) + 1 \in DOMAIN s /\ s[FoundAt(s) + 1].mac = cb.node
<1>1. Matching(s, cb.node) \subseteq 1..Len(s) /\ Len(s) \in 0..DevNum
  BY RecordFacts DEF Matching
<1>2. CASE Matching(s, cb.node) = {}
  BY <1>2 DEF FoundAt
<1>3. CASE Matching(s, cb.node) # {}
  <2>1. Min(Matching(s, cb.node)) \in Matching(s, cb.node)
    BY <1>1, <1>3, MinOfNats
  <2>. QED  BY <1>1, <1>3, <2>1, SizesAssumption DEF FoundAt, Matching
<1>. QED  BY <1>2, <1>3

\* An endpoint id above those of a record is a number, and above them.
LEMMA NextSavedFacts ==
  ASSUME NEW s \in Record, \A j \in DOMAIN s : s[j].ep # EndpointLimit
  PROVE  /\ NextSaved(s) \in EndpointIds \ {0}
         /\ \A j \in DOMAIN s : s[j].ep < NextSaved(s)
<1> DEFINE eps == {0} \cup {s[j].ep : j \in DOMAIN s}
<1>1. EndpointLimit \in Nat /\ EndpointLimit - 1 \in Nat
  BY SizesAssumption
<1>2. \A j \in DOMAIN s : s[j].ep \in 0..(EndpointLimit - 1)
  BY RecordFacts, SizesAssumption DEF Entry, EndpointIds
<1>3. eps \in SUBSET (0..(EndpointLimit - 1)) /\ eps # {}
  BY <1>1, <1>2
<1>4. /\ Max(eps) \in 0..(EndpointLimit - 1)
      /\ \A k \in eps : k <= Max(eps)
  <2> HIDE DEF eps
  <2>. QED  BY <1>1, <1>3, MaxOfNats
<1>5. NextSaved(s) = Max(eps) + 1
  BY DEF NextSaved
<1>6. \A j \in DOMAIN s : s[j].ep \in eps
  OBVIOUS
<1> HIDE DEF eps
<1>7. \A j \in DOMAIN s : s[j].ep < NextSaved(s)
  BY <1>1, <1>2, <1>4, <1>5, <1>6
<1>8. NextSaved(s) \in 1..EndpointLimit
  BY <1>1, <1>4, <1>5
<1>. QED  BY <1>7, <1>8 DEF EndpointIds
-----------------------------------------------------------------------------
(* Types.                                                                  *)

\* No endpoint id in use or saved is kInvalidEndpointId, so that the id above
\* the highest saved one is still an id.
EndpointsUsable ==
  /\ \A i \in Entries : joined[i].ep # EndpointLimit
  /\ \A j \in DOMAIN saved : saved[j].ep # EndpointLimit
  /\ \A j \in DOMAIN FlashRecord : FlashRecord[j].ep # EndpointLimit
  /\ mon.new.ep # EndpointLimit
  /\ mon.at \in {"check", "assign"} => curEp # EndpointLimit

\* Between RetrieveEntry and RetrieveNext the shell is at an entry of the list.
RetrieveOK == cli.at \in {"post", "delay"} => cli.i <= DevNum

TypeInv == TypeOK /\ EndpointsUsable /\ RetrieveOK

\* What a read of the record finds.
LEMMA LoadedFacts ==
  ASSUME TypeInv
  PROVE  /\ Loaded \in Record /\ FlashRecord \in Record
         /\ \A j \in DOMAIN Loaded : Loaded[j].ep # EndpointLimit
         /\ flash # NoFile => Loaded = flash /\ FlashRecord = flash
         /\ flash = NoFile => Loaded = saved /\ FlashRecord = <<>>
BY EmptyRecord DEF TypeInv, TypeOK, EndpointsUsable, Loaded, FlashRecord

LEMMA InitType == Init => TypeInv
<1> SUFFICES ASSUME Init PROVE TypeInv
  OBVIOUS
<1>1. TypeOK
  BY ConstantFacts, EmptyRecord, SizesAssumption, NodesAssumption
     DEF Init, TypeOK, NoMail, Idle, Sleeping, Prompt, EndpointIds
<1>2. DOMAIN <<>> = {}
  OBVIOUS
<1>. QED
  BY <1>1, <1>2, SizesAssumption
     DEF Init, TypeInv, EndpointsUsable, RetrieveOK, FlashRecord, Empty, Sleeping,
         Prompt

\* The entries SaveJoinedNodes adds are entries of the list.
LEMMA NewEntriesType ==
  ASSUME TypeInv
  PROVE  /\ Loaded \in Seq({e \in Entry : e.ep # EndpointLimit})
         /\ FlattenSeq([i \in 1..DevNum |-> [k \in 1..TimesNew(i - 1) |-> joined[i - 1]]])
              \in Seq({e \in Entry : e.ep # EndpointLimit})
<1> DEFINE Usable == {e \in Entry : e.ep # EndpointLimit}
           rows == [i \in 1..DevNum |->
                      [k \in 1..TimesNew(i - 1) |-> joined[i - 1]]]
<1>1. \A i \in 1..DevNum : i - 1 \in Entries
  BY SizesAssumption DEF Entries
<1>2. \A i \in Entries : joined[i] \in Usable
  BY DEF TypeInv, TypeOK, EndpointsUsable
<1>3. Loaded \in Seq(Usable) /\ IsFiniteSet(DOMAIN Loaded)
  <2>1. /\ Loaded \in [1..Len(Loaded) -> Usable]
        /\ Len(Loaded) \in Nat
        /\ DOMAIN Loaded = 1..Len(Loaded)
    BY LoadedFacts, RecordFacts, LenProperties
  <2>2. IsFiniteSet(1..Len(Loaded))
    BY <2>1, FS_Interval
  <2> HIDE DEF Usable
  <2>3. Loaded \in Seq(Usable)
    BY <2>1, SeqDef
  <2>. QED  BY <2>1, <2>2, <2>3
<1>4. \A i \in Entries : TimesNew(i) \in Nat
  <2> SUFFICES ASSUME NEW i \in Entries PROVE TimesNew(i) \in Nat
    OBVIOUS
  <2> DEFINE differing == {j \in DOMAIN Loaded : Loaded[j] # joined[i]}
  <2>1. IsFiniteSet(differing)
    BY <1>3, FS_Subset
  <2>2. Cardinality(differing) \in Nat
    BY <2>1, FS_CardinalityType
  <2>. QED  BY <2>2 DEF TimesNew
<1> HIDE DEF Usable
<1>5. \A i \in 1..DevNum : rows[i] \in Seq(Usable)
  <2> SUFFICES ASSUME NEW i \in 1..DevNum
               PROVE  [k \in 1..TimesNew(i - 1) |-> joined[i - 1]] \in Seq(Usable)
    OBVIOUS
  <2>1. TimesNew(i - 1) \in Nat /\ joined[i - 1] \in Usable
    BY <1>1, <1>2, <1>4
  <2>. QED  BY <2>1, SeqDef
<1>6. rows \in Seq(Seq(Usable))
  <2>1. rows \in [1..DevNum -> Seq(Usable)]
    BY <1>5
  <2> HIDE DEF rows
  <2>. QED  BY <2>1, SeqDef, SizesAssumption
<1> HIDE DEF rows
<1>7. FlattenSeq(rows) \in Seq(Usable)
  BY <1>6, FlattenSeqType
<1>. QED  BY <1>3, <1>7 DEF rows, Usable

LEMMA SaveNodesType ==
  ASSUME TypeInv
  PROVE  Loaded \o FlattenSeq([i \in 1..DevNum |->
                               [k \in 1..TimesNew(i - 1) |-> joined[i - 1]]])
           \in Seq({e \in Entry : e.ep # EndpointLimit})
BY NewEntriesType, ConcatProperties

\* The types of the mailbox, of the node states and of where two tasks are.
MailType  == [msg : {"none", "add", "write", "restore"}, dev : Dev,
              ep : EndpointIds]
TableType == [Nodes -> {"absent", "joined", "described", "active"}]
CbType    == [at : {"idle", "ask", "post", "leave"}, node : Nodes \cup {None},
              Idx : 0..DevNum]
MonType   == [at : {"sleep", "place", "check", "assign", "copy", "read", "write",
                    "save"},
              dev : Dev, k : Devices, new : Entry, j : 0..DevNum]

LEMMA RestingTypes ==
  Idle \in CbType /\ Sleeping \in MonType /\ NoMail \in MailType
BY ConstantFacts, SizesAssumption
   DEF Idle, Sleeping, NoMail, CbType, MonType, MailType

LEMMA CbAtNode ==
  ASSUME NEW n \in Nodes, NEW a \in {"ask", "post"}
  PROVE  [Idle EXCEPT !.at = a, !.node = n] \in CbType
BY RestingTypes DEF CbType

LEMMA MonAtPlace ==
  ASSUME NEW d \in Dev, NEW k \in Devices
  PROVE  [Sleeping EXCEPT !.at = "place", !.dev = d, !.k = k] \in MonType
BY RestingTypes DEF MonType

LEMMA TypeStep == TypeInv /\ [Next]_vars => TypeOK'
<1> SUFFICES ASSUME TypeInv, [Next]_vars PROVE TypeOK'
  OBVIOUS
<1>0. TypeOK
  BY DEF TypeInv
<1> USE DEF TypeOK, nodeVars, bridgeVars, storeVars, countVars, Done,
            Prompt, Goto, MailType, TableType, CbType, MonType
<1>1. ASSUME NEW n \in Nodes, NEW a \in AddressesOf[n], Announce(n, a)
      PROVE  TypeOK'
  <2>1. FreeEntries # {} => Min(FreeEntries) \in Entries
    BY ConstantFacts, MinOfNats DEF FreeEntries
  <2>2. a \in Addresses /\ [type |-> 1, ep |-> 0, mac |-> n, addr |-> a] \in Entry
    BY ConstantFacts DEF Entry, Addresses
  <2>3. joined' \in [Entries -> Entry] /\ idx' \in Entries
    BY <1>0, <1>1, <2>1, <2>2 DEF Announce, IdxOf, TypeOnJoin
  <2>4. joins' \in 0..MaxJoins
    BY <1>0, <1>1, SizesAssumption DEF Announce
  <2>5. /\ table' \in TableType
        /\ answers' \in [Nodes -> 0..MaxDescriptors]
    BY <1>0, <1>1, SizesAssumption DEF Announce
  <2>6. cb' \in CbType
    <3> HIDE DEF CbType
    <3>1. cb \in CbType
      BY <1>0 DEF CbType
    <3>. QED  BY <1>1, <3>1, CbAtNode DEF Announce
  <2>7. addr' \in [Nodes -> Addresses]
    BY <1>0, <1>1, <2>2 DEF Announce
  <2>. QED  BY <1>0, <1>1, <2>3, <2>4, <2>5, <2>6, <2>7 DEF Announce
<1>2. ASSUME NEW n \in Nodes, Descriptor(n) PROVE TypeOK'
  <2>1. Described(n) \in Dev
    BY NodesAssumption DEF Described, Dev
  <2>2. TypeAfter(KindOf[n], joined[idx].type) \in 0..3
    BY <1>0, ConstantFacts, NodesAssumption DEF Entry
  <2>3. [joined EXCEPT ![idx].type = TypeAfter(KindOf[n], @)] \in [Entries -> Entry]
    BY <1>0, <2>2 DEF Entry
  <2>4. [answers EXCEPT ![n] = @ - 1] \in [Nodes -> 0..MaxDescriptors]
    BY <1>0, <1>2, SizesAssumption DEF Descriptor
  <2>5. answers' \in [Nodes -> 0..MaxDescriptors]
    BY <1>2, <2>4 DEF Descriptor
  <2>6. /\ joined' \in [Entries -> Entry]
        /\ sZcb' \in Dev
        /\ table' \in TableType
        /\ halted' \in {"no", "null", "overrun"}
    BY <1>0, <1>2, <2>1, <2>3 DEF Descriptor
  <2>7. cb' \in CbType
    <3> HIDE DEF CbType
    <3>1. cb \in CbType
      BY <1>0 DEF CbType
    <3>. QED  BY <1>2, <3>1, CbAtNode DEF Descriptor
  <2>. QED  BY <1>0, <1>2, <2>5, <2>6, <2>7 DEF Descriptor
<1>3. ASSUME NEW n \in Nodes, LoseDescriptor(n) PROVE TypeOK'
  BY <1>0, <1>3, SizesAssumption DEF LoseDescriptor
<1>4. ASSUME NEW n \in Nodes, Activate(n) PROVE TypeOK'
  BY <1>0, <1>4 DEF Activate
<1>5. ASSUME NEW n \in Nodes, Report(n) PROVE TypeOK'
  BY <1>0, <1>5, RestingTypes, ConstantFacts DEF Report
<1>6. ASSUME NEW n \in Nodes, Leave(n) PROVE TypeOK'
  BY <1>0, <1>6 DEF Leave
<1>7. CASE Asked
  BY <1>0, <1>7, RestingTypes, SizesAssumption DEF Asked
<1>8. CASE PostAdd
  BY <1>0, <1>8, RestingTypes, ConstantFacts, SizesAssumption DEF PostAdd
<1>9. CASE LeaveEntry
  <2>1. joined' \in [Entries -> Entry]
    BY <1>0, <1>9, RestingTypes, ConstantFacts DEF LeaveEntry
  <2>2. FoundAt(Loaded) \in 0..DevNum
    BY <1>0, LoadedFacts, FoundFacts
  <2>3. /\ Loaded \in Record
        /\ FoundAt(Loaded) # 0 /\ Loaded # <<>> =>
             Without(Loaded, FoundAt(Loaded)) \in Record
    BY <2>2, LoadedFacts, WithoutFacts, SizesAssumption
  <2>4. cb' \in CbType
    BY <1>0, <1>9, <2>2 DEF LeaveEntry
  <2>5. saved' \in Record /\ flash' \in Record \cup {NoFile}
    BY <1>0, <1>9, <2>3 DEF LeaveEntry, Stored
  <2>6. halted' \in {"no", "null", "overrun"}
    BY <1>0, <1>9 DEF LeaveEntry
  <2>7. UNCHANGED <<idx, table, sZcb, addr, mail, bridgeVars, mon, cli, countVars>>
    BY <1>9 DEF LeaveEntry
  <2>. QED  BY <1>0, <2>1, <2>4, <2>5, <2>6, <2>7
<1>10. CASE LeaveEnd
  <2>1. table' \in TableType
    BY <1>0, <1>10 DEF LeaveEnd
  <2>2. cb' \in CbType
    BY <1>10, RestingTypes DEF LeaveEnd
  <2>. QED  BY <1>0, <1>10, RestingTypes, <2>1, <2>2 DEF LeaveEnd
<1>11. CASE TakeWrite
  BY <1>0, <1>11, RestingTypes, ConstantFacts, SizesAssumption DEF TakeWrite
<1>12. CASE TakeRestore
  <2>1. gIndex' \in 0..MaxDevices
    <3>1. gIndex' = gIndex \/ (gIndex \in Devices /\ gIndex' = gIndex + 1)
      BY <1>12 DEF TakeRestore, NextIndex
    <3>2. gIndex \in 0..MaxDevices
      BY <1>0
    <3>. QED  BY <3>1, <3>2, SizesAssumption DEF Devices
  <2>2. /\ gDevices' \in [Devices -> Dev \cup {None}]
        /\ endpoints' \in [Devices -> EndpointIds \cup {None}]
        /\ halted' \in {"no", "null", "overrun"}
    BY <1>0, <1>12 DEF TakeRestore
  <2>3. /\ mail' \in MailType
        /\ mon' \in MonType
        /\ curEp' = curEp /\ firstEp' = firstEp
    BY <1>0, <1>12, RestingTypes, ConstantFacts, SizesAssumption DEF TakeRestore
  <2>. QED  BY <1>0, <1>12, RestingTypes, <2>1, <2>2, <2>3 DEF TakeRestore
<1>13. CASE TakeAdd
  <2>1. flash # NoFile => NextSaved(flash) \in EndpointIds
    BY LoadedFacts, NextSavedFacts DEF TypeInv, EndpointsUsable
  <2>2. {k \in Devices : gDevices[k] = None} # {} =>
          Min({k \in Devices : gDevices[k] = None}) \in Devices
    BY ConstantFacts, MinOfNats
  <2>3. curEp' \in EndpointIds
    BY <1>0, <1>13, <2>1 DEF TakeAdd
  <2>4. gDevices' \in [Devices -> Dev \cup {None}]
    BY <1>0, <1>13 DEF TakeAdd
  <2>5. mail' \in MailType /\ mon' \in MonType
    <3> HIDE DEF MailType, MonType
    <3>1. mail \in MailType /\ mail.dev \in Dev
      BY <1>0 DEF MailType
    <3>. QED  BY <1>13, <3>1, <2>2, RestingTypes, MonAtPlace DEF TakeAdd
  <2>. QED  BY <1>0, <1>13, <2>3, <2>4, <2>5 DEF TakeAdd
<1>14. CASE Place
  <2>1. IsEndpointId(curEp) => Bump(curEp) \in EndpointIds
    BY <1>0, SizesAssumption DEF IsEndpointId, Bump, EndpointIds
  <2>. QED  BY <1>0, <1>14, RestingTypes, <2>1, ConstantFacts, SizesAssumption DEF Place
<1>15. CASE Check
  BY <1>0, <1>15, RestingTypes, ConstantFacts, SizesAssumption DEF Check
<1>16. CASE Assign
  <2>1. [joined[idx] EXCEPT !.ep = curEp] \in Entry
    <3>1. joined[idx] \in Entry /\ curEp \in EndpointIds
      BY <1>0
    <3>2. \A r \in Entry, e \in EndpointIds : [r EXCEPT !.ep = e] \in Entry
      BY DEF Entry
    <3> HIDE DEF TypeOK
    <3>. QED  BY <3>1, <3>2
  <2>2. joined' \in [Entries -> Entry]
    BY <1>0, <1>16, <2>1 DEF Assign
  <2>. QED  BY <1>0, <1>16, <2>2 DEF Assign
<1>17. CASE Copy
  <2>1. mon' \in MonType
    <3>1. mon \in MonType /\ joined[idx] \in Entry
      BY <1>0
    <3>2. mon' = [mon EXCEPT !.at = "read", !.new = joined[idx]]
      BY <1>17 DEF Copy
    <3>. QED  BY <3>1, <3>2
  <2>. QED  BY <1>0, <1>17, <2>1 DEF Copy
<1>18. CASE Read
  <2>1. flash # NoFile => Position(flash, mon.new.mac) \in 0..DevNum
    BY LoadedFacts, SearchFacts
  <2>2. saved' \in Record
    BY <1>18, LoadedFacts DEF Read
  <2>3. mon' \in MonType
    <3>1. CASE flash = NoFile
      <4>1. mon' = [mon EXCEPT !.at = "write", !.j = 0] /\ 0 \in 0..DevNum
        BY <1>18, <3>1, SizesAssumption DEF Read
      <4>. QED  BY <1>0, <4>1
    <3>2. CASE flash # NoFile
      BY <1>0, <1>18, <3>2, <2>1 DEF Read
    <3>. QED  BY <3>1, <3>2
  <2>. QED  BY <1>0, <1>18, <2>2, <2>3 DEF Read
<1>19. CASE Write
  <2>1. saved' \in Record
    <3> DEFINE updated == [i \in DOMAIN saved |->
                             IF i = mon.j THEN Updated(saved[i], mon.new)
                                          ELSE saved[i]]
    <3>0. /\ DOMAIN saved = 1..Len(saved) /\ Len(saved) \in 0..DevNum
          /\ \A i \in 1..Len(saved) : saved[i] \in Entry
          /\ mon.new \in Entry
      BY <1>0, RecordFacts
    <3>a. \A r, e \in Entry : Updated(r, e) \in Entry
      BY DEF Updated, Entry
    <3>1. updated \in [1..Len(saved) -> Entry] /\ Len(saved) \in 0..DevNum
      BY <3>0, <3>a
    <3> HIDE DEF updated
    <3>2. updated \in Seq(Entry)
      BY <3>1, SeqDef, SizesAssumption
    <3>3. Len(updated) = Len(saved)
      BY <3>1, <3>2, LenProperties, SizesAssumption
    <3>4. updated \in Record
      BY <3>1, <3>2, <3>3, SizesAssumption DEF Record
    <3>5. Len(saved) < DevNum => Append(saved, mon.new) \in Record
      BY <1>0, RecordFacts, AppendProperties, SizesAssumption DEF Record
    <3>. QED  BY <1>0, <1>19, <3>4, <3>5 DEF Write, updated
  <2>2. mon' \in MonType
    BY <1>0, <1>19 DEF Write
  <2>3. halted' \in {"no", "null", "overrun"}
    BY <1>0, <1>19 DEF Write
  <2>. QED  BY <1>0, <1>19, <2>1, <2>2, <2>3 DEF Write
<1>20. CASE Save
  <2>1. flash' \in Record \cup {NoFile}
    BY <1>0, <1>20 DEF Save, Stored
  <2>2. mail' \in MailType /\ mon' \in MonType
    BY <1>20, RestingTypes DEF Save
  <2>. QED  BY <1>0, <1>20, <2>1, <2>2 DEF Save
<1>21. CASE EnumNodes
  <2>1. flash # NoFile => \A i \in Entries :
          i < Len(flash) => flash[i + 1] \in Entry
    BY LoadedFacts, RecordFacts, SizesAssumption DEF Entries
  <2>. QED  BY <1>0, <1>21, <2>1 DEF EnumNodes
<1>22. CASE SaveNodes
  <2> DEFINE all == Loaded \o FlattenSeq([i \in 1..DevNum |->
                                 [k \in 1..TimesNew(i - 1) |-> joined[i - 1]]])
  <2>1. all \in Seq(Entry)
    BY SaveNodesType, SeqMonotonic
  <2> HIDE DEF all
  <2>2. ~ (Len(all) > DevNum) => all \in Record
    BY <2>1, LenProperties, SizesAssumption DEF Record
  <2>3. UNCHANGED storeVars \/ (saved' = all /\ flash' = Stored(all) /\ all \in Record)
    BY <1>22, <2>2 DEF SaveNodes, all
  <2>4. halted' \in {"no", "null", "overrun"}
    BY <1>0, <1>22 DEF SaveNodes
  <2>5. UNCHANGED <<nodeVars, mail, bridgeVars, cb, mon, cli, countVars>>
    BY <1>22 DEF SaveNodes
  <2>. QED  BY <1>0, <2>3, <2>4, <2>5 DEF Stored
<1>23. CASE RetrieveNodes
  BY <1>0, <1>23, SizesAssumption DEF RetrieveNodes
<1>24. CASE RetrieveEntry
  <2>1. saved[cli.i] \in Entry
    BY <1>0, <1>24, RecordFacts, SizesAssumption DEF RetrieveEntry
  <2>2. joined' \in [Entries -> Entry]
    BY <1>0, <1>24, <2>1 DEF RetrieveEntry
  <2>3. cli' \in [at : {"idle", "entry", "post", "delay"}, i : 1..DevNum+1]
    <3>1. cli \in [at : {"idle", "entry", "post", "delay"}, i : 1..DevNum+1]
      BY <1>0
    <3>2. cli.i + 1 \in 1..DevNum+1
      <4>1. cli.i \in 1..DevNum+1 /\ Len(saved) \in 0..DevNum /\ cli.i <= Len(saved)
        BY <1>0, <1>24, RecordFacts DEF RetrieveEntry
      <4>. QED  BY <4>1, SizesAssumption
    <3>. QED  BY <1>24, <3>1, <3>2 DEF RetrieveEntry
  <2>4. UNCHANGED <<idx, table, sZcb, addr, mail, bridgeVars, storeVars, cb, mon,
                   countVars, halted>>
    BY <1>24 DEF RetrieveEntry
  <2>. QED  BY <1>0, <2>2, <2>3, <2>4
<1>25. CASE RetrievePost
  <2>1. cli.i - 1 \in Entries
    <3>1. cli.at = "post" /\ RetrieveOK /\ cli.i \in 1..DevNum+1
      BY <1>0, <1>25 DEF RetrievePost, TypeInv
    <3>. QED  BY <3>1, SizesAssumption DEF RetrieveOK, Entries
  <2>2. mail' \in MailType
    <3>1. joined[cli.i - 1] \in Entry
      BY <1>0, <2>1
    <3>. QED  BY <1>25, <3>1, ConstantFacts DEF RetrievePost, Entry, Dev
  <2>3. cli' \in [at : {"idle", "entry", "post", "delay"}, i : 1..DevNum+1]
    <3>1. cli \in [at : {"idle", "entry", "post", "delay"}, i : 1..DevNum+1]
      BY <1>0
    <3>. QED  BY <1>25, <3>1 DEF RetrievePost
  <2>. QED
    BY <1>0, <1>25, <2>2, <2>3 DEF RetrievePost
<1>26. CASE RetrieveNext
  BY <1>0, <1>26, SizesAssumption DEF RetrieveNext, TypeInv, RetrieveOK
<1>27. CASE RetrieveEnd
  BY <1>0, <1>27, SizesAssumption DEF RetrieveEnd
<1>28. CASE Restart
  BY <1>0, <1>28, RestingTypes, ConstantFacts, EmptyRecord, SizesAssumption DEF Restart
<1>29. CASE UNCHANGED vars
  BY <1>0, <1>29 DEF vars
<1>. QED
  BY <1>1, <1>2, <1>3, <1>4, <1>5, <1>6, <1>7, <1>8, <1>9, <1>10, <1>11, <1>12,
     <1>13, <1>14, <1>15, <1>16, <1>17, <1>18, <1>19, <1>20, <1>21, <1>22, <1>23,
     <1>24, <1>25, <1>26, <1>27, <1>28, <1>29
     DEF Next, NodeEvent, Callback, Monitor, Shell, RetrieveStep
LEMMA UsableStep == TypeInv /\ [Next]_vars => EndpointsUsable'
<1> SUFFICES ASSUME TypeInv, [Next]_vars PROVE EndpointsUsable'
  OBVIOUS
<1>0. TypeOK /\ EndpointsUsable
  BY DEF TypeInv
<1> DEFINE Usable(s) == \A j \in DOMAIN s : s[j].ep # EndpointLimit
           ListUsable == \A i \in Entries : joined[i].ep # EndpointLimit
           MonUsable == /\ mon.new.ep # EndpointLimit
                        /\ mon.at \in {"check", "assign"} => curEp # EndpointLimit
<1>a. 0 # EndpointLimit /\ Empty.ep = 0 /\ Sleeping.new = Empty
      /\ Sleeping.at = "sleep" /\ Usable(<<>>)
  BY SizesAssumption DEF Empty, Sleeping
<1>b. /\ Usable(saved) /\ Usable(Loaded) /\ Usable(FlashRecord)
      /\ ListUsable /\ MonUsable
  BY <1>0, LoadedFacts DEF EndpointsUsable
<1>c. ASSUME Usable(saved'), Usable(FlashRecord'), ListUsable', MonUsable'
      PROVE  EndpointsUsable'
  BY <1>c DEF EndpointsUsable
<1>d. ASSUME UNCHANGED <<saved, flash>>
      PROVE  Usable(saved') /\ Usable(FlashRecord')
  BY <1>b, <1>d DEF FlashRecord
<1>e. ASSUME Usable(saved'), flash' = flash \/ flash' = saved' \/ flash' = Stored(saved')
      PROVE  Usable(FlashRecord')
  BY <1>b, <1>e DEF FlashRecord, Stored
<1> USE DEF nodeVars, bridgeVars, storeVars, countVars, Done, Goto
<1>1. ASSUME NEW n \in Nodes, NEW a \in AddressesOf[n], Announce(n, a)
      PROVE  EndpointsUsable'
  <2>1. ListUsable'
    BY <1>0, <1>a, <1>b, <1>1 DEF TypeOK, Announce, TypeOnJoin
  <2>. QED  BY <1>b, <1>c, <1>d, <1>1, <2>1 DEF Announce
<1>2. ASSUME NEW n \in Nodes, Descriptor(n) PROVE EndpointsUsable'
  <2>1. ListUsable'
    BY <1>0, <1>b, <1>2 DEF TypeOK, Entry, Descriptor
  <2>. QED  BY <1>b, <1>c, <1>d, <1>2, <2>1 DEF Descriptor
<1>3. ASSUME UNCHANGED <<joined, saved, flash, mon, curEp>> PROVE EndpointsUsable'
  BY <1>b, <1>c, <1>d, <1>3
<1>4. CASE LeaveEntry
  <2>1. ListUsable'
    BY <1>0, <1>a, <1>b, <1>4 DEF TypeOK, LeaveEntry
  <2>2. FoundAt(Loaded) \in Nat
    BY <1>0, LoadedFacts, FoundFacts, SizesAssumption DEF TypeOK
  <2>3. Loaded # <<>> => Usable(Without(Loaded, FoundAt(Loaded)))
    <3> SUFFICES ASSUME Loaded # <<>>
                 PROVE  Usable(Without(Loaded, FoundAt(Loaded)))
      OBVIOUS
    <3> DEFINE rest == Without(Loaded, FoundAt(Loaded))
    <3>1. Loaded \in Record /\ DOMAIN Loaded = 1..Len(Loaded)
      BY LoadedFacts, RecordFacts
    <3>2. /\ rest \in Record
          /\ Len(rest) = Len(Loaded) - 1
          /\ \A j \in 1..(Len(Loaded) - 1) :
               /\ Kept(FoundAt(Loaded), j) \in 1..Len(Loaded)
               /\ rest[j] = Loaded[Kept(FoundAt(Loaded), j)]
      BY <2>2, <3>1, WithoutFacts
    <3> HIDE DEF rest
    <3>3. DOMAIN rest = 1..(Len(Loaded) - 1)
      BY <3>2, RecordFacts
    <3>4. Usable(rest)
      BY <1>b, <3>1, <3>2, <3>3
    <3>. QED  BY <3>4 DEF rest
  <2>4. Usable(saved')
    BY <1>b, <1>4, <2>3 DEF LeaveEntry
  <2>5. Usable(FlashRecord')
    BY <1>4, <1>e, <2>4 DEF LeaveEntry
  <2>. QED  BY <1>b, <1>c, <1>4, <2>1, <2>4, <2>5 DEF LeaveEntry
<1>5. CASE TakeWrite \/ TakeRestore \/ TakeAdd
  <2>1. MonUsable'
    BY <1>a, <1>b, <1>5 DEF TakeWrite, TakeRestore, TakeAdd, Sleeping
  <2>. QED  BY <1>b, <1>c, <1>d, <1>5, <2>1 DEF TakeWrite, TakeRestore, TakeAdd
<1>6. CASE Place
  <2>1. MonUsable'
    BY <1>0, <1>a, <1>b, <1>6 DEF TypeOK, Place, Accepted, IsEndpointId
  <2>. QED  BY <1>b, <1>c, <1>d, <1>6, <2>1 DEF Place
<1>7. CASE Check
  <2>1. MonUsable'
    BY <1>0, <1>a, <1>b, <1>7 DEF TypeOK, Check
  <2>. QED  BY <1>b, <1>c, <1>d, <1>7, <2>1 DEF Check
<1>8. CASE Assign
  <2>1. ListUsable'
    BY <1>0, <1>b, <1>8 DEF TypeOK, Entry, Assign
  <2>2. MonUsable'
    BY <1>0, <1>b, <1>8 DEF TypeOK, Assign
  <2>. QED  BY <1>b, <1>c, <1>d, <1>8, <2>1, <2>2 DEF Assign
<1>9. CASE Copy
  <2>1. MonUsable'
    BY <1>0, <1>b, <1>9 DEF TypeOK, Copy
  <2>. QED  BY <1>b, <1>c, <1>d, <1>9, <2>1 DEF Copy
<1>10. CASE Read
  <2>1. MonUsable'
    BY <1>0, <1>b, <1>10 DEF TypeOK, Read
  <2>. QED  BY <1>b, <1>c, <1>e, <1>10, <2>1 DEF Read
<1>11. CASE Write
  <2>1. MonUsable'
    BY <1>0, <1>b, <1>11 DEF TypeOK, Write
  <2>2. Usable(saved')
    <3>1. saved \in Record /\ mon.new \in Entry
      BY <1>0 DEF TypeOK
    <3>2. CASE mon.j # 0
      <4>1. /\ DOMAIN saved' = DOMAIN saved
            /\ \A i \in DOMAIN saved :
                 saved'[i] = IF i = mon.j THEN Updated(saved[i], mon.new) ELSE saved[i]
        BY <1>11, <3>2 DEF Write
      <4>2. \A i \in DOMAIN saved : Updated(saved[i], mon.new).ep = mon.new.ep
        BY <3>1, RecordFacts DEF Updated, Entry
      <4>. QED  BY <1>b, <4>1, <4>2
    <3>3. CASE mon.j = 0
      <4>1. Usable(Append(saved, mon.new))
        BY <1>b, <3>1, RecordFacts, AppendProperties
      <4>. QED  BY <1>b, <1>11, <3>3, <4>1 DEF Write
    <3>. QED  BY <3>2, <3>3
  <2>3. Usable(FlashRecord')
    BY <1>e, <1>11, <2>2 DEF Write
  <2>. QED  BY <1>b, <1>c, <1>11, <2>1, <2>2, <2>3 DEF Write
<1>12. CASE Save
  <2>1. MonUsable'
    BY <1>a, <1>12 DEF Save
  <2>2. Usable(saved') /\ Usable(FlashRecord')
    BY <1>b, <1>e, <1>12 DEF Save
  <2>. QED  BY <1>b, <1>c, <1>12, <2>1, <2>2 DEF Save
<1>13. CASE EnumNodes
  <2>1. Usable(saved')
    BY <1>b, <1>13 DEF EnumNodes, FlashRecord
  <2>2. ListUsable'
    <3>1. flash \in Record /\ Usable(flash)
      BY <1>b, <1>13, LoadedFacts DEF EnumNodes
    <3>2. \A i \in Entries : i < Len(flash) => flash[i + 1].ep # EndpointLimit
      BY <3>1, RecordFacts, SizesAssumption DEF Entries
    <3>. QED  BY <1>b, <1>13, <3>2 DEF EnumNodes
  <2>3. Usable(FlashRecord')
    BY <1>13, <1>e, <2>1 DEF EnumNodes
  <2>. QED  BY <1>b, <1>c, <1>13, <2>1, <2>2, <2>3 DEF EnumNodes
<1>14. CASE SaveNodes
  <2> DEFINE all == Loaded \o FlattenSeq([i \in 1..DevNum |->
                                 [k \in 1..TimesNew(i - 1) |-> joined[i - 1]]])
  <2>1. all \in Seq({e \in Entry : e.ep # EndpointLimit})
    BY SaveNodesType
  <2> HIDE DEF all
  <2>2. Usable(all)
    BY <2>1, LenProperties, ElementOfSeq
  <2>3. UNCHANGED storeVars \/ (saved' = all /\ flash' = Stored(all))
    BY <1>14 DEF SaveNodes, all
  <2>4. Usable(saved') /\ Usable(FlashRecord')
    BY <1>b, <1>e, <2>2, <2>3
  <2>5. UNCHANGED <<joined, mon, curEp>>
    BY <1>14 DEF SaveNodes
  <2>. QED  BY <1>b, <1>c, <2>4, <2>5
<1>15. CASE RetrieveNodes
  <2>1. Usable(saved') /\ Usable(FlashRecord')
    BY <1>b, <1>e, <1>15 DEF RetrieveNodes, FlashRecord
  <2>. QED  BY <1>b, <1>c, <1>15, <2>1 DEF RetrieveNodes
<1>16. CASE RetrieveEntry
  <2>1. saved[cli.i].ep # EndpointLimit
    <3>1. saved \in Record /\ cli.i \in 1..DevNum+1 /\ cli.i <= Len(saved)
      BY <1>0, <1>16 DEF TypeOK, RetrieveEntry
    <3>2. cli.i \in DOMAIN saved
      BY <3>1, RecordFacts, SizesAssumption
    <3>. QED  BY <1>b, <3>2
  <2>2. ListUsable'
    BY <1>0, <1>b, <1>16, <2>1 DEF TypeOK, RetrieveEntry
  <2>. QED  BY <1>b, <1>c, <1>d, <1>16, <2>2 DEF RetrieveEntry
<1>17. CASE Restart
  <2>1. Usable(saved') /\ Usable(FlashRecord')
    BY <1>a, <1>e, <1>17 DEF Restart
  <2>. QED  BY <1>a, <1>c, <1>17, <2>1 DEF Restart
<1>. QED
  BY <1>1, <1>2, <1>3, <1>4, <1>5, <1>6, <1>7, <1>8, <1>9, <1>10, <1>11, <1>12,
     <1>13, <1>14, <1>15, <1>16, <1>17
     DEF Next, NodeEvent, Callback, Monitor, Shell, RetrieveStep, vars,
         LoseDescriptor, Activate, Report, Leave, Asked, PostAdd, LeaveEnd,
         RetrievePost, RetrieveNext, RetrieveEnd

LEMMA RetrieveStepOK == TypeInv /\ [Next]_vars => RetrieveOK'
<1> SUFFICES ASSUME TypeInv, [Next]_vars PROVE RetrieveOK'
  OBVIOUS
<1> USE DEF TypeInv, TypeOK, RetrieveOK
<1>1. CASE UNCHANGED cli
  BY <1>1
<1>2. CASE RetrieveNodes \/ RetrieveNext \/ RetrieveEnd \/ Restart
  BY <1>2 DEF RetrieveNodes, RetrieveNext, RetrieveEnd, Restart, Prompt
<1>3. CASE RetrieveEntry
  <2>1. Len(saved) \in 0..DevNum /\ cli.i \in Nat /\ cli.i <= Len(saved)
        /\ cli.at = "entry"
    BY <1>3, RecordFacts, SizesAssumption DEF RetrieveEntry
  <2>2. cli' = [cli EXCEPT !.at = "post"] \/ cli' = [cli EXCEPT !.i = @ + 1]
    BY <1>3 DEF RetrieveEntry
  <2>3. cli'.at \in {"post", "delay"} => cli'.i = cli.i
    BY <2>1, <2>2
  <2>. QED  BY <2>1, <2>3, SizesAssumption
<1>4. CASE RetrievePost
  BY <1>4 DEF RetrievePost
<1>5. ASSUME NEW n \in Nodes, NodeEvent(n) PROVE UNCHANGED cli
  BY <1>5 DEF NodeEvent, Announce, Descriptor, LoseDescriptor, Activate, Report,
              Leave
<1>. QED
  BY <1>1, <1>2, <1>3, <1>4, <1>5
     DEF Next, Callback, Monitor, Shell, RetrieveStep, vars, Asked, PostAdd,
         LeaveEntry, LeaveEnd, TakeWrite, TakeRestore, TakeAdd, Place, Check,
         Assign, Copy, Read, Write, Save, EnumNodes, SaveNodes

LEMMA TypeInvariance == Spec => []TypeInv
<1>1. TypeInv /\ [Next]_vars => TypeInv'
  BY TypeStep, UsableStep, RetrieveStepOK DEF TypeInv
<1>. QED  BY <1>1, InitType, PTL DEF Spec

\* Every variable has the type of the code's variable, whatever tasks interleave
\* and whichever shell commands are given: no handler and no step of ZcbMonitor
\* or of the shell reads or writes beyond JoinedNodes, savedNodes or gDevices
\* without the model's stop at the overrun, and no endpoint id leaves its range.
THEOREM TypeCorrect == Spec => []TypeOK
<1>1. TypeInv => TypeOK
  BY DEF TypeInv
<1>. QED  BY <1>1, TypeInvariance, PTL

-----------------------------------------------------------------------------
(* Facts about steps that the proofs about the record and the endpoints    *)
(* share.                                                                  *)

\* What a step of a handler does to the record while it is read in ZcbMonitor:
\* nothing, or it removes an entry.
LEMMA LeaveEntryShrinks ==
  ASSUME TypeInv, LeaveEntry, ~ UNCHANGED <<saved, flash>>
  PROVE  /\ flash # NoFile /\ FlashRecord = flash
         /\ flash' # NoFile /\ FlashRecord' = flash'
         /\ \E g \in Nat :
              \/ saved' = flash /\ flash' = flash
              \/ /\ flash # <<>> /\ saved' = Without(flash, g)
                 /\ flash' = Stored(Without(flash, g))
<1> USE DEF TypeInv
<1>1. flash # NoFile /\ Loaded = flash /\ FlashRecord = flash /\ flash \in Record
  BY LoadedFacts DEF LeaveEntry, storeVars
<1> DEFINE g == FoundAt(Loaded)
<1>2. g \in Nat
  BY LoadedFacts, FoundFacts, SizesAssumption DEF TypeOK
<1> HIDE DEF g
<1>3. \/ saved' = flash /\ flash' = flash
      \/ /\ flash # <<>> /\ saved' = Without(flash, g)
         /\ flash' = Stored(Without(flash, g))
  BY <1>1 DEF LeaveEntry, storeVars, g
<1>4. flash # <<>> => Without(flash, g) \in Record
  BY <1>1, <1>2, WithoutFacts
<1>5. NoFile \notin Record
  BY MarksAssumption DEF Record, Entry
<1>6. flash' # NoFile /\ FlashRecord' = flash'
  BY <1>1, <1>3, <1>4, <1>5 DEF Stored, FlashRecord
<1>. QED  BY <1>1, <1>2, <1>3, <1>6

\* ZcbMonitor either drops a device or takes the first free place for it.
LEMMA TakeAddFacts ==
  ASSUME TypeOK, TakeAdd
  PROVE  \/ mon'.at = "sleep" /\ mail' = NoMail /\ gDevices' = gDevices
         \/ /\ mon'.at = "place" /\ mon'.k \in Devices /\ mail' = mail
            /\ gDevices[mon'.k] = None
            /\ gDevices' = [gDevices EXCEPT ![mon'.k] = mail.dev]
            /\ flash # NoFile => curEp' = NextSaved(flash)
<1> DEFINE places == {k \in Devices : gDevices[k] = None}
<1>1. CASE Done /\ UNCHANGED gDevices
  BY <1>1 DEF Done, Sleeping
<1>2. CASE ~ (Done /\ UNCHANGED gDevices)
  <2>1. /\ mail.dev.kind # "other" /\ places # {}
        /\ gDevices' = [gDevices EXCEPT ![Min(places)] = mail.dev]
        /\ mon' = [Sleeping EXCEPT !.at = "place", !.dev = mail.dev,
                                   !.k = Min(places)]
        /\ mail' = mail
        /\ flash # NoFile => curEp' = NextSaved(flash)
    BY <1>2 DEF TakeAdd
  <2>2. Min(places) \in places
    BY <2>1, ConstantFacts, MinOfNats
  <2>3. mon'.at = "place" /\ mon'.k = Min(places)
    BY <2>1, RestingTypes DEF MonType
  <2>. QED  BY <2>1, <2>2, <2>3
<1>. QED  BY <1>1, <1>2

\* No restore is under way.
NoRestore == cli.at = "idle" /\ mail.msg # "restore"

\* The steps that are left then.
LEMMA NoRestoreStep ==
  ASSUME "RetrieveNodes" \notin ShellCommands, NoRestore, [Next]_vars
  PROVE  /\ NoRestore'
         /\ \/ \E n \in Nodes : NodeEvent(n)
            \/ Callback
            \/ TakeWrite \/ TakeAdd \/ Place \/ Check \/ Assign \/ Copy \/ Read
            \/ Write \/ Save
            \/ EnumNodes \/ SaveNodes \/ Restart \/ UNCHANGED vars
<1>1. ~ RetrieveNodes
  BY DEF RetrieveNodes, ShellMayBegin
<1>2. ~ RetrieveStep /\ ~ TakeRestore
  BY DEF RetrieveStep, RetrieveEntry, RetrievePost, RetrieveNext, RetrieveEnd,
         TakeRestore, NoRestore
<1>3. \/ \E n \in Nodes : NodeEvent(n)
      \/ Callback
      \/ TakeWrite \/ TakeAdd \/ Place \/ Check \/ Assign \/ Copy \/ Read
      \/ Write \/ Save
      \/ EnumNodes \/ SaveNodes \/ Restart \/ UNCHANGED vars
  BY <1>1, <1>2 DEF Next, Monitor, Shell
<1>4. ASSUME NEW n \in Nodes, NodeEvent(n) PROVE NoRestore'
  BY <1>4 DEF NodeEvent, Announce, Descriptor, LoseDescriptor, Activate, Report,
              Leave, NoRestore
<1>5. CASE Callback
  BY <1>5 DEF Callback, Asked, PostAdd, LeaveEntry, LeaveEnd, NoRestore
<1>6. CASE TakeWrite \/ TakeAdd \/ Place \/ Check \/ Assign \/ Copy \/ Read
           \/ Write \/ Save
  BY <1>6 DEF TakeWrite, TakeAdd, Place, Check, Assign, Copy, Read, Write, Save,
              Done, NoMail, NoRestore
<1>7. CASE EnumNodes \/ SaveNodes \/ Restart \/ UNCHANGED vars
  BY <1>7 DEF EnumNodes, SaveNodes, Restart, vars, NoMail, Prompt, NoRestore
<1>. QED  BY <1>3, <1>4, <1>5, <1>6, <1>7

-----------------------------------------------------------------------------
(* The endpoint ids in the list of joined nodes and in the Matter stack.   *)

\* A place without a device has no endpoint; the place ZcbMonitor works on has
\* a device, and no endpoint yet.
FreePlaces ==
  /\ \A k \in Devices : gDevices[k] = None => endpoints[k] = None
  /\ mon.at = "place" => gDevices[mon.k] # None /\ endpoints[mon.k] = None

\* Every endpoint of the list is in the stack.
ListIsLive == \A i \in Entries : joined[i].ep # 0 => Exists(joined[i].ep)

\* Between Place and Assign the new endpoint is in the stack, not in the list.
CurrentIsNew ==
  mon.at \in {"check", "assign"} =>
    Exists(curEp) /\ \A i \in Entries : joined[i].ep # 0 => joined[i].ep # curEp

LiveInv ==
  /\ TypeInv
  /\ NoRestore
  /\ FreePlaces
  /\ ListIsLive
  /\ CurrentIsNew
  /\ JoinedEndpointsDistinct

\* A change of the list that only removes endpoints.
LEMMA ListShrinks ==
  ASSUME LiveInv,
         \A i \in Entries : joined'[i].ep \in {0, joined[i].ep},
         UNCHANGED <<endpoints, gDevices, curEp, mon>>
  PROVE  FreePlaces' /\ ListIsLive' /\ CurrentIsNew' /\ JoinedEndpointsDistinct'
<1>1. FreePlaces'
  BY DEF LiveInv, FreePlaces
<1>2. ListIsLive'
  BY DEF LiveInv, ListIsLive, Exists
<1>3. CurrentIsNew'
  BY DEF LiveInv, CurrentIsNew, Exists
<1>4. JoinedEndpointsDistinct'
  BY DEF LiveInv, JoinedEndpointsDistinct
<1>. QED  BY <1>1, <1>2, <1>3, <1>4

LEMMA LiveStep ==
  ASSUME ShellCommands \subseteq {"SaveNodes"}, LiveInv, [Next]_vars
  PROVE  FreePlaces' /\ ListIsLive' /\ CurrentIsNew' /\ JoinedEndpointsDistinct'
<1> USE DEF LiveInv
<1>a. /\ TypeOK /\ idx \in Entries /\ joined \in [Entries -> Entry]
      /\ mon \in MonType /\ mail.dev \in Dev
      /\ gDevices \in [Devices -> Dev \cup {None}]
      /\ endpoints \in [Devices -> EndpointIds \cup {None}]
      /\ curEp \in EndpointIds
  BY DEF TypeInv, TypeOK, MonType
<1>b. None \notin Dev /\ None \notin EndpointIds
  BY MarksAssumption, ConstantFacts DEF Dev, EndpointIds
\* The steps that at most remove endpoints from the list.
<1>1. CASE UNCHANGED <<joined, endpoints, gDevices, curEp, mon>>
  BY <1>1, ListShrinks
<1>2. ASSUME NEW n \in Nodes, NEW a \in AddressesOf[n], Announce(n, a)
      PROVE  FreePlaces' /\ ListIsLive' /\ CurrentIsNew' /\ JoinedEndpointsDistinct'
  <2>1. UNCHANGED <<endpoints, gDevices, curEp, mon>>
    BY <1>2 DEF Announce, bridgeVars
  <2>2. \A i \in Entries : joined'[i].ep \in {0, joined[i].ep}
    BY <1>a, <1>2 DEF Announce
  <2>. QED  BY <2>1, <2>2, ListShrinks
<1>3. ASSUME NEW n \in Nodes, Descriptor(n)
      PROVE  FreePlaces' /\ ListIsLive' /\ CurrentIsNew' /\ JoinedEndpointsDistinct'
  <2>1. UNCHANGED <<endpoints, gDevices, curEp, mon>>
    BY <1>3 DEF Descriptor, bridgeVars
  <2>2. \A i \in Entries : joined'[i].ep = joined[i].ep
    BY <1>a, <1>3 DEF Descriptor, Entry
  <2>. QED  BY <2>1, <2>2, ListShrinks
<1>4. CASE LeaveEntry
  <2>1. UNCHANGED <<endpoints, gDevices, curEp, mon>>
    BY <1>4 DEF LeaveEntry, bridgeVars
  <2>2. \A i \in Entries : joined'[i].ep \in {0, joined[i].ep}
    BY <1>a, <1>4 DEF LeaveEntry, Empty
  <2>. QED  BY <2>1, <2>2, ListShrinks
<1>5. CASE TakeAdd
  <2>1. UNCHANGED <<joined, endpoints>>
    BY <1>5 DEF TakeAdd, nodeVars
  <2>2. mon.at = "sleep" /\ mon'.at \in {"sleep", "place"}
    BY <1>a, <1>5, TakeAddFacts DEF TakeAdd
  <2>3. FreePlaces'
    <3>1. CASE mon'.at = "sleep" /\ gDevices' = gDevices
      BY <2>1, <3>1 DEF FreePlaces
    <3>2. CASE /\ mon'.k \in Devices /\ gDevices[mon'.k] = None
               /\ gDevices' = [gDevices EXCEPT ![mon'.k] = mail.dev]
      <4>1. mail.dev # None
        BY <1>a, <1>b
      <4>2. gDevices'[mon'.k] = mail.dev
        BY <1>a, <3>2
      <4>3. \A k \in Devices : gDevices'[k] = None => gDevices[k] = None
        BY <1>a, <3>2, <4>1
      <4>. QED  BY <2>1, <3>2, <4>1, <4>2, <4>3 DEF FreePlaces
    <3>. QED  BY <1>a, <1>5, <3>1, <3>2, TakeAddFacts
  <2>. QED
    BY <2>1, <2>2, <2>3
       DEF ListIsLive, CurrentIsNew, JoinedEndpointsDistinct, Exists
<1>6. CASE Place
  <2>1. UNCHANGED <<joined, gDevices>> /\ mon.at = "place" /\ mon.k \in Devices
    BY <1>a, <1>6 DEF Place, nodeVars, MonType
  <2>2. CASE Accepted(curEp)
    <3>1. /\ endpoints' = [endpoints EXCEPT ![mon.k] = curEp]
          /\ mon'.at = "check" /\ curEp' = curEp
      BY <1>a, <1>6, <2>2 DEF Place, Goto, MonType
    <3>2. ~ Exists(curEp)
      BY <2>2 DEF Accepted
    <3>3. endpoints'[mon.k] = curEp
      BY <1>a, <2>1, <3>1
    <3>4. \A k \in Devices : endpoints[k] # None => endpoints'[k] = endpoints[k]
      BY <1>a, <2>1, <3>1 DEF FreePlaces
    <3>5. FreePlaces'
      BY <1>a, <2>1, <3>1 DEF FreePlaces
    <3>6. \A i \in Entries : joined[i].ep # 0 => joined[i].ep # curEp
      BY <3>2 DEF ListIsLive
    <3>7. ListIsLive'
      <4>1. \A i \in Entries : joined[i].ep # None
        BY <1>a, <1>b DEF Entry
      <4>. QED  BY <2>1, <3>4, <4>1 DEF ListIsLive, Exists
    <3>8. CurrentIsNew'
      BY <2>1, <3>1, <3>3, <3>6 DEF CurrentIsNew, Exists
    <3>. QED  BY <2>1, <3>5, <3>7, <3>8 DEF JoinedEndpointsDistinct
  <2>3. CASE ~ Accepted(curEp)
    <3>1. endpoints' = endpoints /\ (mon' = mon \/ mon' = Sleeping)
      BY <1>6, <2>3 DEF Place, Done
    <3>2. mon'.at \in {"place", "sleep"} /\ (mon'.at = "place" => mon'.k = mon.k)
      BY <2>1, <3>1 DEF Sleeping
    <3>. QED
      BY <2>1, <3>1, <3>2
         DEF FreePlaces, ListIsLive, CurrentIsNew, JoinedEndpointsDistinct, Exists
  <2>. QED  BY <2>2, <2>3
<1>7. CASE Assign
  <2>1. /\ UNCHANGED <<gDevices, endpoints, curEp>>
        /\ mon.at = "assign" /\ mon'.at = "copy"
    BY <1>a, <1>7 DEF Assign, bridgeVars, Goto, MonType
  <2>2. /\ joined'[idx].ep = curEp
        /\ \A i \in Entries \ {idx} : joined'[i] = joined[i]
    BY <1>a, <1>7 DEF Assign, Entry
  <2>. QED
    BY <1>a, <2>1, <2>2
       DEF FreePlaces, ListIsLive, CurrentIsNew, JoinedEndpointsDistinct, Exists
<1>8. CASE TakeWrite \/ Check \/ Copy \/ Read \/ Write \/ Save
  <2>1. UNCHANGED <<joined, gDevices, endpoints, curEp>>
    BY <1>8 DEF TakeWrite, Check, Copy, Read, Write, Save, nodeVars, bridgeVars
  <2>2. mon'.at # "place" /\ (mon'.at \in {"check", "assign"} => mon.at = "check")
    <3>1. mon' = Sleeping => mon'.at = "sleep"
      BY DEF Sleeping
    <3>2. \A p \in {"assign", "save"} : Goto(p) => mon'.at = p
      BY <1>a DEF Goto, MonType
    <3>3. CASE TakeWrite \/ Check \/ Save
      BY <1>8, <3>1, <3>2, <3>3 DEF TakeWrite, Check, Save, Done
    <3>4. CASE Copy \/ Read
      BY <1>a, <3>4 DEF Copy, Read, MonType
    <3>5. CASE Write
      BY <3>2, <3>5 DEF Write
    <3>. QED  BY <1>8, <3>3, <3>4, <3>5
  <2>. QED
    BY <2>1, <2>2
       DEF FreePlaces, ListIsLive, CurrentIsNew, JoinedEndpointsDistinct, Exists
<1>9. CASE Restart
  <2>1. /\ joined' = [i \in Entries |-> Empty]
        /\ endpoints' = [k \in Devices |-> None]
        /\ mon'.at = "sleep"
    BY <1>9 DEF Restart, Sleeping
  <2>2. \A i \in Entries : joined'[i].ep = 0
    BY <2>1 DEF Empty
  <2>. QED
    BY <2>1, <2>2
       DEF FreePlaces, ListIsLive, CurrentIsNew, JoinedEndpointsDistinct
<1>. QED
  <2>1. ASSUME NEW n \in Nodes,
               LoseDescriptor(n) \/ Activate(n) \/ Report(n) \/ Leave(n)
        PROVE  UNCHANGED <<joined, endpoints, gDevices, curEp, mon>>
    BY <2>1 DEF LoseDescriptor, Activate, Report, Leave, nodeVars, bridgeVars
  <2>2. Asked \/ PostAdd \/ LeaveEnd \/ SaveNodes \/ EnumNodes =>
          UNCHANGED <<joined, endpoints, gDevices, curEp, mon>>
    BY DEF Asked, PostAdd, LeaveEnd, SaveNodes, EnumNodes, ShellMayBegin, nodeVars,
           bridgeVars
  <2>3. UNCHANGED vars => UNCHANGED <<joined, endpoints, gDevices, curEp, mon>>
    BY DEF vars, nodeVars, bridgeVars
  <2>. QED
    BY <1>1, <1>2, <1>3, <1>4, <1>5, <1>6, <1>7, <1>8, <1>9, <2>1, <2>2, <2>3,
       NoRestoreStep DEF NodeEvent, Callback

LEMMA LiveInvariance ==
  ASSUME ShellCommands \subseteq {"SaveNodes"}
  PROVE  Spec => []LiveInv
<1>1. Init => LiveInv
  <2> SUFFICES ASSUME Init PROVE LiveInv
    OBVIOUS
  <2>1. \A i \in Entries : joined[i].ep = 0
    BY DEF Init, Empty
  <2>2. ListIsLive /\ JoinedEndpointsDistinct
    BY <2>1 DEF ListIsLive, JoinedEndpointsDistinct
  <2>3. NoRestore /\ FreePlaces /\ CurrentIsNew
    BY DEF Init, NoRestore, FreePlaces, CurrentIsNew, Sleeping, Prompt, NoMail
  <2>. QED  BY <2>2, <2>3, InitType DEF LiveInv
<1>2. LiveInv /\ [Next]_vars => LiveInv'
  BY LiveStep, NoRestoreStep, TypeStep, UsableStep, RetrieveStepOK
     DEF LiveInv, TypeInv
<1>. QED  BY <1>1, <1>2, PTL DEF Spec

\* No two entries of the list get the same endpoint, although ZcbMonitor assigns
\* it to JoinedNodes[idx] while handlers move idx and change the entries.
THEOREM JoinedEndpointsDiffer ==
  ASSUME ShellCommands \subseteq {"SaveNodes"}
  PROVE  Spec => []JoinedEndpointsDistinct
<1>1. LiveInv => JoinedEndpointsDistinct
  BY DEF LiveInv
<1>. QED  BY <1>1, LiveInvariance, PTL

\* Every endpoint of the list is one the Matter stack has accepted: no leave, no
\* later announcement and no device that found no place takes it away.
THEOREM ListedEndpointsLive ==
  ASSUME ShellCommands \subseteq {"SaveNodes"}
  PROVE  Spec => []EndpointIsLive
<1>1. LiveInv => EndpointIsLive
  BY DEF LiveInv, ListIsLive, EndpointIsLive, Exists
<1>. QED  BY <1>1, LiveInvariance, PTL

-----------------------------------------------------------------------------
(* The node behind an endpoint.                                            *)

\* The place ZcbMonitor works on has the device of its message, and from Place
\* to Assign it alone has the new endpoint.
AtPlace ==
  /\ mon.at \in {"place", "check", "assign"} =>
       mon.k \in Devices /\ gDevices[mon.k] = mon.dev /\ mon.dev \in Dev
  /\ mon.at \in {"check", "assign"} =>
       \A k \in Devices : endpoints[k] = curEp => k = mon.k

\* The steps of a list whose endpoints stay with their nodes, or go.
NodesStay ==
  \A i \in Entries : joined'[i].ep # 0 =>
    joined'[i].ep = joined[i].ep /\ joined'[i].mac = joined[i].mac

LEMMA MixStep ==
  ASSUME ShellCommands \subseteq {"SaveNodes"}, LiveInv, AtPlace, [Next]_vars
  PROVE  /\ AtPlace'
         /\ MadeForNode /\ ~ MadeForNode' =>
              mon.at = "assign" /\ joined[idx].mac # mon.dev.node
<1> DEFINE Goal == /\ AtPlace'
                   /\ MadeForNode /\ ~ MadeForNode' =>
                        mon.at = "assign" /\ joined[idx].mac # mon.dev.node
<1> USE DEF LiveInv
<1>a. /\ TypeOK /\ idx \in Entries /\ joined \in [Entries -> Entry]
      /\ mon \in MonType /\ mail.dev \in Dev
      /\ gDevices \in [Devices -> Dev \cup {None}]
      /\ endpoints \in [Devices -> EndpointIds \cup {None}]
      /\ curEp \in EndpointIds
  BY DEF TypeInv, TypeOK, MonType
<1>b. None \notin Dev /\ None \notin EndpointIds
  BY MarksAssumption, ConstantFacts DEF Dev, EndpointIds
<1>c. \A i \in Entries : joined[i].ep # None
  BY <1>a, <1>b DEF Entry
<1>d. UNCHANGED <<endpoints, gDevices>> /\ NodesStay /\ MadeForNode => MadeForNode'
  BY DEF MadeForNode, NodesStay
<1>1. CASE UNCHANGED <<endpoints, gDevices, curEp, mon>> /\ NodesStay
  BY <1>1, <1>d DEF AtPlace
<1>2. ASSUME NEW n \in Nodes, NEW a \in AddressesOf[n], Announce(n, a) PROVE Goal
  <2>1. UNCHANGED <<endpoints, gDevices, curEp, mon>>
    BY <1>2 DEF Announce, bridgeVars
  <2>2. NodesStay
    BY <1>a, <1>2 DEF Announce, NodesStay
  <2>. QED  BY <1>1, <2>1, <2>2
<1>3. ASSUME NEW n \in Nodes, Descriptor(n) PROVE Goal
  <2>1. UNCHANGED <<endpoints, gDevices, curEp, mon>>
    BY <1>3 DEF Descriptor, bridgeVars
  <2>2. NodesStay
    BY <1>a, <1>3 DEF Descriptor, Entry, NodesStay
  <2>. QED  BY <1>1, <2>1, <2>2
<1>4. CASE LeaveEntry
  <2>1. UNCHANGED <<endpoints, gDevices, curEp, mon>>
    BY <1>4 DEF LeaveEntry, bridgeVars
  <2>2. NodesStay
    BY <1>a, <1>4 DEF LeaveEntry, Empty, NodesStay
  <2>. QED  BY <1>1, <2>1, <2>2
<1>5. CASE TakeAdd
  <2>1. UNCHANGED <<joined, endpoints>>
    BY <1>5 DEF TakeAdd, nodeVars
  <2>2. CASE mon'.at = "sleep" /\ gDevices' = gDevices
    BY <1>d, <2>1, <2>2 DEF AtPlace, NodesStay
  <2>3. CASE ~ (mon'.at = "sleep" /\ gDevices' = gDevices)
    <3>1. /\ mon'.at = "place" /\ mon'.k \in Devices /\ gDevices[mon'.k] = None
          /\ gDevices' = [gDevices EXCEPT ![mon'.k] = mail.dev]
      BY <1>a, <1>5, <2>3, TakeAddFacts
    <3>2. mon'.dev = mail.dev
      <4>1. mon' = Sleeping \/ \E k : mon' =
              [Sleeping EXCEPT !.at = "place", !.dev = mail.dev, !.k = k]
        BY <1>5 DEF TakeAdd, Done
      <4>2. Sleeping.at = "sleep"
        BY DEF Sleeping
      <4>. QED  BY <3>1, <4>1, <4>2, RestingTypes DEF MonType
    <3>3. AtPlace'
      BY <1>a, <3>1, <3>2 DEF AtPlace
    <3>4. endpoints[mon'.k] = None
      BY <3>1 DEF FreePlaces
    <3>5. MadeForNode => MadeForNode'
      BY <1>a, <1>c, <2>1, <3>1, <3>4 DEF MadeForNode
    <3>. QED  BY <3>3, <3>5
  <2>. QED  BY <2>2, <2>3
<1>6. CASE Place
  <2>1. UNCHANGED <<joined, gDevices>> /\ mon.at = "place" /\ mon.k \in Devices
    BY <1>a, <1>6 DEF Place, nodeVars, MonType
  <2>2. CASE Accepted(curEp)
    <3>1. /\ endpoints' = [endpoints EXCEPT ![mon.k] = curEp]
          /\ mon'.at = "check" /\ mon'.k = mon.k /\ mon'.dev = mon.dev
          /\ curEp' = curEp
      BY <1>a, <1>6, <2>2 DEF Place, Goto, MonType
    <3>2. ~ Exists(curEp)
      BY <2>2 DEF Accepted
    <3>3. AtPlace'
      BY <1>a, <2>1, <3>1, <3>2 DEF AtPlace, Exists
    <3>4. \A i \in Entries : joined[i].ep # 0 => joined[i].ep # curEp
      BY <3>2 DEF ListIsLive
    <3>5. MadeForNode => MadeForNode'
      BY <1>a, <2>1, <3>1, <3>4 DEF MadeForNode
    <3>. QED  BY <3>3, <3>5
  <2>3. CASE ~ Accepted(curEp)
    <3>1. endpoints' = endpoints /\ (mon' = mon \/ mon' = Sleeping)
      BY <1>6, <2>3 DEF Place, Done
    <3>2. Sleeping.at = "sleep"
      BY DEF Sleeping
    <3>. QED  BY <1>d, <2>1, <3>1, <3>2 DEF AtPlace, NodesStay
  <2>. QED  BY <2>2, <2>3
<1>7. CASE Assign
  <2>1. /\ UNCHANGED <<gDevices, endpoints, curEp>>
        /\ mon.at = "assign" /\ mon'.at = "copy"
    BY <1>a, <1>7 DEF Assign, bridgeVars, Goto, MonType
  <2>2. /\ joined'[idx].ep = curEp /\ joined'[idx].mac = joined[idx].mac
        /\ \A i \in Entries \ {idx} : joined'[i] = joined[i]
    BY <1>a, <1>7 DEF Assign, Entry
  <2>3. \A k \in Devices : endpoints[k] = curEp =>
          gDevices[k] # None /\ gDevices[k].node = mon.dev.node
    BY <1>b, <2>1 DEF AtPlace
  <2>4. MadeForNode /\ joined[idx].mac = mon.dev.node => MadeForNode'
    BY <2>1, <2>2, <2>3 DEF MadeForNode
  <2>. QED  BY <2>1, <2>4 DEF AtPlace
<1>8. CASE TakeWrite \/ Check \/ Copy \/ Read \/ Write \/ Save
  <2>1. UNCHANGED <<joined, gDevices, endpoints, curEp>>
    BY <1>8 DEF TakeWrite, Check, Copy, Read, Write, Save, nodeVars, bridgeVars
  <2>2. \/ mon' = [mon EXCEPT !.at = "assign"] /\ mon.at = "check"
        \/ mon'.at \notin {"place", "check", "assign"}
    <3>1. mon' = Sleeping => mon'.at = "sleep"
      BY DEF Sleeping
    <3>2. Goto("save") => mon'.at = "save"
      BY <1>a DEF Goto, MonType
    <3>3. CASE TakeWrite \/ Check \/ Save
      BY <1>8, <3>1, <3>3 DEF TakeWrite, Check, Save, Done, Goto
    <3>4. CASE Copy \/ Read
      BY <1>a, <3>4 DEF Copy, Read, MonType
    <3>5. CASE Write
      BY <3>2, <3>5 DEF Write
    <3>. QED  BY <1>8, <3>3, <3>4, <3>5
  <2>3. AtPlace'
    <3>1. CASE mon' = [mon EXCEPT !.at = "assign"] /\ mon.at = "check"
      <4>1. mon'.at = "assign" /\ mon'.k = mon.k /\ mon'.dev = mon.dev
        BY <1>a, <3>1 DEF MonType
      <4>. QED  BY <2>1, <3>1, <4>1 DEF AtPlace
    <3>2. CASE mon'.at \notin {"place", "check", "assign"}
      BY <3>2 DEF AtPlace
    <3>. QED  BY <2>2, <3>1, <3>2
  <2>. QED  BY <1>d, <2>1, <2>3 DEF NodesStay
<1>9. CASE Restart
  <2>1. joined' = [i \in Entries |-> Empty] /\ mon'.at = "sleep"
    BY <1>9 DEF Restart, Sleeping
  <2>2. \A i \in Entries : joined'[i].ep = 0
    BY <2>1 DEF Empty
  <2>. QED  BY <2>1, <2>2 DEF AtPlace, MadeForNode
<1>. QED
  <2>1. ASSUME NEW n \in Nodes,
               LoseDescriptor(n) \/ Activate(n) \/ Report(n) \/ Leave(n)
        PROVE  UNCHANGED <<joined, endpoints, gDevices, curEp, mon>>
    BY <2>1 DEF LoseDescriptor, Activate, Report, Leave, nodeVars, bridgeVars
  <2>2. Asked \/ PostAdd \/ LeaveEnd \/ SaveNodes \/ EnumNodes =>
          UNCHANGED <<joined, endpoints, gDevices, curEp, mon>>
    BY DEF Asked, PostAdd, LeaveEnd, SaveNodes, EnumNodes, ShellMayBegin, nodeVars,
           bridgeVars
  <2>3. UNCHANGED vars => UNCHANGED <<joined, endpoints, gDevices, curEp, mon>>
    BY DEF vars, nodeVars, bridgeVars
  <2>4. joined' = joined => NodesStay
    BY DEF NodesStay
  <2>. QED
    BY <1>1, <1>2, <1>3, <1>4, <1>5, <1>6, <1>7, <1>8, <1>9, <2>1, <2>2, <2>3,
       <2>4, NoRestoreStep DEF NodeEvent, Callback

\* Handlers move idx, erase entries and take new ones between any two steps of
\* ZcbMonitor, and the power may fail at any of them: only UpdateJoinedNodes, and
\* only when idx has gone to the entry of another node, lists an endpoint for a
\* node that its device was not made for.
THEOREM DevicesMixOnlyAtAssign ==
  ASSUME ShellCommands \subseteq {"SaveNodes"}
  PROVE  Spec => OnlyIdxMixes
<1>1. Init => AtPlace
  BY DEF Init, AtPlace, Sleeping
<1>2. LiveInv /\ AtPlace /\ [Next]_vars => AtPlace'
  BY MixStep
<1>3. LiveInv /\ AtPlace /\ [Next]_vars =>
        [ MadeForNode /\ ~ MadeForNode' =>
            mon.at = "assign" /\ joined[idx].mac # mon.dev.node ]_vars
  BY MixStep
<1>. QED  BY <1>1, <1>2, <1>3, LiveInvariance, PTL DEF Spec, OnlyIdxMixes

-----------------------------------------------------------------------------
(* The kinds of the devices.                                               *)

\* What a handler passes on of a node is what the node's descriptor says.
TrueKind(d) == d # None /\ d.node \in Nodes => d.kind = KindOf[d.node]

KindInv ==
  /\ NoRestore
  /\ TrueKind(sZcb) /\ TrueKind(mail.dev)
  /\ \A k \in Devices : TrueKind(gDevices[k])

LEMMA KindStep ==
  ASSUME "RetrieveNodes" \notin ShellCommands, TypeInv, KindInv, [Next]_vars
  PROVE  KindInv'
<1> USE DEF KindInv
<1>a. /\ TrueKind(NoDev) /\ TrueKind(None)
      /\ \A n \in Nodes : TrueKind(Described(n))
  BY NodesAssumption, MarksAssumption DEF TrueKind, NoDev, Described
<1>b. gDevices \in [Devices -> Dev \cup {None}] /\ NoMail.dev = NoDev /\ TypeOK
  BY DEF TypeInv, TypeOK, NoMail
<1>c. NoRestore'
  BY NoRestoreStep
<1>1. CASE UNCHANGED <<sZcb, gDevices>> /\ (mail' = mail \/ mail' = NoMail)
  BY <1>a, <1>b, <1>c, <1>1 DEF TrueKind
<1>2. ASSUME NEW n \in Nodes, Descriptor(n) PROVE KindInv'
  <2>1. UNCHANGED <<mail, gDevices>> /\ (sZcb' = sZcb \/ sZcb' = Described(n))
    BY <1>2 DEF Descriptor, bridgeVars
  <2>. QED  BY <1>a, <1>c, <2>1 DEF TrueKind
<1>3. ASSUME PostAdd \/ \E n \in Nodes : Report(n) PROVE KindInv'
  <2>1. UNCHANGED <<sZcb, gDevices>> /\ mail'.dev = sZcb
    BY <1>3 DEF PostAdd, Report, nodeVars, bridgeVars
  <2>. QED  BY <1>c, <2>1 DEF TrueKind
<1>4. CASE TakeAdd
  <2>1. sZcb' = sZcb /\ (mail' = mail \/ mail' = NoMail)
    BY <1>4 DEF TakeAdd, nodeVars, Done
  <2>2. \A k \in Devices : gDevices'[k] \in {gDevices[k], mail.dev}
    BY <1>b, <1>4, TakeAddFacts
  <2>. QED  BY <1>a, <1>b, <1>c, <2>1, <2>2 DEF TrueKind
<1>5. CASE Restart
  <2>1. sZcb' = NoDev /\ mail' = NoMail /\ \A k \in Devices : gDevices'[k] = None
    BY <1>5 DEF Restart
  <2>. QED  BY <1>a, <1>b, <1>c, <2>1 DEF TrueKind
<1>. QED
  <2>1. ASSUME NEW n \in Nodes,
               (\E a \in AddressesOf[n] : Announce(n, a)) \/ LoseDescriptor(n) \/ Activate(n) \/ Leave(n)
        PROVE  UNCHANGED <<sZcb, gDevices, mail>>
    BY <2>1 DEF Announce, LoseDescriptor, Activate, Leave, nodeVars, bridgeVars
  <2>2. Asked \/ LeaveEntry \/ LeaveEnd \/ SaveNodes \/ EnumNodes
        \/ Assign \/ Copy \/ Read \/ Write =>
          UNCHANGED <<sZcb, gDevices, mail>>
    BY DEF Asked, LeaveEntry, LeaveEnd, SaveNodes, EnumNodes, Assign, Copy, Read,
           Write, nodeVars, bridgeVars
  <2>3. TakeWrite \/ Place \/ Check \/ Save =>
          UNCHANGED <<sZcb, gDevices>> /\ (mail' = mail \/ mail' = NoMail)
    BY DEF TakeWrite, Place, Check, Save, Done, nodeVars, bridgeVars
  <2>4. UNCHANGED vars => UNCHANGED <<sZcb, gDevices, mail>>
    BY DEF vars, nodeVars, bridgeVars
  <2>. QED
    BY <1>1, <1>2, <1>3, <1>4, <1>5, <2>1, <2>2, <2>3, <2>4, NoRestoreStep
       DEF NodeEvent, Callback

\* An endpoint shows the clusters of the node its device was made for, however
\* many descriptors pass through sZcb and the mailbox before ZcbMonitor gets to
\* them, and whatever the one place of the mailbox loses.
THEOREM EndpointsFitNodes ==
  ASSUME "RetrieveNodes" \notin ShellCommands
  PROVE  Spec => []EndpointFitsNode
<1>1. Init => KindInv
  BY NodesAssumption, MarksAssumption
     DEF Init, KindInv, NoRestore, TrueKind, NoDev, NoMail, Prompt
<1>2. TypeInv /\ KindInv /\ [Next]_vars => KindInv'
  BY KindStep
<1>3. KindInv => EndpointFitsNode
  BY DEF KindInv, TrueKind, EndpointFitsNode
<1>4. Spec => []TypeInv
  BY TypeInvariance
<1>. QED  BY <1>1, <1>2, <1>3, <1>4, PTL DEF Spec

=============================================================================
