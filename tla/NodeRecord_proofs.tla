--------------------------- MODULE NodeRecord_proofs ---------------------------
(***************************************************************************)
(* Proofs about the record of nodes in flash, while handlers, ZcbMonitor   *)
(* and power failures interleave in any way.                               *)
(***************************************************************************)
EXTENDS NodeJoin_proofs

-----------------------------------------------------------------------------
(* A node has one entry in the record.                                     *)

\* No two entries of record s have the same MAC address; none has m.
OneEach(s)  == \A i, j \in DOMAIN s : s[i].mac = s[j].mac => i = j
Lacks(s, m) == \A i \in DOMAIN s : s[i].mac # m

\* No two entries have the same endpoint; all endpoints are below e.
EpsDiffer(s) == \A i, j \in DOMAIN s : s[i].ep # 0 /\ s[i].ep = s[j].ep => i = j
EpsBelow(s, e) == \A i \in DOMAIN s : s[i].ep < e

\* A record keeps these four when it loses an entry.
LEMMA WithoutKeeps ==
  ASSUME NEW s \in Record, s # <<>>, NEW g \in Nat
  PROVE  /\ OneEach(s) => OneEach(Without(s, g))
         /\ \A m : Lacks(s, m) => Lacks(Without(s, g), m)
         /\ EpsDiffer(s) => EpsDiffer(Without(s, g))
         /\ \A e : EpsBelow(s, e) => EpsBelow(Without(s, g), e)
<1> DEFINE rest == Without(s, g)
<1>1. DOMAIN s = 1..Len(s) /\ Len(s) \in Nat
  BY RecordFacts, SizesAssumption
<1>2. /\ rest \in Record
      /\ Len(rest) = Len(s) - 1
      /\ \A j \in 1..(Len(s) - 1) :
           Kept(g, j) \in 1..Len(s) /\ rest[j] = s[Kept(g, j)]
  BY WithoutFacts
<1> HIDE DEF rest
<1>3. DOMAIN rest = 1..(Len(s) - 1)
  BY <1>2, RecordFacts
<1>4. \A i, j \in DOMAIN rest : Kept(g, i) = Kept(g, j) => i = j
  BY <1>1, <1>3 DEF Kept
<1>5. \A j \in DOMAIN rest :
        Kept(g, j) \in DOMAIN s /\ rest[j] = s[Kept(g, j)]
  BY <1>1, <1>2, <1>3
<1>6. /\ OneEach(s) => OneEach(rest)
      /\ \A m : Lacks(s, m) => Lacks(rest, m)
      /\ EpsDiffer(s) => EpsDiffer(rest)
      /\ \A e : EpsBelow(s, e) => EpsBelow(rest, e)
  BY <1>4, <1>5 DEF OneEach, Lacks, EpsDiffer, EpsBelow
<1>. QED  BY <1>6 DEF rest

\* What the two branches of StoreJoinedNode do to the record.
UpdatedAt(s, j, new) ==
  [i \in DOMAIN s |-> IF i = j THEN Updated(s[i], new) ELSE s[i]]

LEMMA UpdateKeeps ==
  ASSUME NEW s \in Record, NEW j, NEW new \in Entry
  PROVE  /\ OneEach(s) => OneEach(UpdatedAt(s, j, new))
         /\ EpsDiffer(s) /\ (new.ep = 0 \/ EpsBelow(s, new.ep))
              => EpsDiffer(UpdatedAt(s, j, new))
<1> DEFINE t == UpdatedAt(s, j, new)
<1>1. DOMAIN t = DOMAIN s
  BY DEF UpdatedAt
<1>2. \A i \in DOMAIN s :
        /\ t[i].mac = s[i].mac
        /\ t[i].ep = IF i = j THEN new.ep ELSE s[i].ep
        /\ s[i].ep \in Nat
  BY RecordFacts, ConstantFacts DEF UpdatedAt, Updated, Entry
<1>3. new.ep \in Nat
  BY ConstantFacts DEF Entry
<1> HIDE DEF t
<1>4. OneEach(s) => OneEach(t)
  BY <1>1, <1>2 DEF OneEach
<1>5. EpsDiffer(s) /\ (new.ep = 0 \/ EpsBelow(s, new.ep)) => EpsDiffer(t)
  BY <1>1, <1>2, <1>3 DEF EpsDiffer, EpsBelow
<1>. QED  BY <1>4, <1>5 DEF t

LEMMA AppendKeeps ==
  ASSUME NEW s \in Record, NEW new \in Entry
  PROVE  /\ OneEach(s) /\ Lacks(s, new.mac) => OneEach(Append(s, new))
         /\ EpsDiffer(s) /\ (new.ep = 0 \/ EpsBelow(s, new.ep))
              => EpsDiffer(Append(s, new))
<1> DEFINE t == Append(s, new)
<1>1. /\ Len(s) \in Nat /\ DOMAIN s = 1..Len(s)
      /\ \A i \in 1..Len(s) : s[i].ep \in Nat
  <2>1. s \in Seq(Entry) /\ Len(s) \in 0..DevNum /\ DOMAIN s = 1..Len(s)
    BY RecordFacts
  <2>2. \A e \in Entry : e.ep \in Nat
    BY ConstantFacts DEF Entry
  <2>. QED  BY <2>1, <2>2, RecordFacts, SizesAssumption
<1>2. /\ DOMAIN t = 1..(Len(s) + 1)
      /\ \A i \in 1..Len(s) : t[i] = s[i]
      /\ t[Len(s) + 1] = new
  BY <1>1, RecordFacts, AppendProperties
<1>3. new.ep \in Nat
  BY ConstantFacts DEF Entry
<1> HIDE DEF t
<1>4. \A i \in DOMAIN t : (i \in DOMAIN s /\ t[i] = s[i]) \/ i = Len(s) + 1
  BY <1>1, <1>2
<1>5. OneEach(s) /\ Lacks(s, new.mac) => OneEach(t)
  BY <1>2, <1>4 DEF OneEach, Lacks
<1>6. EpsDiffer(s) /\ (new.ep = 0 \/ EpsBelow(s, new.ep)) => EpsDiffer(t)
  BY <1>1, <1>2, <1>3, <1>4 DEF EpsDiffer, EpsBelow
<1>. QED  BY <1>5, <1>6 DEF t

\* Nothing is in savedNodes while there is no file, unless it is about to be
\* written.
NothingUnsaved == flash = NoFile => saved = <<>> \/ mon.at = "save"

\* When StoreJoinedNode did not find the node it has in hand, the record still
\* lacks this node when it appends it, in memory and in flash.
NotFoundStays ==
  mon.at = "write" /\ mon.j = 0 =>
    Lacks(saved, mon.new.mac) /\ Lacks(FlashRecord, mon.new.mac)

OnceInv ==
  /\ TypeInv
  /\ OneEach(FlashRecord)
  /\ OneEach(saved)
  /\ NothingUnsaved
  /\ NotFoundStays

LEMMA OnceStep ==
  ASSUME "SaveNodes" \notin ShellCommands, OnceInv, [Next]_vars
  PROVE  /\ OneEach(FlashRecord)' /\ OneEach(saved)'
         /\ NothingUnsaved' /\ NotFoundStays'
<1> USE DEF OnceInv
<1>a. TypeOK /\ TypeInv
  BY DEF TypeInv
<1>b. OneEach(<<>>) /\ \A m : Lacks(<<>>, m)
  BY DEF OneEach, Lacks
<1>c. OneEach(Loaded)
  BY <1>a, LoadedFacts
<1>0. CASE UNCHANGED <<saved, flash, mon>>
  BY <1>0 DEF OneEach, FlashRecord, NothingUnsaved, NotFoundStays, Lacks
<1>1. CASE UNCHANGED <<saved, flash>> /\ mon.at # "save" /\ mon'.at # "write"
  BY <1>1 DEF OneEach, FlashRecord, NothingUnsaved, NotFoundStays, Lacks
<1>2. CASE LeaveEntry
  <2>1. mon' = mon /\ (UNCHANGED <<saved, flash>> \/ flash # NoFile)
    BY <1>2 DEF LeaveEntry, storeVars
  <2>2. CASE UNCHANGED <<saved, flash>>
    BY <1>0, <2>1, <2>2
  <2>3. CASE ~ UNCHANGED <<saved, flash>>
    <3>1. PICK g \in Nat :
            \/ saved' = flash /\ flash' = flash
            \/ /\ flash # <<>> /\ saved' = Without(flash, g)
               /\ flash' = Stored(Without(flash, g))
      BY <1>2, <1>a, <2>3, LeaveEntryShrinks
    <3>2. /\ flash # NoFile /\ FlashRecord = flash /\ Loaded = flash
          /\ flash \in Record /\ flash' # NoFile /\ FlashRecord' = flash'
      BY <1>2, <1>a, <2>3, LeaveEntryShrinks, LoadedFacts
    <3>3. flash # <<>> =>
            /\ OneEach(Without(flash, g))
            /\ \A m : Lacks(flash, m) => Lacks(Without(flash, g), m)
      BY <1>c, <3>2, WithoutKeeps
    <3>4. /\ OneEach(saved') /\ OneEach(flash')
          /\ \A m : Lacks(flash, m) => Lacks(saved', m) /\ Lacks(flash', m)
      BY <1>c, <3>1, <3>2, <3>3 DEF Stored
    <3>. QED  BY <2>1, <3>2, <3>4 DEF NothingUnsaved, NotFoundStays
  <2>. QED  BY <2>2, <2>3
<1>3. CASE Read
  <2>1. /\ saved' = Loaded /\ flash' = flash /\ FlashRecord' = FlashRecord
        /\ mon'.at = "write" /\ mon'.new = mon.new
        /\ mon'.j = IF flash = NoFile THEN 0 ELSE Position(flash, mon.new.mac)
    BY <1>a, <1>3 DEF Read, FlashRecord, TypeOK
  <2>2. flash = NoFile => Loaded = <<>> /\ FlashRecord = <<>>
    BY <1>3, <1>a, LoadedFacts DEF Read, NothingUnsaved
  <2>3. flash # NoFile => flash \in Record /\ Loaded = flash /\ FlashRecord = flash
    BY <1>a, LoadedFacts
  <2>4. flash # NoFile /\ Position(flash, mon.new.mac) = 0 => Lacks(flash, mon.new.mac)
    BY <2>3, SearchFacts DEF Lacks
  <2>. QED
    BY <1>b, <1>c, <2>1, <2>2, <2>3, <2>4 DEF NothingUnsaved, NotFoundStays
<1>4. CASE Write
  <2>1. /\ saved \in Record /\ mon.new \in Entry
        /\ flash' = flash /\ FlashRecord' = FlashRecord
    BY <1>a, <1>4 DEF Write, TypeOK, FlashRecord
  <2>2. CASE mon.j # 0
    <3>1. saved' = UpdatedAt(saved, mon.j, mon.new) /\ mon'.at = "save"
      BY <1>a, <1>4, <2>2 DEF Write, UpdatedAt, Goto, TypeOK
    <3>. QED
      BY <2>1, <3>1, UpdateKeeps DEF NothingUnsaved, NotFoundStays
  <2>3. CASE mon.j = 0 /\ saved' = saved
    <3>1. mon' = mon \/ mon'.at = "save"
      BY <1>a, <1>4 DEF Write, Goto, TypeOK
    <3>2. CASE mon' = mon
      BY <2>1, <2>3, <3>2 DEF NothingUnsaved, NotFoundStays
    <3>3. CASE mon'.at = "save"
      BY <2>1, <2>3, <3>3 DEF NothingUnsaved, NotFoundStays
    <3>. QED  BY <3>1, <3>2, <3>3
  <2>4. CASE mon.j = 0 /\ saved' # saved
    <3>1. saved' = Append(saved, mon.new) /\ mon'.at = "save"
      BY <1>a, <1>4, <2>4 DEF Write, Goto, TypeOK
    <3>2. Lacks(saved, mon.new.mac)
      BY <1>4, <2>4 DEF Write, NotFoundStays
    <3>. QED
      BY <2>1, <3>1, <3>2, AppendKeeps DEF NothingUnsaved, NotFoundStays
  <2>. QED  BY <2>2, <2>3, <2>4
<1>5. CASE Save
  <2>1. /\ saved' = saved /\ mon'.at = "sleep"
        /\ flash' = saved \/ flash' = Stored(saved)
    BY <1>5 DEF Save, Done, Sleeping
  <2>2. (saved = <<>> /\ flash' = flash) \/ flash' = saved
    BY <2>1 DEF Stored
  <2>3. FlashRecord' = flash' \/ FlashRecord' = <<>>
    BY DEF FlashRecord
  <2>. QED
    <3>1. OneEach(FlashRecord)'
      BY <1>b, <1>1, <2>1, <2>2, <2>3 DEF FlashRecord
    <3>2. NothingUnsaved'
      <4>1. NoFile \notin Record /\ saved \in Record
        BY <1>a, MarksAssumption DEF Record, Entry, TypeOK
      <4>. QED  BY <2>1, <2>2, <4>1 DEF NothingUnsaved
    <3>. QED  BY <2>1, <3>1, <3>2 DEF NotFoundStays
<1>6. CASE EnumNodes \/ RetrieveNodes
  <2>1. flash # NoFile /\ saved' = flash /\ flash' = flash /\ mon' = mon
    BY <1>6 DEF EnumNodes, RetrieveNodes
  <2>. QED  BY <2>1 DEF FlashRecord, NothingUnsaved, NotFoundStays
<1>7. CASE Restart
  <2>1. saved' = <<>> /\ flash' = flash /\ mon'.at = "sleep"
    BY <1>7 DEF Restart, Sleeping
  <2>. QED  BY <1>b, <2>1 DEF FlashRecord, NothingUnsaved, NotFoundStays
<1>8. CASE TakeWrite \/ TakeRestore \/ TakeAdd \/ Place \/ Check \/ Assign \/ Copy
  <2>1. UNCHANGED <<saved, flash>>
    BY <1>8 DEF TakeWrite, TakeRestore, TakeAdd, Place, Check, Assign, Copy,
                storeVars
  <2>2. mon' = mon \/ (mon.at # "save" /\ mon'.at # "write")
    <3>1. mon' = Sleeping => mon'.at # "write"
      BY DEF Sleeping
    <3>2. CASE TakeWrite \/ TakeRestore
      BY <3>1, <3>2 DEF TakeWrite, TakeRestore, Done
    <3>3. CASE TakeAdd
      BY <3>1, <3>3 DEF TakeAdd, Done, Sleeping
    <3>4. CASE Place \/ Check \/ Assign \/ Copy
      BY <1>a, <3>1, <3>4 DEF TypeOK, Place, Check, Assign, Copy, Done, Goto
    <3>. QED  BY <1>8, <3>2, <3>3, <3>4
  <2>. QED  BY <1>0, <1>1, <2>1, <2>2
<1>9. ~ SaveNodes
  BY DEF SaveNodes, ShellMayBegin
<1>. QED
  BY <1>2, <1>3, <1>4, <1>5, <1>6, <1>7, <1>8, <1>9, <1>0
     DEF Next, NodeEvent, Callback, Monitor, Shell, RetrieveStep, vars, storeVars,
         Announce, Descriptor, LoseDescriptor, Activate, Report, Leave, Asked,
         PostAdd, LeaveEnd, RetrieveEntry, RetrievePost, RetrieveNext, RetrieveEnd

\* However announcements, leaves, reports, ZcbMonitor and power failures
\* interleave, no node has two entries in flash.  Only SaveJoinedNodes, which
\* appends nodes that are saved, must not be given.
THEOREM NodeSavedOnce ==
  ASSUME "SaveNodes" \notin ShellCommands
  PROVE  Spec => []SavedOnce
<1>1. Init => OnceInv
  BY InitType DEF Init, OnceInv, OneEach, FlashRecord, NothingUnsaved,
                  NotFoundStays, Sleeping
<1>2. OnceInv /\ [Next]_vars => OnceInv'
  BY OnceStep, TypeStep, UsableStep, RetrieveStepOK DEF OnceInv, TypeInv
<1>3. OnceInv => SavedOnce
  BY DEF OnceInv, OneEach, SavedOnce
<1>. QED  BY <1>1, <1>2, <1>3, PTL DEF Spec

-----------------------------------------------------------------------------
(* The endpoint ids in flash.                                              *)

\* While ZcbMonitor is at a device, mCurrentEndpointId is above every id in
\* flash, and above those it has read when it is about to write.
AboveSaved ==
  /\ mon.at # "sleep" => EpsBelow(FlashRecord, curEp)
  /\ mon.at = "write" => EpsBelow(saved, curEp)

\* What it carries to the record has this id, or none, if the entry it copies
\* is no longer the one it assigned.
CarriesCurrent ==
  /\ mon.at = "copy" => joined[idx].ep \in {0, curEp}
  /\ mon.at \in {"read", "write"} => mon.new.ep \in {0, curEp}

EpInv ==
  /\ TypeInv
  /\ NoRestore
  /\ NothingUnsaved
  /\ EpsDiffer(FlashRecord)
  /\ EpsDiffer(saved)
  /\ AboveSaved
  /\ CarriesCurrent

LEMMA BumpAbove ==
  ASSUME NEW s \in Record, TypeInv, EpsBelow(s, curEp)
  PROVE  EpsBelow(s, Bump(curEp))
<1>1. \A i \in DOMAIN s : s[i].ep \in Nat
  <2>1. \A e \in Entry : e.ep \in Nat
    BY ConstantFacts DEF Entry
  <2>. QED  BY <2>1, RecordFacts
<1>2. curEp \in Nat /\ firstEp \in Nat
  BY ConstantFacts DEF TypeInv, TypeOK
<1>3. Bump(curEp) \in Nat /\ Bump(curEp) > curEp
  BY <1>2 DEF Bump
<1> HIDE DEF Bump
<1>. QED  BY <1>1, <1>2, <1>3 DEF EpsBelow

LEMMA EpStep ==
  ASSUME ShellCommands = {}, EpInv, [Next]_vars
  PROVE  /\ NothingUnsaved'
         /\ EpsDiffer(FlashRecord)' /\ EpsDiffer(saved)'
         /\ AboveSaved' /\ CarriesCurrent'
<1> USE DEF EpInv
<1>a. TypeOK /\ saved \in Record /\ FlashRecord \in Record /\ idx \in Entries
      /\ mon \in MonType /\ joined \in [Entries -> Entry]
  BY LoadedFacts DEF TypeInv, TypeOK, MonType
<1>b. EpsDiffer(<<>>) /\ \A e : EpsBelow(<<>>, e)
  BY DEF EpsDiffer, EpsBelow
<1>c. NoFile \notin Record
  BY MarksAssumption DEF Record, Entry
<1>1. CASE UNCHANGED <<joined, idx, curEp, saved, flash, mon>>
  BY <1>1 DEF NothingUnsaved, EpsDiffer, EpsBelow, FlashRecord, AboveSaved,
              CarriesCurrent
\* The steps that leave the record alone.
<1>2. ASSUME UNCHANGED <<saved, flash>>, AboveSaved', CarriesCurrent',
             NothingUnsaved'
      PROVE  /\ NothingUnsaved'
             /\ EpsDiffer(FlashRecord)' /\ EpsDiffer(saved)'
             /\ AboveSaved' /\ CarriesCurrent'
  BY <1>2 DEF EpsDiffer, FlashRecord
<1>3. ASSUME NEW n \in Nodes, NEW a \in AddressesOf[n], Announce(n, a)
      PROVE  /\ NothingUnsaved'
             /\ EpsDiffer(FlashRecord)' /\ EpsDiffer(saved)'
             /\ AboveSaved' /\ CarriesCurrent'
  <2>1. UNCHANGED <<saved, flash, curEp, mon>>
    BY <1>3 DEF Announce, storeVars, bridgeVars
  <2>2. UNCHANGED <<joined, idx>> \/ joined'[idx'].ep = 0
    <3>1. CASE FreeEntries = {}
      BY <1>3, <3>1 DEF Announce
    <3>2. CASE FreeEntries # {}
      <4>1. Min(FreeEntries) \in Entries
        BY <3>2, ConstantFacts, MinOfNats DEF FreeEntries
      <4>. QED  BY <1>a, <1>3, <3>2, <4>1 DEF Announce, IdxOf
    <3>. QED  BY <3>1, <3>2
  <2>3. CarriesCurrent'
    BY <2>1, <2>2 DEF CarriesCurrent
  <2>. QED
    BY <1>2, <2>1, <2>3 DEF AboveSaved, NothingUnsaved, EpsBelow, FlashRecord
<1>4. ASSUME NEW n \in Nodes, Descriptor(n)
      PROVE  /\ NothingUnsaved'
             /\ EpsDiffer(FlashRecord)' /\ EpsDiffer(saved)'
             /\ AboveSaved' /\ CarriesCurrent'
  <2>1. UNCHANGED <<saved, flash, curEp, mon, idx>>
    BY <1>4 DEF Descriptor, storeVars, bridgeVars
  <2>2. joined'[idx].ep = joined[idx].ep
    BY <1>a, <1>4 DEF Descriptor, Entry
  <2>3. CarriesCurrent'
    BY <2>1, <2>2 DEF CarriesCurrent
  <2>. QED
    BY <1>2, <2>1, <2>3 DEF AboveSaved, NothingUnsaved, EpsBelow, FlashRecord
<1>5. CASE LeaveEntry
  <2>1. UNCHANGED <<curEp, mon, idx>>
    BY <1>5 DEF LeaveEntry, bridgeVars
  <2>2. CarriesCurrent'
    <3>1. joined'[idx] \in {joined[idx], Empty}
      BY <1>a, <1>5 DEF LeaveEntry
    <3>2. joined'[idx].ep \in {0, joined[idx].ep}
      BY <3>1 DEF Empty
    <3>. QED  BY <2>1, <3>2 DEF CarriesCurrent
  <2>3. CASE UNCHANGED <<saved, flash>>
    BY <1>2, <2>1, <2>2, <2>3 DEF AboveSaved, NothingUnsaved, EpsBelow, FlashRecord
  <2>4. CASE ~ UNCHANGED <<saved, flash>>
    <3>1. PICK g \in Nat :
            \/ saved' = flash /\ flash' = flash
            \/ /\ flash # <<>> /\ saved' = Without(flash, g)
               /\ flash' = Stored(Without(flash, g))
      BY <1>5, <2>4, LeaveEntryShrinks
    <3>2. FlashRecord = flash /\ flash' # NoFile /\ FlashRecord' = flash'
      BY <1>5, <2>4, LeaveEntryShrinks
    <3>3. flash # <<>> =>
            /\ EpsDiffer(Without(flash, g))
            /\ \A e : EpsBelow(flash, e) => EpsBelow(Without(flash, g), e)
      BY <1>a, <3>2, WithoutKeeps
    <3>4. /\ EpsDiffer(saved') /\ EpsDiffer(flash')
          /\ \A e : EpsBelow(flash, e) => EpsBelow(saved', e) /\ EpsBelow(flash', e)
      BY <3>1, <3>2, <3>3 DEF Stored
    <3>5. AboveSaved'
      <4>1. mon.at # "sleep" => EpsBelow(flash, curEp)
        BY <3>2 DEF AboveSaved
      <4>2. mon.at # "sleep" => EpsBelow(saved', curEp) /\ EpsBelow(flash', curEp)
        BY <3>4, <4>1
      <4>. QED  BY <2>1, <3>2, <4>2 DEF AboveSaved
    <3>. QED  BY <2>2, <3>2, <3>4, <3>5 DEF NothingUnsaved
  <2>. QED  BY <2>3, <2>4
<1>6. CASE TakeAdd
  <2>1. UNCHANGED <<joined, idx, saved, flash>> /\ mon.at = "sleep"
    BY <1>6 DEF TakeAdd, nodeVars, storeVars
  <2>2. \/ mon'.at = "sleep"
        \/ mon'.at = "place" /\ (flash # NoFile => curEp' = NextSaved(flash))
    BY <1>a, <1>6, TakeAddFacts
  <2>4. flash # NoFile =>
          FlashRecord = flash /\ \A j \in DOMAIN flash : flash[j].ep < NextSaved(flash)
    BY <1>a, LoadedFacts, NextSavedFacts DEF TypeInv, EndpointsUsable
  <2>5. AboveSaved'
    BY <1>b, <2>1, <2>2, <2>4 DEF AboveSaved, EpsBelow, FlashRecord
  <2>6. CarriesCurrent' /\ NothingUnsaved'
    BY <2>1, <2>2 DEF CarriesCurrent, NothingUnsaved
  <2>. QED  BY <1>2, <2>1, <2>5, <2>6
<1>7. CASE Place
  <2>1. UNCHANGED <<joined, idx, saved, flash>> /\ mon.at = "place"
    BY <1>7 DEF Place, nodeVars, storeVars
  <2>2. mon'.at \in {"sleep", "place", "check"}
    BY <1>a, <1>7 DEF Place, Done, Sleeping, Goto, MonType
  <2>3. curEp' \in {curEp, Bump(curEp)}
    BY <1>7 DEF Place
  <2>4. EpsBelow(FlashRecord, curEp')
    BY <1>a, <2>1, <2>3, BumpAbove DEF AboveSaved
  <2>5. AboveSaved'
    BY <2>1, <2>2, <2>4 DEF AboveSaved, FlashRecord
  <2>6. CarriesCurrent' /\ NothingUnsaved'
    BY <2>1, <2>2 DEF CarriesCurrent, NothingUnsaved
  <2>. QED  BY <1>2, <2>1, <2>5, <2>6
<1>8. CASE Check
  <2>1. UNCHANGED <<joined, idx, saved, flash, curEp>> /\ mon.at = "check"
    BY <1>8 DEF Check, nodeVars, storeVars, bridgeVars
  <2>2. mon'.at \in {"sleep", "assign"}
    BY <1>a, <1>8 DEF Check, Done, Sleeping, Goto, MonType
  <2>3. AboveSaved' /\ CarriesCurrent' /\ NothingUnsaved'
    BY <2>1, <2>2 DEF AboveSaved, CarriesCurrent, NothingUnsaved, FlashRecord
  <2>. QED  BY <1>2, <2>1, <2>3
<1>9. CASE Assign
  <2>1. /\ UNCHANGED <<idx, saved, flash, curEp>> /\ mon.at = "assign"
        /\ mon'.at = "copy"
    BY <1>a, <1>9 DEF Assign, storeVars, bridgeVars, Goto, MonType
  <2>2. joined'[idx].ep = curEp
    BY <1>a, <1>9 DEF Assign, Entry
  <2>3. AboveSaved' /\ CarriesCurrent' /\ NothingUnsaved'
    BY <2>1, <2>2 DEF AboveSaved, CarriesCurrent, NothingUnsaved, FlashRecord
  <2>. QED  BY <1>2, <2>1, <2>3
<1>10. CASE Copy
  <2>1. /\ UNCHANGED <<joined, idx, saved, flash, curEp>> /\ mon.at = "copy"
        /\ mon'.at = "read" /\ mon'.new = joined[idx]
    BY <1>a, <1>10 DEF Copy, nodeVars, storeVars, bridgeVars, MonType
  <2>2. AboveSaved' /\ CarriesCurrent' /\ NothingUnsaved'
    BY <2>1 DEF AboveSaved, CarriesCurrent, NothingUnsaved, FlashRecord
  <2>. QED  BY <1>2, <2>1, <2>2
<1>11. CASE Read
  <2>1. /\ UNCHANGED <<joined, idx, flash, curEp>> /\ saved' = Loaded
        /\ mon.at = "read" /\ mon'.at = "write" /\ mon'.new = mon.new
    BY <1>a, <1>11 DEF Read, nodeVars, bridgeVars, MonType
  <2>2. Loaded = FlashRecord /\ FlashRecord' = FlashRecord
    <3>1. flash = NoFile => saved = <<>>
      BY <2>1 DEF NothingUnsaved
    <3>. QED  BY <2>1, <3>1 DEF Loaded, FlashRecord
  <2>3. NothingUnsaved'
    BY <2>1, <2>2, LoadedFacts DEF NothingUnsaved
  <2>4. CarriesCurrent' /\ AboveSaved'
    BY <2>1, <2>2 DEF AboveSaved, CarriesCurrent
  <2>. QED  BY <2>1, <2>2, <2>3, <2>4
<1>12. CASE Write
  <2>1. /\ UNCHANGED <<joined, idx, flash, curEp>> /\ mon.at = "write"
        /\ FlashRecord' = FlashRecord
        /\ mon.new \in Entry /\ mon.new.ep \in {0, curEp}
    BY <1>a, <1>12 DEF Write, nodeVars, bridgeVars, MonType, FlashRecord,
                       CarriesCurrent
  <2>2. mon'.at = "save" \/ UNCHANGED <<saved, mon>>
    <3>1. Goto("save") => mon'.at = "save"
      BY <1>a DEF Goto, MonType
    <3>. QED  BY <1>12, <3>1 DEF Write
  <2>3. saved' \in {saved, UpdatedAt(saved, mon.j, mon.new), Append(saved, mon.new)}
    BY <1>12 DEF Write, UpdatedAt
  <2>4. mon.new.ep = 0 \/ EpsBelow(saved, mon.new.ep)
    BY <2>1 DEF AboveSaved
  <2>5. EpsDiffer(saved)'
    BY <1>a, <2>1, <2>3, <2>4, UpdateKeeps, AppendKeeps
  <2>6. NothingUnsaved' /\ CarriesCurrent' /\ AboveSaved'
    <3>1. CASE mon'.at = "save"
      BY <2>1, <3>1 DEF NothingUnsaved, CarriesCurrent, AboveSaved
    <3>2. CASE UNCHANGED <<saved, mon>>
      BY <2>1, <3>2 DEF NothingUnsaved, CarriesCurrent, AboveSaved
    <3>. QED  BY <2>2, <3>1, <3>2
  <2>. QED  BY <2>1, <2>5, <2>6
<1>13. CASE Save
  <2>1. /\ saved' = saved /\ mon'.at = "sleep"
        /\ flash' = saved \/ flash' = Stored(saved)
    BY <1>13 DEF Save, Done, Sleeping
  <2>2. (saved = <<>> /\ flash' = flash) \/ flash' = saved
    BY <2>1 DEF Stored
  <2>3. EpsDiffer(FlashRecord)'
    BY <1>b, <2>1, <2>2 DEF FlashRecord
  <2>4. NothingUnsaved'
    BY <1>a, <1>c, <2>1, <2>2 DEF NothingUnsaved
  <2>. QED  BY <2>1, <2>3, <2>4 DEF AboveSaved, CarriesCurrent
<1>14. CASE Restart
  <2>1. saved' = <<>> /\ flash' = flash /\ mon'.at = "sleep"
    BY <1>14 DEF Restart, Sleeping
  <2>. QED
    BY <1>b, <2>1 DEF NothingUnsaved, FlashRecord, AboveSaved, CarriesCurrent
<1>15. CASE TakeWrite
  <2>1. UNCHANGED <<joined, idx, curEp, saved, flash>> /\ mon'.at = "sleep"
    BY <1>15 DEF TakeWrite, nodeVars, bridgeVars, storeVars, Done, Sleeping
  <2>2. mon.at = "sleep"
    BY <1>15 DEF TakeWrite
  <2>3. NothingUnsaved' /\ AboveSaved' /\ CarriesCurrent'
    BY <2>1, <2>2 DEF NothingUnsaved, AboveSaved, CarriesCurrent
  <2>. QED  BY <1>2, <2>1, <2>3
<1>16. ~ EnumNodes /\ ~ SaveNodes
  BY DEF EnumNodes, SaveNodes, ShellMayBegin
<1>. QED
  <2>1. ASSUME NEW n \in Nodes,
               LoseDescriptor(n) \/ Activate(n) \/ Report(n) \/ Leave(n)
        PROVE  UNCHANGED <<joined, idx, curEp, saved, flash, mon>>
    BY <2>1 DEF LoseDescriptor, Activate, Report, Leave, nodeVars, bridgeVars,
                storeVars
  <2>2. Asked \/ PostAdd \/ LeaveEnd =>
          UNCHANGED <<joined, idx, curEp, saved, flash, mon>>
    BY DEF Asked, PostAdd, LeaveEnd, nodeVars, bridgeVars, storeVars
  <2>3. UNCHANGED vars => UNCHANGED <<joined, idx, curEp, saved, flash, mon>>
    BY DEF vars, nodeVars, bridgeVars, storeVars
  <2>. QED
    BY <1>1, <1>3, <1>4, <1>5, <1>6, <1>7, <1>8, <1>9, <1>10, <1>11, <1>12, <1>13,
       <1>14, <1>15, <1>16, <2>1, <2>2, <2>3, NoRestoreStep DEF NodeEvent, Callback

\* However announcements, leaves, ZcbMonitor and power failures interleave, no
\* endpoint id is saved for two nodes: although ZcbMonitor takes the next id from
\* the record, lets handlers change the record and the list, and only then reads
\* the record again and writes it.
THEOREM SavedEndpointsDiffer ==
  ASSUME ShellCommands = {}
  PROVE  Spec => []SavedEndpointsDistinct
<1>1. Init => EpInv
  BY InitType DEF Init, EpInv, EpsDiffer, FlashRecord, NothingUnsaved, NoRestore,
                  AboveSaved, CarriesCurrent, Sleeping, Prompt, NoMail
<1>2. EpInv /\ [Next]_vars => EpInv'
  BY EpStep, NoRestoreStep, TypeStep, UsableStep, RetrieveStepOK DEF EpInv, TypeInv
<1>3. EpInv => SavedEndpointsDistinct
  BY DEF EpInv, EpsDiffer, SavedEndpointsDistinct
<1>. QED  BY <1>1, <1>2, <1>3, PTL DEF Spec

-----------------------------------------------------------------------------
(* Nodes the record loses.                                                 *)

\* What is left of the record when an entry goes has every node it had, but for
\* the one of that entry.
LEMMA WithoutHas ==
  ASSUME NEW s \in Record, NEW g \in Nat, g + 1 \in DOMAIN s,
         NEW n, n # s[g + 1].mac, ~ Lacks(s, n)
  PROVE  ~ Lacks(Without(s, g), n)
<1>1. DOMAIN s = 1..Len(s) /\ Len(s) \in Nat
  BY RecordFacts, SizesAssumption
<1>2. s # <<>>
  BY <1>1
<1>3. /\ Without(s, g) \in Record
      /\ Len(Without(s, g)) = Len(s) - 1
      /\ \A j \in 1..(Len(s) - 1) : Without(s, g)[j] = s[Kept(g, j)]
  BY <1>2, WithoutFacts
<1>4. DOMAIN Without(s, g) = 1..(Len(s) - 1)
  BY <1>3, RecordFacts
<1>5. PICK p \in DOMAIN s : s[p].mac = n
  BY DEF Lacks
<1> DEFINE q == IF p <= g THEN p ELSE p - 1
<1>6. p # g + 1
  BY <1>5
<1>7. q \in 1..(Len(s) - 1) /\ Kept(g, q) = p
  BY <1>1, <1>5, <1>6 DEF Kept
<1> HIDE DEF q
<1>. QED  BY <1>3, <1>4, <1>5, <1>7 DEF Lacks

\* A node that is in the record is in what StoreJoinedNode and SaveJoinedNodes
\* make of it.
LEMMA MoreHas ==
  ASSUME NEW s \in Record, NEW n, ~ Lacks(s, n)
  PROVE  /\ \A j, new : ~ Lacks(UpdatedAt(s, j, new), n)
         /\ \A new \in Entry : ~ Lacks(Append(s, new), n)
         /\ \A S, t : s \in Seq(S) /\ t \in Seq(S) => ~ Lacks(s \o t, n)
<1>1. PICK p \in DOMAIN s : s[p].mac = n
  BY DEF Lacks
<1>2. s \in Seq(Entry) /\ Len(s) \in Nat /\ DOMAIN s = 1..Len(s)
  BY RecordFacts, SizesAssumption
<1>3. ASSUME NEW j, NEW new PROVE ~ Lacks(UpdatedAt(s, j, new), n)
  <2>1. DOMAIN UpdatedAt(s, j, new) = DOMAIN s
    BY DEF UpdatedAt
  <2>2. s[p] \in Entry
    BY <1>1, <1>2, RecordFacts
  <2>3. UpdatedAt(s, j, new)[p].mac = n
    BY <1>1, <2>2 DEF UpdatedAt, Updated, Entry
  <2>. QED  BY <1>1, <2>1, <2>3 DEF Lacks
<1>4. ASSUME NEW new \in Entry PROVE ~ Lacks(Append(s, new), n)
  <2>1. /\ DOMAIN Append(s, new) = 1..(Len(s) + 1)
        /\ Append(s, new)[p] = s[p]
    BY <1>1, <1>2, AppendProperties
  <2>. QED  BY <1>1, <1>2, <2>1 DEF Lacks
<1>5. ASSUME NEW S, NEW t, s \in Seq(S), t \in Seq(S) PROVE ~ Lacks(s \o t, n)
  <2>1. /\ DOMAIN (s \o t) = 1..(Len(s) + Len(t)) /\ Len(t) \in Nat
        /\ (s \o t)[p] = s[p]
    BY <1>1, <1>2, <1>5, ConcatProperties, LenProperties
  <2>. QED  BY <1>1, <1>2, <2>1 DEF Lacks
<1>. QED  BY <1>3, <1>4, <1>5

\* Known, in these terms.
LEMMA KnownIs ==
  ASSUME NEW n
  PROVE  /\ Known(n) <=> ~ Lacks(FlashRecord, n)
                        /\ (mon.at \in {"write", "save"} => ~ Lacks(saved, n))
         /\ Known(n)' <=> ~ Lacks(FlashRecord, n)'
                         /\ (mon'.at \in {"write", "save"} => ~ Lacks(saved', n))
BY DEF Known, IsSaved, Lacks

LEMMA KnownStep ==
  ASSUME TypeInv, [Next]_vars, NEW n \in Nodes, Known(n),
         ~ (cb.at = "leave" /\ (cb.node = n \/ ~ IsSaved(cb.node)))
  PROVE  Known(n)'
<1> USE DEF FlashRecord
<1>a. /\ TypeOK /\ flash # NoFile /\ flash \in Record /\ ~ Lacks(flash, n)
      /\ Loaded = flash
      /\ mon.at \in {"write", "save"} => ~ Lacks(saved, n)
  <2>1. ~ Lacks(FlashRecord, n) /\ (mon.at \in {"write", "save"} => ~ Lacks(saved, n))
    BY KnownIs
  <2>2. flash # NoFile
    BY <2>1 DEF Lacks
  <2>. QED  BY <2>1, <2>2, LoadedFacts DEF TypeInv
<1>b. /\ flash' # NoFile /\ ~ Lacks(flash', n)
      /\ mon'.at \in {"write", "save"} => ~ Lacks(saved', n)
      => Known(n)'
  BY KnownIs
<1>c. Lacks(<<>>, n)
  BY DEF Lacks
<1>0. CASE UNCHANGED <<saved, flash>>
           /\ (mon' = mon \/ mon'.at \notin {"write", "save"})
  BY <1>a, <1>b, <1>0
<1>1. CASE LeaveEntry
  <2>1. mon' = mon /\ cb.at = "leave" /\ cb.node # n /\ IsSaved(cb.node)
    BY <1>1 DEF LeaveEntry
  <2>2. CASE UNCHANGED storeVars
    BY <1>0, <2>1, <2>2 DEF storeVars
  <2>3. CASE saved' = flash /\ flash' = flash
    BY <1>a, <1>b, <2>3
  <2>4. CASE /\ saved' = Without(flash, FoundAt(flash)) /\ flash' = Stored(saved')
    <3>1. Matching(flash, cb.node) # {}
      BY <1>a, <2>1 DEF IsSaved, Matching
    <3>2. /\ FoundAt(flash) \in Nat /\ FoundAt(flash) + 1 \in DOMAIN flash
          /\ flash[FoundAt(flash) + 1].mac = cb.node
      BY <1>a, <3>1, FoundFacts, SizesAssumption DEF TypeOK
    <3>3. ~ Lacks(saved', n)
      BY <1>a, <2>1, <2>4, <3>2, WithoutHas
    <3>4. flash' = saved'
      BY <1>c, <2>4, <3>3 DEF Stored
    <3>5. saved' \in Record
      BY <1>a, <2>4, <3>2, WithoutFacts, RecordFacts
    <3>6. NoFile \notin Record
      BY MarksAssumption DEF Record, Entry
    <3>. QED  BY <1>b, <3>3, <3>4, <3>5, <3>6
  <2>. QED  BY <1>1, <1>a, <2>2, <2>3, <2>4 DEF LeaveEntry
<1>2. CASE Read
  BY <1>a, <1>b, <1>2 DEF Read
<1>3. CASE Write
  <2>1. mon.at = "write" /\ flash' = flash /\ ~ Lacks(saved, n)
    BY <1>a, <1>3 DEF Write
  <2>2. saved \in Record /\ mon.new \in Entry
    BY <1>a DEF TypeOK
  <2>3. \/ saved' = saved
        \/ saved' = UpdatedAt(saved, mon.j, mon.new)
        \/ saved' = Append(saved, mon.new)
    BY <1>3 DEF Write, UpdatedAt
  <2>4. ~ Lacks(saved', n)
    BY <2>1, <2>2, <2>3, MoreHas
  <2>. QED  BY <1>a, <1>b, <2>1, <2>4
<1>4. CASE Save
  <2>1. saved' = saved /\ ~ Lacks(saved, n) /\ saved \in Record
    BY <1>a, <1>4 DEF Save, TypeOK
  <2>2. flash' = saved
    BY <1>4, <1>c, <2>1 DEF Save, Stored
  <2>3. NoFile \notin Record
    BY MarksAssumption DEF Record, Entry
  <2>. QED  BY <1>b, <2>1, <2>2, <2>3
<1>5. CASE EnumNodes \/ RetrieveNodes
  BY <1>a, <1>b, <1>5 DEF EnumNodes, RetrieveNodes
<1>6. CASE SaveNodes
  <2> DEFINE new == FlattenSeq([i \in 1..DevNum |->
                      [k \in 1..TimesNew(i - 1) |-> joined[i - 1]]])
  <2>1. ~ Lacks(flash \o new, n)
    BY <1>a, NewEntriesType, MoreHas
  <2>2. mon' = mon
    BY <1>6 DEF SaveNodes
  <2>3. UNCHANGED storeVars \/ (saved' = flash \o new /\ flash' = Stored(saved'))
    BY <1>6, <1>a DEF SaveNodes
  <2>4. CASE UNCHANGED storeVars
    BY <1>0, <2>2, <2>4 DEF storeVars
  <2>5. CASE saved' = flash \o new /\ flash' = Stored(saved')
    <3>1. flash' = saved' /\ ~ Lacks(saved', n)
      BY <1>c, <2>1, <2>5 DEF Stored
    <3>2. saved' \in Seq(Entry)
      BY <1>a, <2>5, SaveNodesType, SeqMonotonic
    <3>3. NoFile \notin Seq(Entry)
      BY MarksAssumption DEF Entry
    <3>. QED  BY <1>b, <3>1, <3>2, <3>3
  <2>. QED  BY <2>3, <2>4, <2>5
<1>7. CASE Restart
  BY <1>a, <1>b, <1>7 DEF Restart, Sleeping
<1>8. CASE TakeWrite \/ TakeRestore \/ TakeAdd \/ Place \/ Check \/ Assign \/ Copy
  <2>1. UNCHANGED <<saved, flash>>
    BY <1>8 DEF TakeWrite, TakeRestore, TakeAdd, Place, Check, Assign, Copy,
                storeVars
  <2>2. mon' = mon \/ mon'.at \notin {"write", "save"}
    <3>1. mon \in MonType /\ Sleeping.at = "sleep"
      BY <1>a DEF TypeOK, MonType, Sleeping
    <3>2. \A p \in {"check", "assign", "copy"} : Goto(p) => mon'.at = p
      BY <3>1 DEF Goto, MonType
    <3>3. CASE TakeWrite \/ TakeRestore
      BY <3>1, <3>3 DEF TakeWrite, TakeRestore, Done
    <3>4. CASE TakeAdd
      BY <1>a, <3>4, TakeAddFacts
    <3>5. CASE Place \/ Check \/ Assign
      BY <3>1, <3>2, <3>5 DEF Place, Check, Assign, Done
    <3>6. CASE Copy
      BY <3>1, <3>6 DEF Copy, MonType
    <3>. QED  BY <1>8, <3>3, <3>4, <3>5, <3>6
  <2>. QED  BY <1>0, <2>1, <2>2
<1>. QED
  BY <1>0, <1>1, <1>2, <1>3, <1>4, <1>5, <1>6, <1>7, <1>8
     DEF Next, NodeEvent, Callback, Monitor, Shell, RetrieveStep, vars, storeVars,
         Announce, Descriptor, LoseDescriptor, Activate, Report, Leave, Asked,
         PostAdd, LeaveEnd, RetrieveEntry, RetrievePost, RetrieveNext, RetrieveEnd

\* Whatever interleaves, and whichever shell commands are given, a node gets lost
\* from the record only by its own leave, or by the leave of a node that the
\* record does not have, whose Idx is not initialised.
THEOREM RecordIsKept == Spec => RecordKeeps
<1>1. TypeInv /\ [Next]_vars =>
        [ \A n \in Nodes :
            Known(n) /\ ~ Known(n)' =>
              cb.at = "leave" /\ (cb.node = n \/ ~ IsSaved(cb.node)) ]_vars
  BY KnownStep
<1>. QED  BY <1>1, TypeInvariance, PTL DEF Spec, RecordKeeps
=============================================================================
