-------------------------- MODULE MessageSlots_proofs --------------------------
(***************************************************************************)
(* Proofs about MessageSlots and SlotHistory, for every number of clients, *)
(* slots, commands and messages, any of them late, lost or reordered.      *)
(***************************************************************************)
EXTENDS SlotHistory, FiniteSetTheorems, TLAPS

\* The mutex is held exactly by the client that loads or sends a frame.
MutexOK == \A c \in Clients : pc[c] \in {"load", "flush"} <=> txOwner = c

\* A call has a command, waits for a response only if there is one, and is at a
\* slot from the claim to the return.
CallOK ==
  \A c \in Clients :
    /\ pc[c] # "idle" => cmd[c] \in Commands
    /\ phase[c] = "response" => pc[c] # "idle" /\ ResponseOf[cmd[c]] # None
    /\ pc[c] \in {"armed", "blocked", "woken", "expired", "collect"}
         => at[c] \in Slots

\* Between two reads serialReadTask has a message.
ReaderOK == rpc # "read" => rx \in Messages

\* The slots point to no more copies than are allocated, hence vPortFree of a copy
\* in a slot finds the count above zero.
CopiesAreAllocated == Cardinality(LiveCopies) <= heapUsed

\* The inductive invariant.
IInv ==
  /\ TypeOK
  /\ MutexOK
  /\ CallOK
  /\ ReaderOK
  /\ OwnFrame
  /\ ArmedSlotIsHeld
  /\ NoDanglingBuffer
  /\ CopiesAreAllocated

-----------------------------------------------------------------------------
(* Facts about the constants and the copies.                               *)

LEMMA MessageFacts ==
  /\ Answers \subseteq Messages
  /\ \A e \in Events : Event(e) \in Messages
  /\ \A k \in Commands : ResponseOf[k] = None \/ ResponseOf[k] \in Responses
BY DEF Messages, Responses

\* A message has a type, so that no free slot awaits it.
LEMMA MessageTyped ==
  ASSUME NEW m \in Messages
  PROVE  m.type # None
<1>1. m.type \in Types
  BY DEF Messages, Answers, AnswersTo, Status, Response, Event, Types, Responses
<1>. QED  BY <1>1, TypesAssumption

LEMMA LiveCopiesFinite ==
  /\ IsFiniteSet(LiveCopies)
  /\ Cardinality(LiveCopies) \in Nat
<1>1. IsFiniteSet(Slots)
  BY FS_Interval, BoundsAssumption DEF Slots
<1>2. LiveCopies \in SUBSET Slots
  BY DEF LiveCopies
<1>. QED  BY <1>1, <1>2, FS_Subset, FS_CardinalityType

\* A slot with a live copy in it proves that a copy is allocated.
LEMMA LiveCopyCounted ==
  ASSUME CopiesAreAllocated, heapUsed \in Nat, NEW i \in LiveCopies
  PROVE  heapUsed > 0
<1>1. Cardinality(LiveCopies) # 0
  BY LiveCopiesFinite, FS_EmptySet
<1>. QED  BY <1>1, LiveCopiesFinite DEF CopiesAreAllocated

-----------------------------------------------------------------------------
(* The steps of the inductive proof, one lemma for each group of conjuncts. *)

\* The local variables of a call keep their types when it returns or enters a
\* wait.
LocalsOK ==
  /\ pc \in [Clients -> PcValues]
  /\ cmd \in [Clients -> Commands \cup {None}]
  /\ phase \in [Clients -> {"status", "response"}]
  /\ at \in [Clients -> 1..(NSlots + 1)]

LEMMA LocalsStep ==
  ASSUME LocalsOK, NEW c \in Clients,
         \/ Return(c)
         \/ EnterWait(c, "status")
         \/ EnterWait(c, "response")
  PROVE  LocalsOK'
<1>0. 1 \in 1..(NSlots + 1)
  BY BoundsAssumption
<1>1. CASE Return(c)
  BY <1>0, <1>1 DEF LocalsOK, Return, PcValues
<1>2. CASE EnterWait(c, "status")
  BY <1>0, <1>2 DEF LocalsOK, EnterWait, PcValues
<1>3. CASE EnterWait(c, "response")
  BY <1>0, <1>3 DEF LocalsOK, EnterWait, PcValues
<1>. QED  BY <1>1, <1>2, <1>3

LEMMA TypeStep == IInv /\ [Next]_vars => TypeOK'
<1> SUFFICES ASSUME IInv, [Next]_vars PROVE TypeOK'
  OBVIOUS
<1> USE DEF TypeOK, IInv, LocalsOK, PcValues, Slots,
            clientVars, slotVars, txVars, readerVars
<1>1. ASSUME NEW c \in Clients, NEW k \in Commands, Begin(c, k) PROVE TypeOK'
  BY <1>1 DEF Begin
<1>2. ASSUME NEW c \in Clients, TakeTxMutex(c) PROVE TypeOK'
  BY <1>2 DEF TakeTxMutex, MutexFree
<1>3. ASSUME NEW c \in Clients, LoadFrame(c) PROVE TypeOK'
  BY <1>3 DEF LoadFrame
<1>4. ASSUME NEW c \in Clients, FlushFrame(c) PROVE TypeOK'
  <2>1. LocalsOK'
    BY <1>4, LocalsStep DEF FlushFrame, GiveMutex, AfterStatusOK
  <2>2. inflight' \in [Answers -> 0..MaxInFlight]
    BY <1>4, BoundsAssumption DEF FlushFrame, GiveMutex
  <2>. QED  BY <1>4, <2>1, <2>2 DEF FlushFrame, GiveMutex
<1>5. ASSUME NEW c \in Clients, ClaimSlot(c) PROVE TypeOK'
  BY <1>5, MessageFacts DEF ClaimSlot, Awaited, CallOK
<1>6. ASSUME NEW c \in Clients, SkipSlot(c) PROVE TypeOK'
  BY <1>6, BoundsAssumption DEF SkipSlot
<1>7. ASSUME NEW c \in Clients, NoFreeSlot(c) PROVE TypeOK'
  BY <1>7, LocalsStep DEF NoFreeSlot
<1>8. ASSUME NEW c \in Clients, WaitBits(c) PROVE TypeOK'
  BY <1>8 DEF WaitBits
<1>9. ASSUME NEW c \in Clients, Timeout(c) PROVE TypeOK'
  BY <1>9 DEF Timeout
<1>10. ASSUME NEW c \in Clients, Disarm(c) PROVE TypeOK'
  <2>1. CASE pc[c] = "woken"
    BY <1>10, <2>1 DEF Disarm, BitSeen, Release
  <2>2. CASE pc[c] = "expired"
    BY <1>10, <2>2, LocalsStep DEF Disarm, BitSeen, Release
  <2>. QED  BY <1>10, <2>1, <2>2 DEF Disarm, BitSeen, Release
<1>11. ASSUME NEW c \in Clients, TakeStatus(c) PROVE TypeOK'
  <2>1. slotMsg[at[c]] \in Messages => heapUsed - 1 \in 0..HeapSize
    BY <1>11, LiveCopyCounted, BoundsAssumption DEF TakeStatus, FreeCopy, LiveCopies,
        CallOK
  <2>2. LocalsOK'
    BY <1>11, LocalsStep DEF TakeStatus, FreeCopy, AfterStatusOK
  <2>3. /\ slotMsg' \in [Slots -> Clients \cup Messages \cup {None, Freed}]
        /\ heapUsed' \in 0..HeapSize
        /\ halted' \in BOOLEAN
    BY <1>11, <2>1 DEF TakeStatus, FreeCopy
  <2>. QED  BY <1>11, <2>2, <2>3 DEF TakeStatus, FreeCopy
<1>12. ASSUME NEW c \in Clients, TakeResponse(c) PROVE TypeOK'
  BY <1>12, LocalsStep DEF TakeResponse
<1>13. ASSUME NEW m \in Answers, ReceiveAnswer(m) PROVE TypeOK'
  BY <1>13, BoundsAssumption, MessageFacts DEF ReceiveAnswer, Receive
<1>14. ASSUME NEW m \in Answers, LoseAnswer(m) PROVE TypeOK'
  BY <1>14, BoundsAssumption DEF LoseAnswer
<1>15. ASSUME NEW e \in Events, ReceiveEvent(e) PROVE TypeOK'
  BY <1>15, BoundsAssumption, MessageFacts DEF ReceiveEvent, Receive
<1>16. CASE MatchOtherType
  BY <1>16, BoundsAssumption DEF MatchOtherType, NextSlot
<1>17. CASE MatchOtherStatus
  BY <1>17, BoundsAssumption DEF MatchOtherStatus, NextSlot
<1>18. CASE MatchCopy
  <2>1. slotMsg' \in [Slots -> Clients \cup Messages \cup {None, Freed}]
    BY <1>18 DEF MatchCopy, HasRoom, StoreCopy, ReaderOK
  <2>2. heapUsed' \in 0..HeapSize
    BY <1>18, BoundsAssumption DEF MatchCopy, HasRoom, StoreCopy
  <2>. QED  BY <1>18, <2>1, <2>2 DEF MatchCopy, HasRoom, StoreCopy
<1>19. CASE Signal
  BY <1>19, BoundsAssumption DEF Signal
<1>20. CASE Dispatch
  BY <1>20 DEF Dispatch
<1>21. CASE UNCHANGED vars
  BY <1>21 DEF vars
<1>. QED
  BY <1>1, <1>2, <1>3, <1>4, <1>5, <1>6, <1>7, <1>8, <1>9, <1>10, <1>11, <1>12,
     <1>13, <1>14, <1>15, <1>16, <1>17, <1>18, <1>19, <1>20, <1>21
  DEF Next, CallStep, ReaderStep, Stopped

\* How the control of a client moves in the steps outside eSL_WriteMessage: from
\* and to places where it neither loads nor sends a frame.
LEMMA ClientMove ==
  ASSUME IInv, NEW c \in Clients, 
         \/ ClaimSlot(c) \/ SkipSlot(c) \/ NoFreeSlot(c) \/ WaitBits(c)
         \/ Timeout(c) \/ Disarm(c) \/ TakeStatus(c) \/ TakeResponse(c)
         \/ \E k \in Commands : Begin(c, k)
  PROVE  /\ pc[c] \notin {"load", "flush"}
         /\ \E v \in PcValues \ {"load", "flush"} : pc' = [pc EXCEPT ![c] = v]
         /\ UNCHANGED txVars
<1>. USE DEF PcValues, Return, EnterWait
<1>1. CASE ClaimSlot(c)
  BY <1>1 DEF ClaimSlot
<1>2. CASE SkipSlot(c)
  <2>1. pc' = [pc EXCEPT ![c] = "scan"]
    BY <1>2 DEF SkipSlot, IInv, TypeOK
  <2>. QED  BY <1>2, <2>1 DEF SkipSlot
<1>3. CASE NoFreeSlot(c)
  BY <1>3 DEF NoFreeSlot
<1>4. CASE WaitBits(c)
  BY <1>4 DEF WaitBits
<1>5. CASE Timeout(c)
  BY <1>5 DEF Timeout
<1>6. CASE Disarm(c)
  BY <1>6 DEF Disarm, BitSeen, Release
<1>7. CASE TakeStatus(c)
  BY <1>7 DEF TakeStatus, FreeCopy, AfterStatusOK
<1>8. CASE TakeResponse(c)
  BY <1>8 DEF TakeResponse
<1>9. CASE \E k \in Commands : Begin(c, k)
  BY <1>9 DEF Begin
<1>. QED  BY <1>1, <1>2, <1>3, <1>4, <1>5, <1>6, <1>7, <1>8, <1>9

\* serialReadTask leaves the clients where they are, but for those it wakes.
LEMMA ReaderMove ==
  ASSUME IInv,
         \/ ReaderStep
         \/ UNCHANGED vars
         \/ \E m \in Answers : ReceiveAnswer(m) \/ LoseAnswer(m)
         \/ \E e \in Events : ReceiveEvent(e)
  PROVE  /\ \A c \in Clients :
              pc'[c] = pc[c] \/ (pc[c] = "blocked" /\ pc'[c] = "woken")
         /\ UNCHANGED <<cmd, phase, at, txVars>>
<1>. USE DEF clientVars
<1>1. CASE MatchOtherType
  BY <1>1 DEF MatchOtherType
<1>2. CASE MatchOtherStatus
  BY <1>2 DEF MatchOtherStatus
<1>3. CASE MatchCopy
  BY <1>3 DEF MatchCopy, HasRoom, StoreCopy
<1>4. CASE Signal
  BY <1>4 DEF Signal
<1>5. CASE Dispatch
  BY <1>5 DEF Dispatch
<1>6. CASE UNCHANGED vars
  BY <1>6 DEF vars
<1>7. CASE \E m \in Answers : ReceiveAnswer(m) \/ LoseAnswer(m)
  BY <1>7 DEF ReceiveAnswer, Receive, LoseAnswer
<1>8. CASE \E e \in Events : ReceiveEvent(e)
  BY <1>8 DEF ReceiveEvent, Receive
<1>. QED
  BY <1>1, <1>2, <1>3, <1>4, <1>5, <1>6, <1>7, <1>8 DEF ReaderStep

\* Every step is one of a client or one of serialReadTask and the world.
LEMMA StepCases ==
  ASSUME [Next]_vars
  PROVE  \/ \E c \in Clients : TakeTxMutex(c) \/ LoadFrame(c) \/ FlushFrame(c)
         \/ \E c \in Clients :
              \/ ClaimSlot(c) \/ SkipSlot(c) \/ NoFreeSlot(c) \/ WaitBits(c)
              \/ Timeout(c) \/ Disarm(c) \/ TakeStatus(c) \/ TakeResponse(c)
              \/ \E k \in Commands : Begin(c, k)
         \/ ReaderStep
         \/ UNCHANGED vars
         \/ \E m \in Answers : ReceiveAnswer(m) \/ LoseAnswer(m)
         \/ \E e \in Events : ReceiveEvent(e)
BY DEF Next, CallStep, Stopped

\* The mutex keeps one client at a time at the static buffer.
LEMMA FrameStep == IInv /\ [Next]_vars => MutexOK' /\ OwnFrame'
<1> SUFFICES ASSUME IInv, [Next]_vars PROVE MutexOK' /\ OwnFrame'
  OBVIOUS
<1>. USE DEF MutexOK, OwnFrame
<1>0. /\ MutexOK /\ OwnFrame
      /\ pc \in [Clients -> PcValues] /\ cmd \in [Clients -> Commands \cup {None}]
      /\ None \notin Clients
  BY ClientsAssumption DEF IInv, TypeOK
<1>1. ASSUME NEW c \in Clients, TakeTxMutex(c) PROVE MutexOK' /\ OwnFrame'
  BY <1>0, <1>1 DEF TakeTxMutex, MutexFree
<1>2. ASSUME NEW c \in Clients, LoadFrame(c) PROVE MutexOK' /\ OwnFrame'
  BY <1>0, <1>2 DEF LoadFrame
<1>3. ASSUME NEW c \in Clients, FlushFrame(c) PROVE MutexOK' /\ OwnFrame'
  <2>1. pc[c] = "flush" /\ txOwner = c /\ txOwner' = None
    BY <1>0, <1>3 DEF FlushFrame, GiveMutex
  <2>2. \E v \in {"idle", "scan"} : pc' = [pc EXCEPT ![c] = v]
    BY <1>3 DEF FlushFrame, GiveMutex, AfterStatusOK, Return, EnterWait
  <2>3. \A d \in Clients : pc'[d] \notin {"load", "flush"}
    BY <1>0, <2>1, <2>2
  <2>. QED  BY <1>0, <2>1, <2>3
<1>4. ASSUME NEW c \in Clients,
         \/ ClaimSlot(c) \/ SkipSlot(c) \/ NoFreeSlot(c) \/ WaitBits(c)
         \/ Timeout(c) \/ Disarm(c) \/ TakeStatus(c) \/ TakeResponse(c)
         \/ \E k \in Commands : Begin(c, k)
      PROVE  MutexOK' /\ OwnFrame'
  <2>1. PICK v \in PcValues \ {"load", "flush"} : pc' = [pc EXCEPT ![c] = v]
    BY <1>4, ClientMove
  <2>2. pc[c] \notin {"load", "flush"} /\ UNCHANGED txVars
    BY <1>4, ClientMove
  <2>3. \A d \in Clients \ {c} : pc'[d] = pc[d] /\ cmd'[d] = cmd[d]
    <3>1. \A d \in Clients \ {c} : cmd'[d] = cmd[d]
      BY <1>0, <1>4 DEF Return, EnterWait, AfterStatusOK, ClaimSlot, SkipSlot,
          NoFreeSlot, WaitBits, Timeout, Disarm, BitSeen, Release, TakeStatus, FreeCopy,
          TakeResponse, Begin
    <3>. QED  BY <1>0, <2>1, <3>1
  <2>4. pc'[c] \notin {"load", "flush"}
    BY <1>0, <2>1
  <2>. QED  BY <1>0, <2>2, <2>3, <2>4 DEF txVars
<1>5. ASSUME \/ ReaderStep
             \/ UNCHANGED vars
             \/ \E m \in Answers : ReceiveAnswer(m) \/ LoseAnswer(m)
             \/ \E e \in Events : ReceiveEvent(e)
      PROVE  MutexOK' /\ OwnFrame'
  BY <1>0, <1>5, ReaderMove DEF txVars
<1>. QED  BY <1>1, <1>2, <1>3, <1>4, <1>5, StepCases

\* What CallOK says of one client.
ClientOK(c) ==
  /\ pc[c] # "idle" => cmd[c] \in Commands
  /\ phase[c] = "response" => pc[c] # "idle" /\ ResponseOf[cmd[c]] # None
  /\ pc[c] \in {"armed", "blocked", "woken", "expired", "collect"}
       => at[c] \in Slots

\* The ends of a call's steps.
LEMMA CallEnds ==
  ASSUME IInv, NEW c \in Clients, pc[c] # "idle",
         Return(c) \/ EnterWait(c, "status") \/ AfterStatusOK(c)
  PROVE  /\ pc' = [pc EXCEPT ![c] = "idle"] \/ pc' = [pc EXCEPT ![c] = "scan"]
         /\ \A d \in Clients \ {c} : /\ pc'[d] = pc[d] /\ cmd'[d] = cmd[d]
                                     /\ phase'[d] = phase[d] /\ at'[d] = at[d]
         /\ ClientOK(c)'
<1>0. /\ cmd[c] \in Commands
      /\ pc \in [Clients -> PcValues] /\ cmd \in [Clients -> Commands \cup {None}]
      /\ phase \in [Clients -> {"status", "response"}]
      /\ at \in [Clients -> 1..(NSlots + 1)]
  BY DEF IInv, TypeOK, CallOK
<1>1. CASE Return(c)
  BY <1>0, <1>1 DEF Return, ClientOK
<1>2. CASE EnterWait(c, "status")
  BY <1>0, <1>2 DEF EnterWait, ClientOK
<1>3. CASE AfterStatusOK(c) /\ ~Return(c)
  BY <1>0, <1>3 DEF AfterStatusOK, EnterWait, ClientOK
<1>. QED  BY <1>1, <1>2, <1>3

\* A step of a client leaves the locals of the others alone and its own right.
LEMMA ClientStep ==
  ASSUME IInv, NEW c \in Clients, CallStep(c) \/ \E k \in Commands : Begin(c, k)
  PROVE  /\ \A d \in Clients \ {c} : /\ pc'[d] = pc[d] /\ cmd'[d] = cmd[d]
                                     /\ phase'[d] = phase[d] /\ at'[d] = at[d]
         /\ ClientOK(c)'
<1>0. /\ ClientOK(c)
      /\ pc \in [Clients -> PcValues] /\ cmd \in [Clients -> Commands \cup {None}]
      /\ phase \in [Clients -> {"status", "response"}]
      /\ at \in [Clients -> 1..(NSlots + 1)]
  BY DEF IInv, TypeOK, CallOK, ClientOK
<1>1. ASSUME NEW k \in Commands, Begin(c, k)
      PROVE  /\ \A d \in Clients \ {c} : /\ pc'[d] = pc[d] /\ cmd'[d] = cmd[d]
                                     /\ phase'[d] = phase[d] /\ at'[d] = at[d]
             /\ ClientOK(c)'
  BY <1>0, <1>1 DEF Begin, ClientOK
<1>2. CASE TakeTxMutex(c)
  BY <1>0, <1>2 DEF TakeTxMutex, MutexFree, ClientOK
<1>3. CASE LoadFrame(c)
  BY <1>0, <1>3 DEF LoadFrame, ClientOK
<1>4. CASE FlushFrame(c)
  BY <1>4, CallEnds DEF FlushFrame, GiveMutex
<1>5. CASE ClaimSlot(c)
  BY <1>0, <1>5 DEF ClaimSlot, ClientOK
<1>6. CASE SkipSlot(c)
  BY <1>0, <1>6 DEF SkipSlot, ClientOK
<1>7. CASE NoFreeSlot(c)
  BY <1>7, CallEnds DEF NoFreeSlot
<1>8. CASE WaitBits(c)
  BY <1>0, <1>8 DEF WaitBits, ClientOK
<1>9. CASE Timeout(c)
  BY <1>0, <1>9 DEF Timeout, ClientOK
<1>10. CASE Disarm(c)
  <2>1. CASE Return(c)
    BY <1>10, <2>1, CallEnds DEF Disarm, BitSeen, Release
  <2>2. CASE ~Return(c)
    BY <1>0, <1>10, <2>2 DEF Disarm, BitSeen, Release, ClientOK
  <2>. QED  BY <2>1, <2>2
<1>11. CASE TakeStatus(c)
  BY <1>11, CallEnds DEF TakeStatus, FreeCopy
<1>12. CASE TakeResponse(c)
  BY <1>12, CallEnds DEF TakeResponse
<1>. QED
  BY <1>1, <1>2, <1>3, <1>4, <1>5, <1>6, <1>7, <1>8, <1>9, <1>10, <1>11, <1>12
  DEF CallStep

LEMMA LocalsInvStep == IInv /\ [Next]_vars => CallOK'
<1> SUFFICES ASSUME IInv, [Next]_vars, NEW d \in Clients PROVE ClientOK(d)'
  BY DEF CallOK, ClientOK
<1>0. ClientOK(d)
  BY DEF IInv, CallOK, ClientOK
<1>1. ASSUME NEW c \in Clients, CallStep(c) \/ \E k \in Commands : Begin(c, k)
      PROVE  ClientOK(d)'
  <2>1. CASE c = d
    BY <1>1, <2>1, ClientStep
  <2>2. CASE c # d
    BY <1>0, <1>1, <2>2, ClientStep DEF ClientOK
  <2>. QED  BY <2>1, <2>2
<1>2. ASSUME \/ ReaderStep
             \/ UNCHANGED vars
             \/ \E m \in Answers : ReceiveAnswer(m) \/ LoseAnswer(m)
             \/ \E e \in Events : ReceiveEvent(e)
      PROVE  ClientOK(d)'
  BY <1>0, <1>2, ReaderMove DEF ClientOK
<1>. QED  BY <1>1, <1>2 DEF Next, Stopped

\* serialReadTask has a message from a read to the end of its loop body.
LEMMA ReaderOKStep == IInv /\ [Next]_vars => ReaderOK'
<1> SUFFICES ASSUME IInv, [Next]_vars PROVE ReaderOK'
  OBVIOUS
<1>. USE DEF ReaderOK
<1>0. ReaderOK
  BY DEF IInv
<1>1. ASSUME NEW c \in Clients, CallStep(c) \/ \E k \in Commands : Begin(c, k)
      PROVE  UNCHANGED readerVars
  BY <1>1 DEF CallStep, Begin, TakeTxMutex, MutexFree, LoadFrame, FlushFrame, GiveMutex,
      ClaimSlot, SkipSlot, NoFreeSlot, WaitBits, Timeout, Disarm, TakeStatus, TakeResponse
<1>2. CASE ReaderStep
  BY <1>0, <1>2 DEF ReaderStep, MatchOtherType, MatchOtherStatus, MatchCopy, HasRoom,
      StoreCopy, Signal, Dispatch
<1>3. ASSUME NEW m \in Answers, ReceiveAnswer(m) \/ LoseAnswer(m) PROVE ReaderOK'
  BY <1>0, <1>3, MessageFacts DEF ReceiveAnswer, Receive, LoseAnswer, readerVars
<1>4. ASSUME NEW e \in Events, ReceiveEvent(e) PROVE ReaderOK'
  BY <1>4, MessageFacts DEF ReceiveEvent, Receive
<1>5. CASE UNCHANGED vars
  BY <1>0, <1>5 DEF vars, readerVars
<1>. QED  BY <1>0, <1>1, <1>2, <1>3, <1>4, <1>5 DEF Next, Stopped, readerVars

\* What ArmedSlotIsHeld and NoDanglingBuffer say of one slot.
SlotOK(i) ==
  /\ slotType[i] # None => \E c \in Clients : Holds(c, i)
  /\ slotType[i] = StatusType /\ slotMsg[i] \in Clients
       => Holds(slotMsg[i], i) /\ phase[slotMsg[i]] = "status"

\* A step that keeps what every slot awaits, puts no stack buffer in a slot and
\* lets no client that holds a slot leave it keeps the slots right.
LEMMA SlotsKept ==
  ASSUME NEW i \in Slots, SlotOK(i),
         slotType'[i] = slotType[i],
         slotMsg'[i] = slotMsg[i] \/ slotMsg'[i] \notin Clients,
         \A c \in Clients : Holds(c, i) => Holds(c, i)' /\ phase'[c] = phase[c]
  PROVE  SlotOK(i)'
BY DEF SlotOK

LEMMA SlotStep == IInv /\ [Next]_vars => ArmedSlotIsHeld' /\ NoDanglingBuffer'
<1> SUFFICES ASSUME IInv, [Next]_vars, NEW i \in Slots PROVE SlotOK(i)'
  BY DEF ArmedSlotIsHeld, NoDanglingBuffer, SlotOK
<1>0. /\ SlotOK(i)
      /\ pc \in [Clients -> PcValues]
      /\ at \in [Clients -> 1..(NSlots + 1)]
      /\ slotType \in [Slots -> {None, StatusType} \cup Responses]
      /\ slotMsg \in [Slots -> Clients \cup Messages \cup {None, Freed}]
  BY DEF IInv, TypeOK, ArmedSlotIsHeld, NoDanglingBuffer, SlotOK
\* Steps of a client that holds no slot and claims none.
<1>1. ASSUME NEW c \in Clients,
             \/ TakeTxMutex(c) \/ LoadFrame(c) \/ FlushFrame(c) \/ SkipSlot(c)
             \/ NoFreeSlot(c) \/ TakeStatus(c) \/ TakeResponse(c)
             \/ \E k \in Commands : Begin(c, k)
      PROVE  SlotOK(i)'
  <2>1. pc[c] \notin {"armed", "blocked", "woken", "expired"}
    BY <1>1 DEF TakeTxMutex, MutexFree, LoadFrame, FlushFrame, GiveMutex, SkipSlot,
        NoFreeSlot, TakeStatus, FreeCopy, TakeResponse, Begin
  <2>2. \A d \in Clients : Holds(d, i) => Holds(d, i)' /\ phase'[d] = phase[d]
    BY <1>1, <2>1, ClientStep DEF Holds, CallStep
  <2>3. slotType' = slotType
    BY <1>1 DEF TakeTxMutex, MutexFree, LoadFrame, FlushFrame, GiveMutex, SkipSlot,
        NoFreeSlot, TakeStatus, FreeCopy, TakeResponse, Begin, slotVars
  <2>4. CASE TakeStatus(c)
    <3>1. slotMsg'[i] = slotMsg[i] \/ slotMsg'[i] = Freed
      BY <1>0, <2>4 DEF TakeStatus, FreeCopy
    <3>. QED  BY <1>0, <2>2, <2>3, <3>1, SlotsKept, PointersAssumption
  <2>5. CASE ~TakeStatus(c)
    <3>1. slotMsg' = slotMsg
      BY <1>1, <2>5 DEF TakeTxMutex, MutexFree, LoadFrame, FlushFrame, GiveMutex,
          SkipSlot, NoFreeSlot, TakeResponse, Begin, slotVars
    <3>. QED  BY <1>0, <2>2, <2>3, <3>1, SlotsKept
  <2>. QED  BY <2>4, <2>5
<1>2. ASSUME NEW c \in Clients, ClaimSlot(c) PROVE SlotOK(i)'
  <2>1. /\ pc[c] = "scan" /\ at[c] \in Slots
        /\ pc' = [pc EXCEPT ![c] = "armed"] /\ UNCHANGED <<phase, at>>
    BY <1>2 DEF ClaimSlot
  <2>2. CASE at[c] = i
    <3>1. Holds(c, i)'
      BY <1>0, <2>1, <2>2 DEF Holds
    <3>2. phase[c] = "status" => slotMsg'[i] = c
      BY <1>0, <1>2, <2>2 DEF ClaimSlot
    <3>3. phase[c] # "status" => slotType'[i] # StatusType
      <4>1. ASSUME phase[c] # "status"
            PROVE  ResponseOf[cmd[c]] \in Responses
        BY <2>1, <4>1, MessageFacts DEF IInv, TypeOK, CallOK
      <4>. QED  BY <1>0, <1>2, <2>2, <4>1, TypesAssumption DEF ClaimSlot, Awaited
    <3>. QED  BY <2>1, <3>1, <3>2, <3>3 DEF SlotOK
  <2>3. CASE at[c] # i
    <3>1. slotType'[i] = slotType[i] /\ slotMsg'[i] = slotMsg[i]
      BY <1>0, <1>2, <2>3 DEF ClaimSlot
    <3>2. \A d \in Clients : Holds(d, i) => Holds(d, i)' /\ phase'[d] = phase[d]
      BY <1>0, <2>1 DEF Holds
    <3>. QED  BY <1>0, <3>1, <3>2, SlotsKept
  <2>. QED  BY <2>2, <2>3
<1>3. ASSUME NEW c \in Clients, WaitBits(c) \/ Timeout(c) PROVE SlotOK(i)'
  <2>1. \A d \in Clients : Holds(d, i) => Holds(d, i)' /\ phase'[d] = phase[d]
    <3>1. \E v \in {"blocked", "woken", "expired"} : pc' = [pc EXCEPT ![c] = v]
      BY <1>3 DEF WaitBits, Timeout
    <3>2. UNCHANGED <<phase, at>>
      BY <1>3 DEF WaitBits, Timeout
    <3>. QED  BY <1>0, <3>1, <3>2 DEF Holds
  <2>2. UNCHANGED <<slotType, slotMsg>>
    BY <1>3 DEF WaitBits, Timeout, slotVars
  <2>. QED  BY <1>0, <2>1, <2>2, SlotsKept
<1>4. ASSUME NEW c \in Clients, Disarm(c) PROVE SlotOK(i)'
  <2>1. slotType' = [slotType EXCEPT ![at[c]] = None] /\ UNCHANGED slotMsg
    BY <1>4 DEF Disarm, BitSeen, Release
  <2>2. CASE at[c] = i
    BY <1>0, <2>1, <2>2, TypesAssumption DEF SlotOK, Types
  <2>3. CASE at[c] # i
    <3>1. \A d \in Clients : Holds(d, i) => Holds(d, i)' /\ phase'[d] = phase[d]
      BY <1>4, <2>3, ClientStep DEF Holds, CallStep
    <3>2. slotType'[i] = slotType[i]
      BY <1>0, <2>1, <2>3
    <3>. QED  BY <1>0, <2>1, <3>1, <3>2, SlotsKept
  <2>. QED  BY <2>2, <2>3
\* serialReadTask releases slots and fills them with copies, never with the
\* address of a stack.
<1>5. ASSUME \/ ReaderStep
             \/ UNCHANGED vars
             \/ \E m \in Answers : ReceiveAnswer(m) \/ LoseAnswer(m)
             \/ \E e \in Events : ReceiveEvent(e)
      PROVE  SlotOK(i)'
  <2>1. \A d \in Clients : Holds(d, i) => Holds(d, i)' /\ phase'[d] = phase[d]
    BY <1>5, ReaderMove DEF Holds
  <2>2. CASE MatchOtherStatus
    <3>1. UNCHANGED slotMsg /\ (slotType'[i] = slotType[i] \/ slotType'[i] = None)
      BY <1>0, <2>2 DEF MatchOtherStatus
    <3>. QED  BY <1>0, <2>1, <3>1, SlotsKept, TypesAssumption DEF SlotOK, Types
  <2>3. CASE MatchCopy
    <3>1. /\ slotType'[i] = slotType[i]
          /\ slotMsg'[i] = slotMsg[i] \/ slotMsg'[i] = rx
      BY <1>0, <2>3 DEF MatchCopy, HasRoom, StoreCopy
    <3>2. rx \in Messages
      BY <2>3 DEF MatchCopy, HasRoom, StoreCopy, IInv, ReaderOK
    <3>. QED  BY <1>0, <2>1, <3>1, <3>2, SlotsKept, PointersAssumption
  <2>4. CASE ~MatchOtherStatus /\ ~MatchCopy
    <3>1. UNCHANGED <<slotType, slotMsg>>
      BY <1>5, <2>4 DEF ReaderStep, MatchOtherType, Signal, Dispatch, vars, slotVars,
        ReceiveAnswer, ReceiveEvent, Receive, LoseAnswer
    <3>. QED  BY <1>0, <2>1, <3>1, SlotsKept
  <2>. QED  BY <2>2, <2>3, <2>4
<1>. QED
  BY <1>1, <1>2, <1>3, <1>4, <1>5, StepCases

\* A copy is counted when it is put in a slot and when it is taken out, and a
\* slot given to a new caller can only lose a copy.
LEMMA CopiesStep == IInv /\ [Next]_vars => CopiesAreAllocated'
<1> SUFFICES ASSUME IInv, [Next]_vars PROVE CopiesAreAllocated'
  OBVIOUS
<1>0. /\ slotMsg \in [Slots -> Clients \cup Messages \cup {None, Freed}]
      /\ Cardinality(LiveCopies) <= heapUsed /\ heapUsed \in Nat
      /\ IsFiniteSet(LiveCopies) /\ Cardinality(LiveCopies) \in Nat
  BY LiveCopiesFinite DEF IInv, TypeOK, CopiesAreAllocated
<1>1. ASSUME NEW c \in Clients, TakeStatus(c) PROVE CopiesAreAllocated'
  <2>1. at[c] \in Slots
    BY <1>1 DEF TakeStatus, FreeCopy, IInv, CallOK
  <2>2. CASE slotMsg[at[c]] \in Messages
    <3>1. slotMsg' = [slotMsg EXCEPT ![at[c]] = Freed] /\ heapUsed' = heapUsed - 1
      BY <1>1, <2>2 DEF TakeStatus, FreeCopy
    <3>2. at[c] \in LiveCopies /\ LiveCopies' = LiveCopies \ {at[c]}
      BY <1>0, <2>1, <2>2, <3>1, PointersAssumption DEF LiveCopies
    <3>3. Cardinality(LiveCopies \ {at[c]}) = Cardinality(LiveCopies) - 1
      BY <1>0, <3>2, FS_RemoveElement
    <3>. QED  BY <1>0, <3>1, <3>2, <3>3 DEF CopiesAreAllocated
  <2>3. CASE slotMsg[at[c]] \notin Messages
    <3>1. UNCHANGED <<slotMsg, heapUsed>>
      BY <1>1, <2>3 DEF TakeStatus, FreeCopy
    <3>. QED  BY <1>0, <3>1 DEF CopiesAreAllocated, LiveCopies
  <2>. QED  BY <2>2, <2>3
<1>2. ASSUME NEW c \in Clients, ClaimSlot(c) PROVE CopiesAreAllocated'
  <2>1. UNCHANGED heapUsed
    BY <1>2 DEF ClaimSlot
  <2>2. \A i \in Slots : slotMsg'[i] = slotMsg[i] \/ slotMsg'[i] = c
    BY <1>0, <1>2 DEF ClaimSlot
  <2>3. LiveCopies' \subseteq LiveCopies
    BY <2>2, PointersAssumption DEF LiveCopies
  <2>4. Cardinality(LiveCopies') <= Cardinality(LiveCopies)
        /\ Cardinality(LiveCopies') \in Nat
    BY <1>0, <2>3, FS_Subset, FS_CardinalityType
  <2>. QED  BY <1>0, <2>1, <2>4 DEF CopiesAreAllocated
<1>3. CASE MatchCopy
  <2>1. CASE heapUsed < HeapSize
    <3>1. slotMsg' = [slotMsg EXCEPT ![ri] = rx] /\ heapUsed' = heapUsed + 1
      BY <1>3, <2>1 DEF MatchCopy, HasRoom, StoreCopy
    <3>2. ri \in Slots /\ rx \in Messages
      BY <1>3 DEF MatchCopy, HasRoom, StoreCopy, IInv, ReaderOK, TypeOK
    <3>3. LiveCopies' = LiveCopies \cup {ri}
      BY <1>0, <3>1, <3>2 DEF LiveCopies
    <3>4. Cardinality(LiveCopies \cup {ri}) =
            IF ri \in LiveCopies THEN Cardinality(LiveCopies)
                                ELSE Cardinality(LiveCopies) + 1
      BY <1>0, FS_AddElement
    <3>. QED  BY <1>0, <3>1, <3>3, <3>4 DEF CopiesAreAllocated
  <2>2. CASE ~(heapUsed < HeapSize)
    <3>1. UNCHANGED <<slotMsg, heapUsed>>
      BY <1>3, <2>2 DEF MatchCopy, HasRoom, StoreCopy
    <3>. QED  BY <1>0, <3>1 DEF CopiesAreAllocated, LiveCopies
  <2>. QED  BY <2>1, <2>2
\* The other steps touch neither the slots' pointers nor the heap.
<1>4. CASE /\ ~MatchCopy
           /\ \A c \in Clients : ~TakeStatus(c) /\ ~ClaimSlot(c)
  <2>1. UNCHANGED <<slotMsg, heapUsed>>
    BY <1>4 DEF Next, CallStep, ReaderStep, Stopped, vars, slotVars, Begin, TakeTxMutex,
        MutexFree, LoadFrame, FlushFrame, GiveMutex, SkipSlot, NoFreeSlot, WaitBits,
        Timeout, Disarm, BitSeen, Release, TakeResponse, ReceiveAnswer, ReceiveEvent,
        Receive, LoseAnswer, MatchOtherType, MatchOtherStatus, Signal, Dispatch
  <2>. QED  BY <1>0, <2>1 DEF CopiesAreAllocated, LiveCopies
<1>. QED  BY <1>1, <1>2, <1>3, <1>4

-----------------------------------------------------------------------------
(* The scan for a free slot.  A client goes past slot k only when the slot  *)
(* is taken, and then another client is at k: the further the slot, the     *)
(* fewer the clients that can be there or beyond.                           *)

Ahead(k) == {c \in Clients : at[c] >= k}

ScanOK ==
  Cardinality(Clients) <= NSlots
    => \A k \in 1..(NSlots + 1) : Cardinality(Ahead(k)) <= NSlots - k + 1

LEMMA AheadFinite ==
  ASSUME NEW k
  PROVE  /\ IsFiniteSet(Ahead(k)) /\ Cardinality(Ahead(k)) \in Nat
         /\ Ahead(k) \subseteq Clients
         /\ Cardinality(Ahead(k)) <= Cardinality(Clients)
         /\ Cardinality(Clients) \in Nat
<1>1. Ahead(k) \in SUBSET Clients
  BY DEF Ahead
<1>. QED  BY <1>1, ClientsAssumption, FS_Subset, FS_CardinalityType

\* When a client skips slot k, it and the holder of k were both at k.
LEMMA SkipLeavesTwo ==
  ASSUME IInv, NEW c \in Clients, SkipSlot(c)
  PROVE  /\ at[c] + 1 \in 1..(NSlots + 1)
         /\ Cardinality(Ahead(at[c] + 1)) + 2 <= Cardinality(Ahead(at[c]))
<1>0. at \in [Clients -> 1..(NSlots + 1)] /\ at[c] \in Slots /\ pc[c] = "scan"
  BY DEF IInv, TypeOK, SkipSlot
<1>1. PICK w \in Clients : Holds(w, at[c])
  BY DEF IInv, ArmedSlotIsHeld, SkipSlot
<1>2. w # c /\ at[w] = at[c]
  BY <1>0, <1>1 DEF Holds
<1>. DEFINE S == Ahead(at[c])
<1>3. c \in S /\ w \in S \ {c}
  BY <1>0, <1>2, BoundsAssumption DEF Ahead, Slots
<1>4. /\ IsFiniteSet(S \ {c}) /\ Cardinality(S \ {c}) = Cardinality(S) - 1
      /\ IsFiniteSet((S \ {c}) \ {w})
      /\ Cardinality((S \ {c}) \ {w}) = Cardinality(S \ {c}) - 1
  <2>1. IsFiniteSet(S)
    BY AheadFinite
  <2>2. IsFiniteSet(S \ {c}) /\ Cardinality(S \ {c}) = Cardinality(S) - 1
    BY <1>3, <2>1, FS_RemoveElement
  <2>. QED  BY <1>3, <2>2, FS_RemoveElement
<1>5. Ahead(at[c] + 1) \subseteq (S \ {c}) \ {w}
  BY <1>0, <1>2, BoundsAssumption DEF Ahead, Slots
<1>6. Cardinality(Ahead(at[c] + 1)) <= Cardinality((S \ {c}) \ {w})
  BY <1>4, <1>5, FS_Subset
<1>7. Cardinality(Ahead(at[c] + 1)) \in Nat /\ Cardinality(S) \in Nat
  BY AheadFinite
<1>8. at[c] + 1 \in 1..(NSlots + 1)
  BY <1>0, BoundsAssumption DEF Slots
<1>9. Cardinality(Ahead(at[c] + 1)) + 2 <= Cardinality(S)
  <2>. HIDE DEF S
  <2>. QED  BY <1>4, <1>6, <1>7
<1>. QED  BY <1>8, <1>9

\* A step that moves no client further along the slots keeps ScanOK.
LEMMA NobodyAdvances ==
  ASSUME ScanOK, at \in [Clients -> 1..(NSlots + 1)],
         \A c \in Clients : at'[c] = at[c] \/ at'[c] = 1
  PROVE  ScanOK'
<1>. SUFFICES ASSUME Cardinality(Clients) <= NSlots, NEW k \in 1..(NSlots + 1)
              PROVE  Cardinality(Ahead(k)') <= NSlots - k + 1
  BY DEF ScanOK
<1>1. CASE k = 1
  <2>1. Ahead(k)' \in SUBSET Clients
    BY DEF Ahead
  <2>2. /\ Cardinality(Ahead(k)') <= Cardinality(Clients)
        /\ Cardinality(Ahead(k)') \in Nat /\ Cardinality(Clients) \in Nat
    BY <2>1, ClientsAssumption, FS_Subset, FS_CardinalityType
  <2>. QED  BY <1>1, <2>2, BoundsAssumption
<1>2. CASE k # 1
  <2>1. Ahead(k)' \subseteq Ahead(k)
    BY <1>2, BoundsAssumption DEF Ahead
  <2>2. /\ Cardinality(Ahead(k)') <= Cardinality(Ahead(k))
        /\ Cardinality(Ahead(k)') \in Nat /\ Cardinality(Ahead(k)) \in Nat
    BY <2>1, AheadFinite, FS_Subset, FS_CardinalityType
  <2>3. Cardinality(Ahead(k)) <= NSlots - k + 1
    BY DEF ScanOK
  <2>. QED  BY <2>2, <2>3, BoundsAssumption
<1>. QED  BY <1>1, <1>2

LEMMA ScanStep == IInv /\ ScanOK /\ [Next]_vars => ScanOK'
<1> SUFFICES ASSUME IInv, ScanOK, [Next]_vars PROVE ScanOK'
  OBVIOUS
<1>0. at \in [Clients -> 1..(NSlots + 1)]
  BY DEF IInv, TypeOK
<1>1. ASSUME NEW c \in Clients, SkipSlot(c) PROVE ScanOK'
  <2>. SUFFICES ASSUME Cardinality(Clients) <= NSlots, NEW k \in 1..(NSlots + 1)
                PROVE  Cardinality(Ahead(k)') <= NSlots - k + 1
    BY DEF ScanOK
  <2>1. /\ at' = [at EXCEPT ![c] = @ + 1] /\ at[c] \in Slots
        /\ at[c] \in 1..(NSlots + 1) /\ at[c] + 1 \in 1..(NSlots + 1)
    BY <1>0, <1>1, SkipLeavesTwo DEF SkipSlot
  <2>2. CASE k = at[c] + 1
    <3>1. Ahead(k)' \subseteq Ahead(k) \cup {c}
      BY <1>0, <2>1 DEF Ahead
    <3>2. /\ IsFiniteSet(Ahead(k) \cup {c})
          /\ Cardinality(Ahead(k) \cup {c}) <= Cardinality(Ahead(k)) + 1
          /\ Cardinality(Ahead(k) \cup {c}) \in Nat
      <4>1. IsFiniteSet(Ahead(k)) /\ Cardinality(Ahead(k)) \in Nat
        BY AheadFinite
      <4>2. /\ IsFiniteSet(Ahead(k) \cup {c})
            /\ \/ Cardinality(Ahead(k) \cup {c}) = Cardinality(Ahead(k))
               \/ Cardinality(Ahead(k) \cup {c}) = Cardinality(Ahead(k)) + 1
        BY <4>1, FS_AddElement
      <4>. QED  BY <4>1, <4>2
    <3>3. /\ Cardinality(Ahead(k)') <= Cardinality(Ahead(k) \cup {c})
          /\ Cardinality(Ahead(k)') \in Nat
      BY <3>1, <3>2, FS_Subset, FS_CardinalityType
    <3>4. Cardinality(Ahead(at[c])) <= NSlots - at[c] + 1
      BY <2>1 DEF ScanOK
    <3>5. Cardinality(Ahead(k)) + 2 <= Cardinality(Ahead(at[c]))
      BY <1>1, <2>2, SkipLeavesTwo
    <3>6. Cardinality(Ahead(k)) \in Nat /\ Cardinality(Ahead(at[c])) \in Nat
      BY AheadFinite
    <3>. QED  BY <2>1, <2>2, <3>2, <3>3, <3>4, <3>5, <3>6, BoundsAssumption
  <2>3. CASE k # at[c] + 1
    <3>1. Ahead(k)' = Ahead(k)
      BY <1>0, <2>1, <2>3, BoundsAssumption DEF Ahead, Slots
    <3>. QED  BY <3>1 DEF ScanOK
  <2>. QED  BY <2>2, <2>3
<1>2. ASSUME NEW c \in Clients,
             \/ TakeTxMutex(c) \/ LoadFrame(c) \/ FlushFrame(c) \/ ClaimSlot(c)
             \/ NoFreeSlot(c) \/ WaitBits(c) \/ Timeout(c) \/ Disarm(c)
             \/ TakeStatus(c) \/ TakeResponse(c)
             \/ \E k \in Commands : Begin(c, k)
      PROVE  ScanOK'
  <2>1. at' = at \/ at' = [at EXCEPT ![c] = 1]
    BY <1>2 DEF TakeTxMutex, MutexFree, LoadFrame, FlushFrame, GiveMutex, ClaimSlot,
        NoFreeSlot, WaitBits, Timeout, Disarm, BitSeen, Release, TakeStatus, FreeCopy,
        TakeResponse, Begin, Return, EnterWait, AfterStatusOK
  <2>. QED  BY <1>0, <2>1, NobodyAdvances
<1>3. ASSUME \/ ReaderStep
             \/ UNCHANGED vars
             \/ \E m \in Answers : ReceiveAnswer(m) \/ LoseAnswer(m)
             \/ \E e \in Events : ReceiveEvent(e)
      PROVE  ScanOK'
  BY <1>0, <1>3, ReaderMove, NobodyAdvances
<1>. QED  BY <1>1, <1>2, <1>3, StepCases

-----------------------------------------------------------------------------
(* The theorems.                                                           *)

LEMMA InitOK == Init => IInv
<1> SUFFICES ASSUME Init PROVE IInv
  OBVIOUS
<1>1. TypeOK
  <2>1. /\ 1 \in Slots /\ 1 \in 1..(NSlots + 1)
        /\ 0 \in 0..HeapSize /\ 0 \in 0..MaxInFlight
    BY BoundsAssumption DEF Slots
  <2>2. /\ pc \in [Clients -> PcValues]
        /\ cmd \in [Clients -> Commands \cup {None}]
        /\ phase \in [Clients -> {"status", "response"}]
        /\ at \in [Clients -> 1..(NSlots + 1)]
    BY <2>1 DEF Init, PcValues
  <2>3. /\ slotType \in [Slots -> {None, StatusType} \cup Responses]
        /\ slotMsg \in [Slots -> Clients \cup Messages \cup {None, Freed}]
        /\ bits \in [Slots -> BOOLEAN]
    BY DEF Init
  <2>4. inflight \in [Answers -> 0..MaxInFlight]
    BY <2>1 DEF Init
  <2>. QED  BY <2>1, <2>2, <2>3, <2>4 DEF Init, TypeOK
<1>2. MutexOK /\ CallOK /\ ReaderOK /\ OwnFrame
  BY ClientsAssumption DEF Init, MutexOK, CallOK, ReaderOK, OwnFrame
<1>3. ArmedSlotIsHeld /\ NoDanglingBuffer
  BY ClientsAssumption DEF Init, ArmedSlotIsHeld, NoDanglingBuffer
<1>4. LiveCopies = {}
  BY PointersAssumption DEF Init, LiveCopies
<1>5. CopiesAreAllocated
  BY <1>4, FS_EmptySet DEF Init, CopiesAreAllocated
<1>. QED  BY <1>1, <1>2, <1>3, <1>5 DEF IInv

LEMMA IInvStep == IInv /\ [Next]_vars => IInv'
BY TypeStep, FrameStep, LocalsInvStep, ReaderOKStep, SlotStep, CopiesStep DEF IInv

LEMMA Invariance == Spec => []IInv
BY InitOK, IInvStep, PTL DEF Spec

\* Type correctness: in particular the scan never runs further than one past
\* the last slot and the count of copies stays within the heap.
THEOREM TypeCorrect == Spec => []TypeOK
<1>1. IInv => TypeOK
  BY DEF IInv
<1>. QED  BY <1>1, Invariance, PTL

\* Whatever times out, is late or is released, no slot of asReaderMessageQueue is
\* lost: a slot with a type in it is held by a call.
THEOREM NoSlotLeaks == Spec => []ArmedSlotIsHeld
<1>1. IInv => ArmedSlotIsHeld
  BY DEF IInv
<1>. QED  BY <1>1, Invariance, PTL

\* txMessageMutex makes loading and sending a frame one step for the others.
THEOREM FramesAreOwn == Spec => []OwnFrame
<1>1. IInv => OwnFrame
  BY DEF IInv
<1>. QED  BY <1>1, Invariance, PTL

\* serialReadTask never compares a status with the stack of a returned call.
THEOREM NoStaleStack == Spec => []NoDanglingBuffer
<1>1. IInv => NoDanglingBuffer
  BY DEF IInv
<1>. QED  BY <1>1, Invariance, PTL

\* eSL_MessageWait finds a slot whenever there are no more callers than slots,
\* for any numbers of both.
THEOREM SlotsAlwaysSuffice == Spec => []SlotsSuffice
<1>1. Init => ScanOK
  <2>. SUFFICES ASSUME Init PROVE ScanOK
    OBVIOUS
  <2>1. at \in [Clients -> 1..(NSlots + 1)] /\ \A c \in Clients : at[c] = 1
    BY BoundsAssumption DEF Init
  <2>2. \A k \in 1..(NSlots + 1) : k # 1 => Ahead(k) = {}
    BY <2>1, BoundsAssumption DEF Ahead
  <2>3. Cardinality(Ahead(1)) <= Cardinality(Clients) /\ Cardinality(Ahead(1)) \in Nat
        /\ Cardinality(Clients) \in Nat
    BY AheadFinite
  <2>4. \A k \in 1..(NSlots + 1) : k # 1 => Cardinality(Ahead(k)) = 0
    BY <2>2, FS_EmptySet
  <2>5. ASSUME Cardinality(Clients) <= NSlots, NEW k \in 1..(NSlots + 1)
        PROVE  Cardinality(Ahead(k)) <= NSlots - k + 1
    <3>1. CASE k = 1
      BY <2>3, <2>5, <3>1, BoundsAssumption
    <3>2. CASE k # 1
      BY <2>4, <3>2, BoundsAssumption
    <3>. QED  BY <3>1, <3>2
  <2>. QED  BY <2>5 DEF ScanOK
<1>2. IInv /\ ScanOK => SlotsSuffice
  <2>. SUFFICES ASSUME IInv, ScanOK, Cardinality(Clients) <= NSlots, NEW c \in Clients
                PROVE  at[c] \in Slots
    BY DEF SlotsSuffice
  <2>1. at[c] \in 1..(NSlots + 1)
    BY DEF IInv, TypeOK
  <2>2. NSlots + 1 \in 1..(NSlots + 1) /\ NSlots - (NSlots + 1) + 1 = 0
    BY BoundsAssumption
  <2>3. Cardinality(Ahead(NSlots + 1)) = 0
    BY <2>2, AheadFinite DEF ScanOK
  <2>4. Ahead(NSlots + 1) = {}
    BY <2>3, AheadFinite, FS_EmptySet
  <2>5. ~(at[c] >= NSlots + 1)
    BY <2>4 DEF Ahead
  <2>. QED  BY <2>1, <2>5, BoundsAssumption DEF Slots
<1>. QED  BY <1>1, <1>2, Invariance, ScanStep, PTL DEF Spec

-----------------------------------------------------------------------------
(* The history: who is spoiled, and where the copies are.                  *)

\* Two calls at one slot spoil each other.
AloneOK ==
  /\ spoiled \subseteq Clients
  /\ \A c, d \in Clients :
       c # d /\ AtSlot(c) /\ AtSlot(d) /\ at[c] = at[d] => c \in spoiled

\* What client c, alone at its slot since a clean claim, finds there.
WaitOK(c) ==
  /\ phase[c] = "status" => slotMsg[at[c]] = c \/ OwnCopy(c)
  /\ slotType[at[c]] \in {None, Awaited(c)}
  /\ pc[c] \in {"woken", "collect"} \/ LeftOverBit(at[c]) => OwnCopy(c)

WaitsOK == \A c \in Clients : AtSlot(c) /\ c \notin spoiled => WaitOK(c)

\* Every allocated copy is in a slot or was overwritten there, and one in a slot
\* without a call was left there.
CopiesOK ==
  /\ overwritten \in Nat
  /\ heapUsed = Cardinality(LiveCopies) + overwritten
  /\ left \subseteq LiveCopies
  /\ \A i \in LiveCopies : i \in left \/ CallsAt(i) # {}

HistInv == AloneOK /\ WaitsOK /\ CopiesOK

\* A step of HistSpec is a step of Spec, so that all of the above holds of it.
LEMMA HistRefines ==
  /\ HistInit => Init
  /\ [HistNext]_<<vars, history>> => [Next]_vars
BY DEF HistInit, HistNext

\* The effect of a claim, and of every other step, on who is spoiled.
LEMMA SpoiledStep ==
  ASSUME IInv, AloneOK, HistNext
  PROVE  /\ \A c \in Clients : ClaimSlot(c) =>
              /\ Claims(c)
              /\ c \in spoiled' <=> CallsAt(at[c]) # {} \/ LeftOverBit(at[c])
              /\ \A d \in CallsAt(at[c]) : d \in spoiled'
         /\ \A d \in Clients : ~Claims(d) /\ d \in spoiled => d \in spoiled'
         /\ spoiled' \subseteq Clients
<1>0. pc \in [Clients -> PcValues]
  BY DEF IInv, TypeOK
<1>1. spoiled' = {d \in Clients :
       IF Claims(d) THEN CallsAt(at[d]) # {} \/ LeftOverBit(at[d])
       ELSE \/ d \in spoiled
            \/ \E c \in Clients : Claims(c) /\ d \in CallsAt(at[c])}
  BY DEF HistNext, RecordSpoiled
<1>2. ASSUME NEW c \in Clients, ClaimSlot(c)
      PROVE  /\ Claims(c)
             /\ c \in spoiled' <=> CallsAt(at[c]) # {} \/ LeftOverBit(at[c])
             /\ \A d \in CallsAt(at[c]) : d \in spoiled'
  <2>1. Claims(c)
    BY <1>0, <1>2 DEF ClaimSlot, Claims
  <2>2. \A d \in CallsAt(at[c]) : d \in Clients /\ ~Claims(d)
    BY DEF CallsAt, AtSlot, Claims
  <2>. QED  BY <1>1, <2>1, <2>2
<1>3. \A d \in Clients : ~Claims(d) /\ d \in spoiled => d \in spoiled'
  BY <1>1
<1>. QED  BY <1>1, <1>2, <1>3

\* A client gets to a slot by a claim only, and stays there with what it had.
LEMMA AtSlotStep ==
  ASSUME IInv, [Next]_vars, NEW d \in Clients, AtSlot(d)'
  PROVE  /\ UNCHANGED <<at[d], cmd[d], phase[d]>>
         /\ ~ClaimSlot(d) => AtSlot(d)
         /\ ClaimSlot(d) => ~AtSlot(d)
<1>0. /\ pc \in [Clients -> PcValues] /\ cmd \in [Clients -> Commands \cup {None}]
      /\ phase \in [Clients -> {"status", "response"}]
      /\ at \in [Clients -> 1..(NSlots + 1)]
  BY DEF IInv, TypeOK
<1>. USE DEF AtSlot
<1>1. ASSUME NEW c \in Clients, CallStep(c) \/ \E k \in Commands : Begin(c, k), c # d
      PROVE  /\ UNCHANGED <<at[d], cmd[d], phase[d]>>
             /\ AtSlot(d)
             /\ ~ClaimSlot(d)
  <2>1. pc'[d] = pc[d]
    BY <1>1, ClientStep
  <2>2. AtSlot(d)
    BY <2>1
  <2>. QED  BY <1>1, <2>1, <2>2, ClientStep DEF ClaimSlot
<1>2. ASSUME CallStep(d) \/ \E k \in Commands : Begin(d, k)
      PROVE  /\ UNCHANGED <<at[d], cmd[d], phase[d]>>
             /\ ~ClaimSlot(d) => AtSlot(d)
             /\ ClaimSlot(d) => ~AtSlot(d)
  <2>1. CASE ClaimSlot(d)
    <3>1. pc[d] = "scan" /\ UNCHANGED <<at, cmd, phase>>
      BY <2>1 DEF ClaimSlot
    <3>. QED  BY <2>1, <3>1
  <2>2. CASE WaitBits(d)
    <3>1. pc[d] = "armed" /\ UNCHANGED <<at, cmd, phase>>
      BY <2>2 DEF WaitBits
    <3>. QED  BY <3>1 DEF ClaimSlot
  <2>3. CASE Timeout(d)
    <3>1. pc[d] = "blocked" /\ UNCHANGED <<at, cmd, phase>>
      BY <2>3 DEF Timeout
    <3>. QED  BY <3>1 DEF ClaimSlot
  <2>4. CASE Disarm(d)
    <3>1. CASE Return(d)
      BY <1>0, <3>1 DEF Return
    <3>2. CASE ~Return(d)
      BY <1>0, <2>4, <3>2 DEF Disarm, BitSeen, Release, ClaimSlot
    <3>. QED  BY <3>1, <3>2
  <2>5. CASE TakeTxMutex(d) \/ LoadFrame(d) \/ SkipSlot(d)
             \/ \E k \in Commands : Begin(d, k)
    BY <1>0, <2>5 DEF TakeTxMutex, MutexFree, LoadFrame, SkipSlot, Begin
  <2>6. CASE FlushFrame(d) \/ NoFreeSlot(d) \/ TakeStatus(d) \/ TakeResponse(d)
    <3>1. pc[d] # "idle" /\ (Return(d) \/ EnterWait(d, "status") \/ AfterStatusOK(d))
      BY <2>6 DEF FlushFrame, GiveMutex, NoFreeSlot, TakeStatus, FreeCopy, TakeResponse
    <3>2. pc' = [pc EXCEPT ![d] = "idle"] \/ pc' = [pc EXCEPT ![d] = "scan"]
      BY <3>1, CallEnds
    <3>. QED  BY <1>0, <3>2
  <2>. QED  BY <1>2, <2>1, <2>2, <2>3, <2>4, <2>5, <2>6 DEF CallStep
<1>3. ASSUME \/ ReaderStep
             \/ UNCHANGED vars
             \/ \E m \in Answers : ReceiveAnswer(m) \/ LoseAnswer(m)
             \/ \E e \in Events : ReceiveEvent(e)
      PROVE  /\ UNCHANGED <<at[d], cmd[d], phase[d]>>
             /\ AtSlot(d)
             /\ ~ClaimSlot(d)
  <2>1. /\ pc'[d] = pc[d] \/ (pc[d] = "blocked" /\ pc'[d] = "woken")
        /\ UNCHANGED <<cmd, phase, at>>
    BY <1>3, ReaderMove
  <2>. QED  BY <2>1 DEF ClaimSlot
<1>. QED  BY <1>1, <1>2, <1>3 DEF Next, Stopped

LEMMA AloneStep == IInv /\ AloneOK /\ HistNext => AloneOK'
<1>. SUFFICES ASSUME IInv, AloneOK, HistNext PROVE AloneOK'
  OBVIOUS
<1>0. [Next]_vars
  BY DEF HistNext
<1>. SUFFICES ASSUME NEW c \in Clients, NEW d \in Clients, c # d,
                     AtSlot(c)', AtSlot(d)', at'[c] = at'[d]
              PROVE  c \in spoiled'
  BY SpoiledStep DEF AloneOK
<1>1. at[c] = at[d]
  BY <1>0, AtSlotStep
<1>2. CASE ClaimSlot(c)
  <2>1. ~ClaimSlot(d)
    BY <1>2 DEF ClaimSlot, IInv, TypeOK
  <2>2. d \in CallsAt(at[c])
    BY <1>0, <1>1, <2>1, AtSlotStep DEF CallsAt
  <2>. QED  BY <1>2, <2>2, SpoiledStep
<1>3. CASE ~ClaimSlot(c)
  <2>1. AtSlot(c)
    BY <1>0, <1>3, AtSlotStep
  <2>2. CASE ClaimSlot(d)
    <3>1. c \in CallsAt(at[d])
      BY <1>1, <2>1 DEF CallsAt
    <3>. QED  BY <2>2, <3>1, SpoiledStep
  <2>3. CASE ~ClaimSlot(d)
    <3>1. AtSlot(d)
      BY <1>0, <2>3, AtSlotStep
    <3>2. c \in spoiled
      BY <1>1, <2>1, <3>1 DEF AloneOK
    <3>. QED  BY <2>1, <3>2, SpoiledStep DEF Claims, AtSlot
  <2>. QED  BY <2>2, <2>3
<1>. QED  BY <1>2, <1>3

\* A step that changes nothing at the slot of d keeps what d finds there.
LEMMA WaitKept ==
  ASSUME NEW d \in Clients, WaitOK(d), UNCHANGED <<at[d], cmd[d], phase[d]>>,
         slotMsg'[at[d]] = slotMsg[at[d]],
         slotType'[at[d]] \in {None, slotType[at[d]]},
         pc'[d] \in {"woken", "collect"} \/ LeftOverBit(at[d])'
           => pc[d] \in {"woken", "collect"} \/ LeftOverBit(at[d])
  PROVE  WaitOK(d)'
<1>1. Awaited(d)' = Awaited(d)
  BY DEF Awaited
<1>2. OwnCopy(d)' <=> OwnCopy(d)
  BY <1>1 DEF OwnCopy
<1>. QED  BY <1>1, <1>2 DEF WaitOK

\* A client at its slot in the steps of another client at another slot.
LEMMA OtherClient ==
  ASSUME IInv, NEW c \in Clients, NEW d \in Clients, c # d,
         CallStep(c) \/ \E k \in Commands : Begin(c, k),
         AtSlot(d), WaitOK(d),
         AtSlot(c) \/ ClaimSlot(c) => at[c] # at[d]
  PROVE  WaitOK(d)'
<1>0. /\ UNCHANGED <<pc[d], at[d], cmd[d], phase[d]>>
      /\ at[d] \in Slots
  BY ClientStep DEF IInv, CallOK, AtSlot
<1>1. UNCHANGED <<rpc, ri>>
  BY DEF CallStep, Begin, TakeTxMutex, MutexFree, LoadFrame, FlushFrame, GiveMutex, ClaimSlot,
      SkipSlot, NoFreeSlot, WaitBits, Timeout, Disarm, TakeStatus, TakeResponse, readerVars
<1>2. /\ slotType'[at[d]] = slotType[at[d]]
      /\ slotMsg'[at[d]] = slotMsg[at[d]]
      /\ bits'[at[d]] = bits[at[d]]
  <2>0. /\ slotType \in [Slots -> {None, StatusType} \cup Responses]
        /\ slotMsg \in [Slots -> Clients \cup Messages \cup {None, Freed}]
        /\ bits \in [Slots -> BOOLEAN]
    BY DEF IInv, TypeOK
  <2>1. CASE ClaimSlot(c)
    BY <1>0, <2>0, <2>1 DEF ClaimSlot
  <2>2. CASE WaitBits(c)
    BY <1>0, <2>0, <2>2 DEF WaitBits, AtSlot
  <2>3. CASE Disarm(c)
    BY <1>0, <2>0, <2>3 DEF Disarm, Release, AtSlot
  <2>4. CASE TakeStatus(c)
    BY <1>0, <2>0, <2>4 DEF TakeStatus, FreeCopy, AtSlot
  <2>5. CASE \/ TakeTxMutex(c) \/ LoadFrame(c) \/ FlushFrame(c) \/ SkipSlot(c)
             \/ NoFreeSlot(c) \/ Timeout(c) \/ TakeResponse(c)
             \/ \E k \in Commands : Begin(c, k)
    BY <2>5 DEF TakeTxMutex, MutexFree, LoadFrame, FlushFrame, GiveMutex, SkipSlot, NoFreeSlot,
        Timeout, TakeResponse, Begin, slotVars
  <2>. QED  BY <2>1, <2>2, <2>3, <2>4, <2>5 DEF CallStep
<1>3. LeftOverBit(at[d])' <=> LeftOverBit(at[d])
  BY <1>0, <1>1, <1>2 DEF LeftOverBit
<1>. QED  BY <1>0, <1>2, <1>3, WaitKept

\* A client in its own steps: it is alone at its slot when it claims it.
LEMMA OwnStep ==
  ASSUME IInv, NEW d \in Clients, AtSlot(d)',
         \/ ClaimSlot(d) /\ ~LeftOverBit(at[d])
         \/ AtSlot(d) /\ WaitOK(d) /\ (WaitBits(d) \/ Timeout(d) \/ Disarm(d))
  PROVE  WaitOK(d)'
<1>0. /\ pc \in [Clients -> PcValues]
      /\ at \in [Clients -> 1..(NSlots + 1)]
      /\ slotType \in [Slots -> {None, StatusType} \cup Responses]
      /\ slotMsg \in [Slots -> Clients \cup Messages \cup {None, Freed}]
      /\ bits \in [Slots -> BOOLEAN]
  BY DEF IInv, TypeOK
<1>1. CASE ClaimSlot(d) /\ ~LeftOverBit(at[d])
  <2>1. /\ at[d] \in Slots /\ UNCHANGED <<cmd, phase, at, bits, rpc, ri>>
        /\ pc' = [pc EXCEPT ![d] = "armed"]
        /\ slotType' = [slotType EXCEPT ![at[d]] = Awaited(d)]
        /\ phase[d] = "status" => slotMsg' = [slotMsg EXCEPT ![at[d]] = d]
    BY <1>1 DEF ClaimSlot, readerVars
  <2>2. pc'[d] = "armed" /\ slotType'[at[d]] = Awaited(d)
        /\ (phase[d] = "status" => slotMsg'[at[d]] = d)
    BY <1>0, <2>1
  <2>3. Awaited(d)' = Awaited(d)
    BY <2>1 DEF Awaited
  <2>4. ~LeftOverBit(at[d])'
    BY <1>1, <2>1 DEF LeftOverBit
  <2>. QED  BY <2>1, <2>2, <2>3, <2>4 DEF WaitOK
<1>2. CASE AtSlot(d) /\ WaitOK(d) /\ WaitBits(d)
  <2>1. /\ UNCHANGED <<cmd, phase, at, slotType, slotMsg, rpc, ri>>
        /\ bits' = [bits EXCEPT ![at[d]] = FALSE]
        /\ pc' = [pc EXCEPT ![d] = IF bits[at[d]] THEN "woken" ELSE "blocked"]
    BY <1>2 DEF WaitBits, readerVars
  <2>2. at[d] \in Slots
    BY <1>2 DEF AtSlot, IInv, CallOK
  <2>3. pc'[d] = (IF bits[at[d]] THEN "woken" ELSE "blocked") /\ bits'[at[d]] = FALSE
    BY <1>0, <2>1, <2>2
  <2>. QED  BY <1>2, <2>1, <2>3, WaitKept DEF LeftOverBit
<1>3. CASE AtSlot(d) /\ WaitOK(d) /\ Timeout(d)
  <2>1. UNCHANGED <<cmd, phase, at, slotVars, rpc, ri>> /\ pc' = [pc EXCEPT ![d] = "expired"]
    BY <1>3 DEF Timeout, readerVars
  <2>2. pc'[d] = "expired"
    BY <1>0, <2>1
  <2>. QED  BY <1>3, <2>1, <2>2, WaitKept DEF LeftOverBit, slotVars
<1>4. CASE AtSlot(d) /\ WaitOK(d) /\ Disarm(d)
  <2>1. pc[d] = "woken"
    BY <1>0, <1>4 DEF Disarm, BitSeen, Release, Return, AtSlot
  <2>2. /\ UNCHANGED <<cmd, phase, at, slotMsg, bits, rpc, ri>>
        /\ slotType' = [slotType EXCEPT ![at[d]] = None]
    BY <1>4, <2>1 DEF Disarm, BitSeen, Release, readerVars
  <2>3. at[d] \in Slots
    BY <2>1 DEF IInv, CallOK
  <2>4. slotType'[at[d]] = None
    BY <1>0, <2>2, <2>3
  <2>. QED  BY <1>4, <2>1, <2>2, <2>4, WaitKept DEF LeftOverBit
<1>. QED  BY <1>1, <1>2, <1>3, <1>4

\* A client at its slot in the steps of serialReadTask: a copy is stored only for
\* the type the slot awaits, and a status only if it is to the caller's command.
LEMMA ReaderAtSlot ==
  ASSUME IInv, NEW d \in Clients, AtSlot(d), WaitOK(d),
         \/ ReaderStep
         \/ UNCHANGED vars
         \/ \E m \in Answers : ReceiveAnswer(m) \/ LoseAnswer(m)
         \/ \E e \in Events : ReceiveEvent(e)
  PROVE  WaitOK(d)'
<1>0. /\ at[d] \in Slots
      /\ slotType \in [Slots -> {None, StatusType} \cup Responses]
      /\ slotMsg \in [Slots -> Clients \cup Messages \cup {None, Freed}]
      /\ bits \in [Slots -> BOOLEAN]
      /\ pc \in [Clients -> PcValues]
      /\ UNCHANGED <<at, cmd, phase>>
      /\ pc'[d] = pc[d] \/ (pc[d] = "blocked" /\ pc'[d] = "woken")
  BY ReaderMove DEF IInv, CallOK, TypeOK, AtSlot
<1>1. CASE \/ MatchOtherType \/ Dispatch \/ UNCHANGED vars
           \/ \E m \in Answers : ReceiveAnswer(m) \/ LoseAnswer(m)
           \/ \E e \in Events : ReceiveEvent(e)
  <2>1. /\ UNCHANGED <<clientVars, slotVars>>
        /\ rpc' = "signal" => UNCHANGED <<rpc, ri>>
    BY <1>1 DEF MatchOtherType, NextSlot, Dispatch, vars, readerVars, ReceiveAnswer, Receive,
        LoseAnswer, ReceiveEvent
  <2>2. LeftOverBit(at[d])' => LeftOverBit(at[d])
    BY <2>1, <1>0 DEF LeftOverBit, slotVars
  <2>. QED  BY <1>0, <2>1, <2>2, WaitKept DEF clientVars, slotVars
<1>2. CASE MatchOtherStatus
  <2>1. /\ UNCHANGED <<clientVars, slotMsg, bits>> /\ rpc' # "signal"
        /\ slotType' = [slotType EXCEPT ![ri] = None]
    BY <1>2 DEF MatchOtherStatus, NextSlot
  <2>2. LeftOverBit(at[d])' => LeftOverBit(at[d])
    BY <2>1, <1>0 DEF LeftOverBit
  <2>3. slotType'[at[d]] \in {None, slotType[at[d]]}
    BY <1>0, <2>1
  <2>. QED  BY <1>0, <2>1, <2>2, <2>3, WaitKept DEF clientVars
<1>3. CASE MatchCopy
  <2>1. /\ rpc = "match" /\ slotType[ri] = rx.type /\ ri \in Slots /\ rx \in Messages
        /\ UNCHANGED <<clientVars, slotType, bits, rx, ri>>
    BY <1>3 DEF MatchCopy, IInv, TypeOK, ReaderOK
  <2>2. CASE ri # at[d] \/ ~(heapUsed < HeapSize)
    <3>1. slotMsg'[at[d]] = slotMsg[at[d]]
      BY <1>0, <1>3, <2>2 DEF MatchCopy, HasRoom, StoreCopy
    <3>2. LeftOverBit(at[d])' => LeftOverBit(at[d])
      BY <1>0, <1>3, <2>1, <2>2 DEF LeftOverBit, MatchCopy, HasRoom
    <3>. QED  BY <1>0, <2>1, <3>1, <3>2, WaitKept DEF clientVars
  <2>3. CASE ri = at[d] /\ heapUsed < HeapSize
    <3>1. slotMsg'[at[d]] = rx
      BY <1>0, <1>3, <2>1, <2>3 DEF MatchCopy, HasRoom, StoreCopy
    <3>2. rx.type # None
      BY <2>1, MessageTyped
    <3>3. rx.type = Awaited(d)
      BY <2>1, <2>3, <3>2 DEF WaitOK
    <3>4. phase[d] = "status" => rx.of = cmd[d]
      <4>. SUFFICES ASSUME phase[d] = "status" PROVE rx.of = cmd[d]
        OBVIOUS
      <4>1. rx.type = StatusType /\ ~Differs(ri)
        BY <1>3, <3>3 DEF MatchCopy, Awaited
      <4>2. slotMsg[ri] = d
        BY <2>3, <4>1 DEF WaitOK, OwnCopy, Differs
      <4>. QED  BY <4>1, <4>2 DEF Differs
    <3>5. Awaited(d)' = Awaited(d)
      BY <1>0 DEF Awaited
    <3>6. OwnCopy(d)'
      BY <1>0, <2>1, <3>1, <3>3, <3>4, <3>5 DEF OwnCopy
    <3>. QED  BY <1>0, <2>1, <3>5, <3>6 DEF WaitOK
  <2>. QED  BY <2>2, <2>3
<1>4. CASE Signal
  <2>1. /\ rpc = "signal" /\ rpc' = "dispatch" /\ ri \in Slots
        /\ UNCHANGED <<slotType, slotMsg>>
        /\ \E b \in BOOLEAN : bits' = [bits EXCEPT ![ri] = b]
        /\ pc'[d] = "woken" => pc[d] = "woken" \/ at[d] = ri
    BY <1>4 DEF Signal, IInv, TypeOK
  <2>2. LeftOverBit(at[d])' => LeftOverBit(at[d])
    BY <1>0, <2>1 DEF LeftOverBit
  <2>3. pc'[d] \in {"woken", "collect"} => pc[d] \in {"woken", "collect"} \/ LeftOverBit(at[d])
    BY <1>0, <2>1 DEF LeftOverBit
  <2>. QED  BY <1>0, <2>1, <2>2, <2>3, WaitKept
<1>. QED  BY <1>1, <1>2, <1>3, <1>4 DEF ReaderStep

LEMMA WaitsStep == IInv /\ AloneOK /\ WaitsOK /\ HistNext => WaitsOK'
<1>. SUFFICES ASSUME IInv, AloneOK, WaitsOK, HistNext,
                     NEW d \in Clients, AtSlot(d)', d \notin spoiled'
              PROVE  WaitOK(d)'
  BY DEF WaitsOK
<1>0. [Next]_vars
  BY DEF HistNext
<1>1. CASE ClaimSlot(d)
  BY <1>1, SpoiledStep, OwnStep
<1>2. CASE ~ClaimSlot(d)
  <2>1. AtSlot(d)
    BY <1>0, <1>2, AtSlotStep
  <2>2. d \notin spoiled
    BY <2>1, SpoiledStep DEF Claims, AtSlot
  <2>3. WaitOK(d)
    BY <2>1, <2>2 DEF WaitsOK
  <2>4. ASSUME NEW c \in Clients, CallStep(c) \/ \E k \in Commands : Begin(c, k), c # d
        PROVE  WaitOK(d)'
    <3>1. AtSlot(c) => at[c] # at[d]
      BY <2>1, <2>2, <2>4 DEF AloneOK
    <3>2. ClaimSlot(c) => at[c] # at[d]
      BY <2>1, SpoiledStep DEF CallsAt
    <3>. QED  BY <2>1, <2>3, <2>4, <3>1, <3>2, OtherClient
  <2>5. ASSUME CallStep(d) \/ \E k \in Commands : Begin(d, k)
        PROVE  WaitOK(d)'
    <3>1. WaitBits(d) \/ Timeout(d) \/ Disarm(d)
      <4>1. CASE \/ TakeTxMutex(d) \/ LoadFrame(d) \/ SkipSlot(d)
                 \/ FlushFrame(d) \/ NoFreeSlot(d) \/ \E k \in Commands : Begin(d, k)
        BY <2>1, <4>1 DEF AtSlot, TakeTxMutex, LoadFrame, SkipSlot, FlushFrame, NoFreeSlot, Begin
      <4>2. CASE TakeStatus(d) \/ TakeResponse(d)
        <5>1. pc[d] # "idle" /\ (Return(d) \/ AfterStatusOK(d))
          BY <4>2 DEF TakeStatus, TakeResponse
        <5>2. pc' = [pc EXCEPT ![d] = "idle"] \/ pc' = [pc EXCEPT ![d] = "scan"]
          BY <5>1, CallEnds
        <5>. QED  BY <5>2 DEF AtSlot, IInv, TypeOK
      <4>. QED  BY <1>2, <2>5, <4>1, <4>2 DEF CallStep
    <3>. QED  BY <2>1, <2>3, <3>1, OwnStep
  <2>. QED  BY <1>0, <2>1, <2>3, <2>4, <2>5, ReaderAtSlot DEF Next, Stopped
<1>. QED  BY <1>1, <1>2

-----------------------------------------------------------------------------
(* Where the copies are.                                                   *)

\* No pointer to a copy is replaced but by a claim and by a new copy.
LEMMA Unreplaced ==
  ASSUME IInv, [Next]_vars, ~MatchCopy, \A c \in Clients : ~ClaimSlot(c),
         NEW i \in Slots
  PROVE  /\ ~Replaced(i)
         /\ slotMsg'[i] = slotMsg[i] \/ slotMsg'[i] = Freed
<1>0. slotMsg \in [Slots -> Clients \cup Messages \cup {None, Freed}]
  BY DEF IInv, TypeOK
<1>1. ASSUME NEW c \in Clients, TakeStatus(c)
      PROVE  /\ UNCHANGED rpc
             /\ slotMsg'[i] = slotMsg[i] \/ slotMsg'[i] = Freed
  BY <1>0, <1>1 DEF TakeStatus, FreeCopy, readerVars
<1>2. ASSUME \A c \in Clients : ~TakeStatus(c)
      PROVE  /\ slotMsg' = slotMsg
             /\ rpc = "match" => rpc' # "signal"
  BY <1>2 DEF Next, CallStep, ReaderStep, Stopped, vars, slotVars, readerVars, Begin, TakeTxMutex,
      MutexFree, LoadFrame, FlushFrame, GiveMutex, SkipSlot, NoFreeSlot, WaitBits,
      Timeout, Disarm, BitSeen, Release, TakeResponse, ReceiveAnswer, ReceiveEvent,
      Receive, LoseAnswer, MatchOtherType, MatchOtherStatus, NextSlot, Signal, Dispatch
<1>3. /\ slotMsg'[i] = slotMsg[i] \/ slotMsg'[i] = Freed
      /\ rpc = "match" => rpc' # "signal"
  BY <1>1, <1>2
<1>. QED  BY <1>3, PointersAssumption DEF Replaced

\* A claim replaces the pointer in one slot at most.
LEMMA ClaimReplaces ==
  ASSUME IInv, NEW c \in Clients, ClaimSlot(c), NEW i \in Slots
  PROVE  /\ Replaced(i) => i = at[c] /\ slotMsg'[i] = c
         /\ ~Replaced(i) => slotMsg'[i] = slotMsg[i]
<1>1. slotMsg \in [Slots -> Clients \cup Messages \cup {None, Freed}]
  BY DEF IInv, TypeOK
<1>2. at[c] \in Slots /\ UNCHANGED rpc
      /\ (slotMsg' = [slotMsg EXCEPT ![at[c]] = c] \/ slotMsg' = slotMsg)
  BY DEF ClaimSlot, readerVars
<1>. QED  BY <1>1, <1>2 DEF Replaced

LEMMA WhereStep == IInv /\ CopiesOK /\ HistNext => \A i \in LiveCopies' : i \in left' \/ (CallsAt(i) # {})'
<1>. SUFFICES ASSUME IInv, CopiesOK, HistNext, NEW i \in LiveCopies'
              PROVE  i \in left' \/ CallsAt(i)' # {}
  OBVIOUS
<1>0. /\ [Next]_vars /\ i \in Slots /\ slotMsg'[i] \in Messages
      /\ pc \in [Clients -> PcValues]
      /\ slotMsg \in [Slots -> Clients \cup Messages \cup {None, Freed}]
  BY DEF HistNext, LiveCopies, IInv, TypeOK, Slots
<1>1. left' = {j \in Slots :
                /\ slotMsg'[j] \in Messages
                /\ ~Replaced(j)
                /\ j \in left \/ \E c \in CallsAt(j) : LeavesUnread(c)}
  BY DEF HistNext, RecordCopies
<1>2. CASE MatchCopy
  <2>1. UNCHANGED <<pc, at>> /\ ri \in Slots /\ slotType[ri] = rx.type /\ rx \in Messages
    BY <1>2 DEF MatchCopy, clientVars, IInv, TypeOK, ReaderOK
  <2>2. CASE i = ri
    <3>1. slotType[ri] # None
      BY <2>1, MessageTyped
    <3>2. PICK c \in Clients : Holds(c, ri)
      BY <2>1, <3>1 DEF IInv, ArmedSlotIsHeld
    <3>3. c \in CallsAt(i)'
      BY <2>1, <2>2, <3>2 DEF Holds, CallsAt, AtSlot
    <3>. QED  BY <3>3
  <2>3. CASE i # ri
    <3>1. slotMsg'[i] = slotMsg[i] /\ ~Replaced(i)
      BY <1>0, <1>2, <2>3 DEF MatchCopy, HasRoom, StoreCopy, Replaced
    <3>2. i \in LiveCopies
      BY <1>0, <3>1 DEF LiveCopies
    <3>3. CallsAt(i)' = CallsAt(i)
      BY <2>1 DEF CallsAt, AtSlot
    <3>. QED  BY <1>0, <1>1, <3>1, <3>2, <3>3 DEF CopiesOK
  <2>. QED  BY <2>2, <2>3
<1>3. ASSUME NEW c \in Clients, ClaimSlot(c)
      PROVE  i \in left' \/ CallsAt(i)' # {}
  <2>1. ~Replaced(i) /\ slotMsg'[i] = slotMsg[i]
    BY <1>0, <1>3, ClaimReplaces, PointersAssumption
  <2>2. i \in LiveCopies
    BY <1>0, <2>1 DEF LiveCopies
  <2>3. ASSUME NEW d \in CallsAt(i) PROVE d \in CallsAt(i)'
    <3>1. d \in Clients /\ AtSlot(d) /\ pc[c] = "scan" /\ UNCHANGED at /\ pc' = [pc EXCEPT ![c] = "armed"]
      BY <1>3 DEF ClaimSlot, CallsAt
    <3>2. pc'[d] = pc[d]
      BY <1>0, <3>1 DEF AtSlot
    <3>. QED  BY <3>1, <3>2 DEF CallsAt, AtSlot
  <2>. QED  BY <1>0, <1>1, <2>1, <2>2, <2>3 DEF CopiesOK
<1>4. CASE ~MatchCopy /\ \A c \in Clients : ~ClaimSlot(c)
  <2>1. ~Replaced(i) /\ slotMsg'[i] = slotMsg[i]
    BY <1>0, <1>4, Unreplaced, PointersAssumption
  <2>2. i \in LiveCopies
    BY <1>0, <2>1 DEF LiveCopies
  <2>3. ASSUME NEW c \in CallsAt(i), i \notin left'
        PROVE  c \in CallsAt(i)'
    <3>1. c \in Clients /\ AtSlot(c) /\ at[c] = i /\ ~LeavesUnread(c)
      BY <1>0, <1>1, <2>1, <2>3 DEF CallsAt
    <3>2. AtSlot(c)'
      <4>. SUFFICES ASSUME ~AtSlot(c)' PROVE FALSE
        OBVIOUS
      <4>1. pc[c] # "expired" /\ phase[c] # "response"
        BY <3>1 DEF LeavesUnread
      <4>2. ASSUME NEW d \in Clients, CallStep(d) \/ \E k \in Commands : Begin(d, k), d # c
            PROVE  FALSE
        BY <3>1, <4>2, ClientStep DEF AtSlot
      <4>3. ASSUME CallStep(c) \/ \E k \in Commands : Begin(c, k)
            PROVE  FALSE
        <5>1. CASE TakeStatus(c)
          <6>1. slotMsg'[i] = Freed
            BY <1>0, <2>1, <3>1, <5>1 DEF TakeStatus, FreeCopy
          <6>. QED  BY <1>0, <6>1, PointersAssumption
        <5>2. CASE TakeResponse(c)
          BY <4>1, <5>2 DEF TakeResponse
        <5>3. CASE Disarm(c)
          BY <1>0, <3>1, <4>1, <5>3 DEF Disarm, BitSeen, Release, AtSlot
        <5>4. CASE WaitBits(c) \/ Timeout(c)
          BY <1>0, <3>1, <5>4 DEF WaitBits, Timeout, AtSlot
        <5>5. CASE \/ TakeTxMutex(c) \/ LoadFrame(c) \/ SkipSlot(c)
                   \/ FlushFrame(c) \/ NoFreeSlot(c) \/ \E k \in Commands : Begin(c, k)
          BY <3>1, <5>5 DEF AtSlot, TakeTxMutex, LoadFrame, SkipSlot, FlushFrame, NoFreeSlot, Begin
        <5>. QED  BY <1>4, <3>1, <4>3, <5>1, <5>2, <5>3, <5>4, <5>5 DEF CallStep
      <4>4. ASSUME \/ ReaderStep
                   \/ UNCHANGED vars
                   \/ \E m \in Answers : ReceiveAnswer(m) \/ LoseAnswer(m)
                   \/ \E e \in Events : ReceiveEvent(e)
            PROVE  FALSE
        BY <3>1, <4>4, ReaderMove DEF AtSlot
      <4>. QED  BY <1>0, <4>2, <4>3, <4>4 DEF Next, Stopped
    <3>3. at'[c] = at[c]
      BY <1>0, <3>1, <3>2, AtSlotStep
    <3>. QED  BY <3>1, <3>2, <3>3 DEF CallsAt
  <2>. QED  BY <1>0, <1>1, <2>1, <2>2, <2>3 DEF CopiesOK
<1>. QED  BY <1>2, <1>3, <1>4

\* One more copy in the heap is one more in a slot or one more overwritten.
LEMMA CountStep == IInv /\ CopiesOK /\ HistNext => CopiesOK'
<1>. SUFFICES ASSUME IInv, CopiesOK, HistNext PROVE CopiesOK'
  OBVIOUS
<1>. DEFINE Over == {i \in Slots : slotMsg[i] \in Messages /\ Replaced(i)}
<1>0. /\ [Next]_vars
      /\ slotMsg \in [Slots -> Clients \cup Messages \cup {None, Freed}]
      /\ overwritten \in Nat /\ heapUsed \in Nat
      /\ heapUsed = Cardinality(LiveCopies) + overwritten
      /\ IsFiniteSet(LiveCopies) /\ Cardinality(LiveCopies) \in Nat
      /\ overwritten' = overwritten + Cardinality(Over)
  BY LiveCopiesFinite DEF HistNext, IInv, TypeOK, CopiesOK, RecordCopies
<1>1. left' \subseteq LiveCopies'
  BY DEF HistNext, RecordCopies, LiveCopies, Slots
<1>n. Cardinality(LiveCopies') \in Nat
  <2>1. IsFiniteSet(Slots) /\ LiveCopies' \in SUBSET Slots
    BY FS_Interval, BoundsAssumption DEF Slots, LiveCopies
  <2>. QED  BY <2>1, FS_Subset, FS_CardinalityType
<1>2. ASSUME Over = {}, heapUsed' = Cardinality(LiveCopies') + overwritten
      PROVE  overwritten' \in Nat /\ heapUsed' = Cardinality(LiveCopies') + overwritten'
  <2>1. Cardinality(Over) = 0
    BY <1>2, FS_EmptySet
  <2>2. overwritten' = overwritten
    BY <1>0, <2>1
  <2>. QED  BY <1>0, <1>n, <1>2, <2>2
<1>3. ASSUME NEW i \in LiveCopies, Over = {i},
             heapUsed' = Cardinality(LiveCopies') + overwritten + 1
      PROVE  overwritten' \in Nat /\ heapUsed' = Cardinality(LiveCopies') + overwritten'
  <2>1. Cardinality(Over) = 1
    BY <1>3, FS_Singleton
  <2>2. overwritten' = overwritten + 1
    BY <1>0, <2>1
  <2>. QED  BY <1>0, <1>n, <1>3, <2>2
<1>4. overwritten' \in Nat /\ heapUsed' = Cardinality(LiveCopies') + overwritten'
  <2>1. CASE MatchCopy /\ heapUsed < HeapSize
    <3>1. /\ slotMsg' = [slotMsg EXCEPT ![ri] = rx] /\ heapUsed' = heapUsed + 1
          /\ ri \in Slots /\ rx \in Messages /\ rpc = "match" /\ rpc' = "signal"
      BY <2>1 DEF MatchCopy, HasRoom, StoreCopy, IInv, ReaderOK, TypeOK
    <3>2. LiveCopies' = LiveCopies \cup {ri}
      BY <1>0, <3>1 DEF LiveCopies
    <3>3. \A i \in Slots : Replaced(i) <=> i = ri
      BY <1>0, <3>1, PointersAssumption DEF Replaced
    <3>4. CASE ri \in LiveCopies
      <4>1. Over = {ri}
        BY <3>1, <3>3, <3>4 DEF LiveCopies
      <4>2. LiveCopies' = LiveCopies
        BY <3>2, <3>4
      <4>. QED  BY <1>0, <1>3, <3>1, <3>4, <4>1, <4>2
    <3>5. CASE ri \notin LiveCopies
      <4>1. Over = {}
        BY <3>1, <3>3, <3>5 DEF LiveCopies
      <4>2. Cardinality(LiveCopies') = Cardinality(LiveCopies) + 1
        BY <1>0, <3>2, <3>5, FS_AddElement
      <4>. QED  BY <1>0, <1>2, <3>1, <4>1, <4>2
    <3>. QED  BY <3>4, <3>5
  <2>2. CASE MatchCopy /\ ~(heapUsed < HeapSize)
    <3>1. UNCHANGED <<slotMsg, heapUsed, rpc>>
      BY <2>2 DEF MatchCopy, HasRoom
    <3>2. Over = {} /\ LiveCopies' = LiveCopies
      BY <1>0, <3>1 DEF Replaced, LiveCopies
    <3>. QED  BY <1>0, <1>2, <3>1, <3>2
  <2>3. ASSUME NEW c \in Clients, ClaimSlot(c)
        PROVE  overwritten' \in Nat /\ heapUsed' = Cardinality(LiveCopies') + overwritten'
    <3>1. UNCHANGED heapUsed /\ at[c] \in Slots
      BY <2>3 DEF ClaimSlot
    <3>2. CASE at[c] \in Over
      <4>1. Over = {at[c]} /\ at[c] \in LiveCopies /\ slotMsg'[at[c]] = c
        BY <2>3, <3>2, ClaimReplaces DEF LiveCopies
      <4>2. LiveCopies' = LiveCopies \ {at[c]}
        BY <1>0, <2>3, <4>1, ClaimReplaces, PointersAssumption DEF LiveCopies
      <4>3. Cardinality(LiveCopies \ {at[c]}) = Cardinality(LiveCopies) - 1
        BY <1>0, <4>1, FS_RemoveElement
      <4>4. heapUsed' = Cardinality(LiveCopies') + overwritten + 1
        BY <1>0, <1>n, <3>1, <4>2, <4>3
      <4>. QED  BY <1>3, <4>1, <4>4
    <3>3. CASE at[c] \notin Over
      <4>1. Over = {}
        BY <2>3, <3>3, ClaimReplaces
      <4>2. \A i \in Slots : slotMsg'[i] \in Messages <=> slotMsg[i] \in Messages
        BY <2>3, <3>1, <3>3, ClaimReplaces, PointersAssumption
      <4>3. LiveCopies' = LiveCopies
        BY <4>2 DEF LiveCopies
      <4>. QED  BY <1>0, <1>2, <3>1, <4>1, <4>3
    <3>. QED  BY <3>2, <3>3
  <2>4. ASSUME ~MatchCopy, \A c \in Clients : ~ClaimSlot(c)
        PROVE  overwritten' \in Nat /\ heapUsed' = Cardinality(LiveCopies') + overwritten'
    <3>1. Over = {}
      BY <1>0, <2>4, Unreplaced
    <3>2. ASSUME NEW c \in Clients, TakeStatus(c), slotMsg[at[c]] \in Messages
          PROVE  heapUsed' = Cardinality(LiveCopies') + overwritten
      <4>1. slotMsg' = [slotMsg EXCEPT ![at[c]] = Freed] /\ heapUsed' = heapUsed - 1
        BY <3>2 DEF TakeStatus, FreeCopy
      <4>2. at[c] \in LiveCopies /\ LiveCopies' = LiveCopies \ {at[c]}
        BY <1>0, <3>2, <4>1, PointersAssumption DEF LiveCopies, TakeStatus, IInv, CallOK
      <4>3. Cardinality(LiveCopies \ {at[c]}) = Cardinality(LiveCopies) - 1
        BY <1>0, <4>2, FS_RemoveElement
      <4>. QED  BY <1>0, <4>1, <4>2, <4>3
    <3>3. ASSUME \A c \in Clients : ~(TakeStatus(c) /\ slotMsg[at[c]] \in Messages)
          PROVE  heapUsed' = Cardinality(LiveCopies') + overwritten
      <4>1. UNCHANGED <<slotMsg, heapUsed>>
        BY <1>0, <2>4, <3>3 DEF Next, CallStep, ReaderStep, Stopped, vars, slotVars, Begin,
            TakeTxMutex, MutexFree, LoadFrame, FlushFrame, GiveMutex, SkipSlot, NoFreeSlot,
            WaitBits, Timeout, Disarm, BitSeen, Release, TakeStatus, TakeResponse, ReceiveAnswer,
            ReceiveEvent, Receive, LoseAnswer, MatchOtherType, MatchOtherStatus, Signal, Dispatch
      <4>. QED  BY <1>0, <4>1 DEF LiveCopies
    <3>. QED  BY <1>2, <3>1, <3>2, <3>3
  <2>. QED  BY <2>1, <2>2, <2>3, <2>4
<1>. QED  BY <1>1, <1>4, WhereStep DEF CopiesOK

LEMMA HistInitOK == HistInit => HistInv
<1>. SUFFICES ASSUME HistInit PROVE HistInv
  OBVIOUS
<1>1. \A c \in Clients : ~AtSlot(c)
  BY DEF HistInit, Init, AtSlot
<1>2. LiveCopies = {}
  BY PointersAssumption DEF HistInit, Init, LiveCopies
<1>3. Cardinality(LiveCopies) = 0
  BY <1>2, FS_EmptySet
<1>. QED  BY <1>1, <1>2, <1>3 DEF HistInit, Init, HistInv, AloneOK, WaitsOK, CopiesOK

LEMMA HistStep == IInv /\ HistInv /\ [HistNext]_<<vars, history>> => IInv' /\ HistInv'
<1>. SUFFICES ASSUME IInv, HistInv, [HistNext]_<<vars, history>>
              PROVE  IInv' /\ HistInv'
  OBVIOUS
<1>1. IInv'
  BY HistRefines, IInvStep
<1>2. CASE HistNext
  BY <1>1, <1>2, AloneStep, WaitsStep, CountStep DEF HistInv
<1>3. CASE UNCHANGED <<vars, history>>
  BY <1>1, <1>3 DEF HistInv, AloneOK, WaitsOK, CopiesOK, WaitOK, AtSlot, LeftOverBit, OwnCopy,
      Awaited, LiveCopies, CallsAt, vars, history, clientVars, slotVars, readerVars
<1>. QED  BY <1>2, <1>3

LEMMA HistInvariance == HistSpec => [](IInv /\ HistInv)
<1>1. HistInit => IInv /\ HistInv
  BY InitOK, HistInitOK, HistRefines
<1>. QED  BY <1>1, HistStep, PTL DEF HistSpec

\* A call that met neither another call nor a left-over bit at its slot reads
\* the answer to its own command and frees a live copy, for any number of tasks
\* and however late, lost or mixed the answers are.
THEOREM AnswersAreOwn == HistSpec => []AnswerIsOwn
<1>1. IInv /\ HistInv => AnswerIsOwn
  BY DEF HistInv, WaitsOK, WaitOK, AtSlot, AnswerIsOwn
<1>. QED  BY <1>1, HistInvariance, PTL

\* Of the copies of eSL_MessageQueue none is lost but by a wait that leaves it in
\* its slot, late or with a NULL ppvMessage, and by a pointer written over it: the
\* vPortFree of eSL_SendMessage gives back each one that a call reads.
THEOREM StatusCopiesFreed == HistSpec => []CopiesFreedWhenIdle
<1>1. ASSUME IInv, HistInv PROVE CopiesFreedWhenIdle
  <2>. SUFFICES ASSUME \A c \in Clients : pc[c] = "idle"
                PROVE  heapUsed = Cardinality(left) + overwritten
    BY DEF CopiesFreedWhenIdle
  <2>1. \A i \in LiveCopies : CallsAt(i) = {}
    BY DEF CallsAt, AtSlot
  <2>2. left = LiveCopies
    BY <1>1, <2>1 DEF HistInv, CopiesOK
  <2>. QED  BY <1>1, <2>2 DEF HistInv, CopiesOK
<1>. QED  BY <1>1, HistInvariance, PTL

=============================================================================
