----------------------------- MODULE MessageSlots -----------------------------
(***************************************************************************)
(* Commands and the wait for their answers on the serial link between the  *)
(* Matter application and the Zigbee coordinator:                          *)
(* zigbee_bridge/rt/rw61x/ZCB/SerialLink.c.                                *)
(*                                                                         *)
(* Several tasks (the clients) send commands and then wait, in a slot of   *)
(* asReaderMessageQueue, for the coordinator's answer.  serialReadTask     *)
(* offers every received message to the slots.  What it does next, the     *)
(* callback queue, is in module DeviceTable.                               *)
(*                                                                         *)
(* One action is one stretch of code between two points where another task *)
(* may run: a critical section, a blocking call, or the code between.  The *)
(* coordinator and the wire are external: a command that reached the       *)
(* coordinator leaves a status and perhaps a response outstanding, and     *)
(* each of those arrives at any later time, in any order, or never.        *)
(***************************************************************************)
EXTENDS Integers, FiniteSets

CONSTANTS
  Clients,        \* tasks that call eSL_SendMessage and eSL_MessageWait
  Below,          \* clients whose priority is below that of serialReadTask
  NSlots,         \* SL_MAX_MESSAGE_QUEUES
  HeapSize,       \* message copies pvPortMalloc can hand out
  Commands,       \* message types a client sends
  NoWaitCommands, \* commands sent with eSL_SendMessageNoWait
  ResponseOf,     \* the message type a client waits for after its command
  StatusType,     \* E_SL_MSG_STATUS
  LogType,        \* E_SL_MSG_LOG
  Events,         \* types the coordinator sends unasked
  MaxInFlight,    \* bound: copies of one answer outstanding at a time
  LateReplies,    \* may a wait time out while its answer is on its way?
  None,           \* type 0, a NULL pointer, no owner
  Freed           \* a pointer to memory already given back

Responses == {ResponseOf[k] : k \in Commands} \ {None}
Types     == {StatusType} \cup Responses \cup Events

Status(k)   == [type |-> StatusType, of |-> k]
Response(k) == [type |-> ResponseOf[k], of |-> k]
Event(e)    == [type |-> e, of |-> None]

\* What the coordinator sends once it has received command k.
AnswersTo(k) ==
  {Status(k)} \cup (IF ResponseOf[k] = None THEN {} ELSE {Response(k)})
Answers  == UNION {AnswersTo(k) : k \in Commands}
Messages == Answers \cup {Event(e) : e \in Events}

ASSUME ClientsAssumption ==
  /\ IsFiniteSet(Clients)
  /\ Below \subseteq Clients
  /\ None \notin Clients
ASSUME BoundsAssumption ==
  /\ NSlots \in Nat \ {0}
  /\ HeapSize \in Nat \ {0}
  /\ MaxInFlight \in Nat \ {0}
  /\ LateReplies \in BOOLEAN
ASSUME TypesAssumption ==
  /\ NoWaitCommands \subseteq Commands
  /\ None \notin Commands
  /\ StatusType \notin Responses
  /\ StatusType \notin Events
  /\ None \notin Types
  /\ LogType \in Events
  /\ LogType \notin Responses
\* A slot's pu8Message is NULL, some caller's stack buffer (named after the
\* caller), a heap copy (named after the message), or a freed copy.
ASSUME PointersAssumption ==
  /\ Clients \cap Messages = {}
  /\ None \notin Messages
  /\ Freed \notin Clients \cup Messages \cup {None}

VARIABLES
  pc,        \* where each client is in its call
  cmd,       \* the command of the call: u16Type, and sStatus.u16MessageType
  phase,     \* what the call waits for: "status" or "response"
  at,        \* the slot index i of eSL_MessageWait
  slotType,  \* asReaderMessageQueue[i].u16Type
  slotMsg,   \* asReaderMessageQueue[i].pu8Message
  bits,      \* bit 0 of asReaderMessageQueue[i].eventGroup
  txOwner,   \* holder of txMessageMutex
  txBuf,     \* the static au8LinkTxBuffer
  heapUsed,  \* message copies allocated and not freed
  inflight,  \* answers outstanding at the coordinator or on the wire
  rpc,       \* where serialReadTask is
  rx,        \* its sMessage
  ri,        \* the slot index i of eSL_MessageQueue
  halted     \* an assert failed or a bad vPortFree was caught

clientVars == <<pc, cmd, phase, at>>
slotVars   == <<slotType, slotMsg, bits>>
txVars     == <<txOwner, txBuf>>
readerVars == <<rpc, rx, ri>>
vars == <<clientVars, slotVars, txVars, heapUsed, inflight, readerVars, halted>>

Slots == 1..NSlots

\* What the call of client c waits for, as passed to eSL_MessageWait.
Awaited(c) == IF phase[c] = "status" THEN StatusType ELSE ResponseOf[cmd[c]]

\* A task below serialReadTask runs only while that task waits for bytes.
MayRun(c) == ~halted /\ (c \in Below => rpc = "read")

\* Is the answer to what c waits for still to come?
AnswerOutstanding(c) ==
  LET m == [type |-> Awaited(c), of |-> cmd[c]]
  IN  \/ m \in Answers /\ inflight[m] > 0
      \/ rx = m

-----------------------------------------------------------------------------
Init ==
  /\ pc = [c \in Clients |-> "idle"]
  /\ cmd = [c \in Clients |-> None]
  /\ phase = [c \in Clients |-> "status"]
  /\ at = [c \in Clients |-> 1]
  /\ slotType = [i \in Slots |-> None]
  /\ slotMsg = [i \in Slots |-> None]
  /\ bits = [i \in Slots |-> FALSE]
  /\ txOwner = None
  /\ txBuf = None
  /\ heapUsed = 0
  /\ inflight = [m \in Answers |-> 0]
  /\ rpc = "read"
  /\ rx = None
  /\ ri = 1
  /\ halted = FALSE

-----------------------------------------------------------------------------
(* The clients.                                                            *)

\* The return of a call, with the local variables of the call forgotten.
Return(c) ==
  /\ pc' = [pc EXCEPT ![c] = "idle"]
  /\ cmd' = [cmd EXCEPT ![c] = None]
  /\ phase' = [phase EXCEPT ![c] = "status"]
  /\ at' = [at EXCEPT ![c] = 1]

\* The call of eSL_MessageWait for the message type that p stands for.
EnterWait(c, p) ==
  /\ pc' = [pc EXCEPT ![c] = "scan"]
  /\ phase' = [phase EXCEPT ![c] = p]
  /\ at' = [at EXCEPT ![c] = 1]
  /\ UNCHANGED cmd

\* After E_SL_OK the caller waits for the response, if the command has one.
AfterStatusOK(c) ==
  IF ResponseOf[cmd[c]] = None THEN Return(c) ELSE EnterWait(c, "response")

\* A task starts a command.
Begin(c, k) ==
  /\ MayRun(c)
  /\ pc[c] = "idle"
  /\ pc' = [pc EXCEPT ![c] = "lock"]
  /\ cmd' = [cmd EXCEPT ![c] = k]
  /\ UNCHANGED <<phase, at, slotVars, txVars, heapUsed, inflight, readerVars,
                 halted>>

\* xSemaphoreTake(txMessageMutex) goes through.  The operators called a bug, here
\* and below, replace the one after them when the properties are tested.
MutexIgnored == TRUE  \* a bug: the send does not wait for the mutex
MutexFree == txOwner = None

TakeTxMutex(c) ==
  /\ MayRun(c)
  /\ pc[c] = "lock"
  /\ MutexFree
  /\ txOwner' = c
  /\ pc' = [pc EXCEPT ![c] = "load"]
  /\ UNCHANGED <<cmd, phase, at, slotVars, txBuf, heapUsed, inflight,
                 readerVars, halted>>

\* eSL_WriteMessage, up to the last byte loaded in the static buffer.
LoadFrame(c) ==
  /\ MayRun(c)
  /\ pc[c] = "load"
  /\ txBuf' = cmd[c]
  /\ pc' = [pc EXCEPT ![c] = "flush"]
  /\ UNCHANGED <<cmd, phase, at, slotVars, txOwner, heapUsed, inflight,
                 readerVars, halted>>

MutexKept == UNCHANGED txOwner  \* a bug: a return without xSemaphoreGive
GiveMutex == txOwner' = None

\* eSerial_WriteBuffer, the return of eSL_WriteMessage and the mutex given
\* back.  The coordinator has the frame, and its answers are outstanding; the
\* content of the buffer has served.
FlushFrame(c) ==
  /\ MayRun(c)
  /\ pc[c] = "flush"
  /\ inflight' = [m \in Answers |->
                    IF m \in AnswersTo(txBuf) /\ inflight[m] < MaxInFlight
                    THEN inflight[m] + 1 ELSE inflight[m]]
  /\ GiveMutex
  /\ IF cmd[c] \in NoWaitCommands THEN AfterStatusOK(c)
                                  ELSE EnterWait(c, "status")
  /\ txBuf' = None
  /\ UNCHANGED <<slotVars, heapUsed, readerVars, halted>>

\* One round of the scan of eSL_MessageWait that finds slot i free.  The
\* event bit of the slot is left as it is.
ClaimSlot(c) ==
  /\ MayRun(c)
  /\ pc[c] = "scan"
  /\ at[c] \in Slots
  /\ slotType[at[c]] = None
  /\ slotType' = [slotType EXCEPT ![at[c]] = Awaited(c)]
  /\ slotMsg' = IF phase[c] = "status"
                THEN [slotMsg EXCEPT ![at[c]] = c] ELSE slotMsg
  /\ pc' = [pc EXCEPT ![c] = "armed"]
  /\ UNCHANGED <<cmd, phase, at, bits, txVars, heapUsed, inflight, readerVars, halted>>

\* One round of the scan that finds slot i taken.
SkipSlot(c) ==
  /\ MayRun(c)
  /\ pc[c] = "scan"
  /\ at[c] \in Slots
  /\ slotType[at[c]] # None
  /\ at' = [at EXCEPT ![c] = @ + 1]
  /\ UNCHANGED <<pc, cmd, phase, slotVars, txVars, heapUsed, inflight,
                 readerVars, halted>>

\* E_SL_ERROR: every slot was taken when the scan looked at it.
NoFreeSlot(c) ==
  /\ MayRun(c)
  /\ pc[c] = "scan"
  /\ at[c] \notin Slots
  /\ Return(c)
  /\ UNCHANGED <<slotVars, txVars, heapUsed, inflight, readerVars, halted>>

\* xEventGroupWaitBits: a bit already set ends the wait at once and is cleared.
WaitBits(c) ==
  /\ MayRun(c)
  /\ pc[c] = "armed"
  /\ bits' = [bits EXCEPT ![at[c]] = FALSE]
  /\ pc' = [pc EXCEPT ![c] = IF bits[at[c]] THEN "woken" ELSE "blocked"]
  /\ UNCHANGED <<cmd, phase, at, slotType, slotMsg, txVars, heapUsed, inflight,
                 readerVars, halted>>

\* xEventGroupWaitBits returns without the bit.
Timeout(c) ==
  /\ MayRun(c)
  /\ pc[c] = "blocked"
  /\ LateReplies \/ ~AnswerOutstanding(c)
  /\ pc' = [pc EXCEPT ![c] = "expired"]
  /\ UNCHANGED <<cmd, phase, at, slotVars, txVars, heapUsed, inflight,
                 readerVars, halted>>

\* Did the wait end with the bit set?
BitsIgnored(c) == TRUE  \* a bug: the event bits are not looked at
BitSeen(c) == pc[c] = "woken"

\* A bug: the slot is released on E_SL_OK only.
ReleaseOnSuccess(c) ==
  slotType' = IF BitSeen(c) THEN [slotType EXCEPT ![at[c]] = None] ELSE slotType
Release(c) == slotType' = [slotType EXCEPT ![at[c]] = None]

\* The critical section after the wait; without the bit, E_SL_NOMESSAGE.
Disarm(c) ==
  /\ MayRun(c)
  /\ pc[c] \in {"woken", "expired"}
  /\ Release(c)
  /\ IF BitSeen(c)
     THEN pc' = [pc EXCEPT ![c] = "collect"] /\ UNCHANGED <<cmd, phase, at>>
     ELSE Return(c)
  /\ UNCHANGED <<slotMsg, bits, txVars, heapUsed, inflight, readerVars, halted>>

CopyKept(i) == UNCHANGED <<slotMsg, heapUsed>>  \* a bug: no vPortFree
FreeCopy(i) ==
  /\ slotMsg' = [slotMsg EXCEPT ![i] = Freed]
  /\ heapUsed' = heapUsed - 1

\* The waiter for a status reads pu8Message, returns its eStatus (any value:
\* E_SL_OK or a refusal) and frees it.  A pointer that is not a live copy makes
\* the eStatus arbitrary as well and vPortFree either ignores it or stops.
TakeStatus(c) ==
  /\ MayRun(c)
  /\ pc[c] = "collect"
  /\ phase[c] = "status"
  /\ AfterStatusOK(c) \/ Return(c)
  /\ IF slotMsg[at[c]] \in Messages
     THEN FreeCopy(at[c]) /\ UNCHANGED halted
     ELSE halted' \in BOOLEAN /\ UNCHANGED <<slotMsg, heapUsed>>
  /\ UNCHANGED <<slotType, bits, txVars, inflight, readerVars>>

\* The waiter for a response passed NULL: it neither reads nor frees the copy.
TakeResponse(c) ==
  /\ MayRun(c)
  /\ pc[c] = "collect"
  /\ phase[c] = "response"
  /\ Return(c)
  /\ UNCHANGED <<slotVars, txVars, heapUsed, inflight, readerVars, halted>>

\* The steps of a call once it has begun.
CallStep(c) ==
  \/ TakeTxMutex(c) \/ LoadFrame(c) \/ FlushFrame(c)
  \/ ClaimSlot(c) \/ SkipSlot(c) \/ NoFreeSlot(c)
  \/ WaitBits(c) \/ Timeout(c) \/ Disarm(c)
  \/ TakeStatus(c) \/ TakeResponse(c)

-----------------------------------------------------------------------------
(* serialReadTask.                                                         *)

\* A frame is complete.  E_SL_MSG_LOG is not offered to the slots.
Receive(m) ==
  /\ ~halted
  /\ rpc = "read"
  /\ rx' = m
  /\ ri' = 1
  /\ rpc' = IF m.type = LogType THEN "dispatch" ELSE "match"
  /\ UNCHANGED <<clientVars, slotVars, txVars, heapUsed, halted>>

ReceiveAnswer(m) ==
  /\ inflight[m] > 0
  /\ inflight' = [inflight EXCEPT ![m] = @ - 1]
  /\ Receive(m)

ReceiveEvent(e) == Receive(Event(e)) /\ UNCHANGED inflight

NextSlot ==
  /\ ri' = IF ri < NSlots THEN ri + 1 ELSE 1
  /\ rpc' = IF ri < NSlots THEN "match" ELSE "dispatch"

\* Does psWaitStatus->u16MessageType of slot i differ from the type the received
\* status is about?  A stack buffer holds the type in host order.  A copy holds
\* it in network order, where it reads as no command's type.
DiffersNever(i) == FALSE  \* a bug: the type the status is to is not checked
Differs(i) ==
  \/ slotMsg[i] \in Clients /\ cmd[slotMsg[i]] # rx.of
  \/ slotMsg[i] \in Messages

\* eSL_MessageQueue at a slot that awaits another type.
MatchOtherType ==
  /\ ~halted /\ rpc = "match"
  /\ slotType[ri] # rx.type
  /\ NextSlot
  /\ UNCHANGED <<clientVars, slotVars, txVars, heapUsed, inflight, rx, halted>>

\* At a slot that awaits a status, of another command: the slot is released.
\* Freed memory may read as another type or as the same one.
MatchOtherStatus ==
  /\ ~halted /\ rpc = "match"
  /\ slotType[ri] = rx.type
  /\ rx.type = StatusType
  /\ Differs(ri) \/ slotMsg[ri] = Freed
  /\ slotType' = [slotType EXCEPT ![ri] = None]
  /\ NextSlot
  /\ UNCHANGED <<clientVars, slotMsg, bits, txVars, heapUsed, inflight, rx, halted>>

RoomUnchecked == TRUE  \* a bug: the result of pvPortMalloc is not checked
HasRoom == heapUsed < HeapSize

StoreCopy == slotMsg' = [slotMsg EXCEPT ![ri] = rx] /\ heapUsed' = heapUsed + 1

\* At a slot that awaits the message: a copy is stored, or the assert fails.
MatchCopy ==
  /\ ~halted /\ rpc = "match"
  /\ slotType[ri] = rx.type
  /\ rx.type = StatusType => ~Differs(ri)
  /\ IF HasRoom
     THEN StoreCopy /\ rpc' = "signal" /\ UNCHANGED halted
     ELSE halted' = TRUE /\ UNCHANGED <<slotMsg, heapUsed, rpc>>
  /\ UNCHANGED <<clientVars, slotType, bits, txVars, inflight, rx, ri>>

\* xEventGroupSetBits: every task blocked on the bit is woken and the bit
\* cleared; with no task blocked the bit stays set.
Signal ==
  /\ ~halted /\ rpc = "signal"
  /\ LET woken == {c \in Clients : pc[c] = "blocked" /\ at[c] = ri}
     IN  /\ pc' = [c \in Clients |-> IF c \in woken THEN "woken" ELSE pc[c]]
         /\ bits' = [bits EXCEPT ![ri] = (woken = {})]
  /\ rpc' = "dispatch"
  /\ ri' = 1
  /\ UNCHANGED <<cmd, phase, at, slotType, slotMsg, txVars, heapUsed, inflight,
                 rx, halted>>

\* The rest of the loop body of serialReadTask, up to the next read.
Dispatch ==
  /\ ~halted /\ rpc = "dispatch"
  /\ rpc' = "read"
  /\ rx' = None
  /\ UNCHANGED <<clientVars, slotVars, txVars, heapUsed, inflight, ri, halted>>

ReaderStep ==
  MatchOtherType \/ MatchOtherStatus \/ MatchCopy \/ Signal \/ Dispatch

-----------------------------------------------------------------------------
\* External: an answer the coordinator never sends or the wire damages.
LoseAnswer(m) ==
  /\ ~halted
  /\ inflight[m] > 0
  /\ inflight' = [inflight EXCEPT ![m] = @ - 1]
  /\ UNCHANGED <<clientVars, slotVars, txVars, heapUsed, readerVars, halted>>

\* A halted system stays halted.
Stopped == halted /\ UNCHANGED vars

Next ==
  \/ \E c \in Clients : CallStep(c) \/ \E k \in Commands : Begin(c, k)
  \/ \E m \in Answers : ReceiveAnswer(m) \/ LoseAnswer(m)
  \/ \E e \in Events : ReceiveEvent(e)
  \/ ReaderStep
  \/ Stopped

Spec == Init /\ [][Next]_vars

(***************************************************************************)
(* Fairness.  serialReadTask has the processor whenever a frame is there,  *)
(* and a tick ends every wait at its timeout.  A client below              *)
(* serialReadTask runs in the gaps between bytes, and FreeRTOS gives a     *)
(* mutex to a task that waits for it: both are enabled again and again     *)
(* but not all the time, hence strong fairness for the clients.            *)
(***************************************************************************)
FairSpec ==
  /\ Spec
  /\ WF_vars(ReaderStep)
  /\ \A c \in Clients : SF_vars(CallStep(c))

-----------------------------------------------------------------------------
(* Properties.                                                             *)

PcValues == {"idle", "lock", "load", "flush", "scan", "armed", "blocked",
             "woken", "expired", "collect"}

TypeOK ==
  /\ pc \in [Clients -> PcValues]
  /\ cmd \in [Clients -> Commands \cup {None}]
  /\ phase \in [Clients -> {"status", "response"}]
  /\ at \in [Clients -> 1..(NSlots + 1)]
  /\ slotType \in [Slots -> {None, StatusType} \cup Responses]
  /\ slotMsg \in [Slots -> Clients \cup Messages \cup {None, Freed}]
  /\ bits \in [Slots -> BOOLEAN]
  /\ txOwner \in Clients \cup {None}
  /\ txBuf \in Commands \cup {None}
  /\ heapUsed \in 0..HeapSize
  /\ inflight \in [Answers -> 0..MaxInFlight]
  /\ rpc \in {"read", "match", "signal", "dispatch"}
  /\ rx \in Messages \cup {None}
  /\ ri \in Slots
  /\ halted \in BOOLEAN

\* Client c holds slot i: it claimed it and has not released it.
Holds(c, i) == pc[c] \in {"armed", "blocked", "woken", "expired"} /\ at[c] = i

\* No slot leaks: a slot with a type in it belongs to a call that is still in
\* eSL_MessageWait, whatever timeouts, late answers and releases by
\* eSL_MessageQueue came before.  A leaked slot would be lost for good.
ArmedSlotIsHeld ==
  \A i \in Slots : slotType[i] # None => \E c \in Clients : Holds(c, i)

\* eSL_MessageWait never returns E_SL_ERROR for want of a slot when there are
\* no more client tasks than slots, although the scan is not atomic and slots
\* change hands behind it.
SlotsSuffice ==
  Cardinality(Clients) <= NSlots => \A c \in Clients : at[c] \in Slots

\* The frame a client puts on the wire is its own: the static au8LinkTxBuffer
\* is never overwritten between the loading and the sending of a frame.
OwnFrame == \A c \in Clients : pc[c] = "flush" => txBuf = cmd[c]

\* eSL_MessageQueue never reads the stack of a call that has returned: a status
\* slot that points to a caller's sStatus points to a caller that still waits,
\* for the status of the command it sent.
NoDanglingBuffer ==
  \A i \in Slots :
    slotType[i] = StatusType /\ slotMsg[i] \in Clients
      => /\ Holds(slotMsg[i], i)
         /\ phase[slotMsg[i]] = "status"

\* Slots with a live copy in them.
LiveCopies == {i \in Slots : slotMsg[i] \in Messages}

\* SerialLink.c:595, "Signal data available": a wait that ends by the event bit
\* finds data in its slot, a copy no one has freed.  The caller frees it.
SignalledDataAvailable ==
  \A c \in Clients : pc[c] = "collect" => slotMsg[at[c]] \in Messages

\* pvPortMalloc finds memory for every copy: the assert after it never fails.
AllocationSucceeds == [][heapUsed = HeapSize => ~MatchCopy]_vars

\* Every call returns, whatever is lost, late or released under it, unless the
\* system has stopped on an assert.
CallReturns ==
  \A c \in Clients : pc[c] # "idle" ~> pc[c] = "idle" \/ halted

=============================================================================
