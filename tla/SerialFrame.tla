------------------------------ MODULE SerialFrame ------------------------------
(***************************************************************************)
(* Messages as frames of bytes: eSL_WriteMessage and eSL_ReadMessage of    *)
(* zigbee_bridge/rt/rw61x/ZCB/SerialLink.c, over the interrupt and the     *)
(* byte queue of serial.c.                                                 *)
(*                                                                         *)
(* The coordinator is external; it frames its messages as the host does,   *)
(* so the same encoder feeds the decoder here.  The line may lose a byte   *)
(* (a framing or overrun error) and add noise between two frames.          *)
(*                                                                         *)
(* A byte has Bits bits.  EscBit is the 0x10 of the code: the three        *)
(* special characters are below it, and so is every byte that is escaped.  *)
(***************************************************************************)
EXTENDS Integers, FiniteSetsExt, SequencesExt

CONSTANTS
  Bits,         \* bits of a byte: 8
  EscBit,       \* the bit flipped by the escape: 0x10
  MaxLength,    \* SL_MAX_MESSAGE_LENGTH
  IndexRange,   \* values of the uint8_t index of eSL_WriteMessage
  RxSize,       \* ZBUART_RXBUFF
  Messages,     \* messages the coordinator sends
  MaxFrames,    \* bound: messages sent
  MaxFaults,    \* bound: bytes lost and bytes added
  Losable,      \* bytes the line may lose
  Noise         \* bytes the line may add

Base   == 2^Bits
Byte   == 0..(Base - 1)
Word   == 0..(Base * Base - 1)
Start  == 1           \* SL_START_CHAR
Esc    == 2           \* SL_ESC_CHAR
End    == 3           \* SL_END_CHAR
NoLength == Base * Base - 1 \* 0xFFFF

ASSUME ByteAssumption ==
  /\ Bits \in Nat
  /\ EscBit \in {2^i : i \in 0..(Bits - 1)}
  /\ EscBit > End
ASSUME SizesAssumption ==
  /\ MaxLength \in 1..Base
  /\ IndexRange \in Nat \ {0}
  /\ RxSize \in Nat \ {0}
  /\ MaxFrames \in Nat
  /\ MaxFaults \in Nat
  /\ Losable \subseteq Byte
  /\ Noise \subseteq Byte
ASSUME MessagesAssumption ==
  /\ Messages \subseteq [type : Word, data : Seq(Byte)]
  /\ \A m \in Messages : Len(m.data) \in Word

VARIABLES
  sent,      \* the messages sent so far
  wire,      \* bytes on their way, each with the number of its frame
  rxQueue,   \* s_rxIrqDataQueue
  rx,        \* the static locals of eSL_ReadMessage
  msg,       \* sMessage of serialReadTask
  received,  \* messages accepted, each with the number of its frame
  origin,    \* the frame sMessage was begun from, by the first byte of a header
  damaged,   \* frames that lost a byte
  faults,    \* bytes lost and added
  halted     \* the assert of the interrupt handler failed

lineVars  == <<sent, wire, damaged, faults>>
readVars  == <<rx, msg, received, origin>>
vars == <<lineVars, rxQueue, readVars, halted>>

-----------------------------------------------------------------------------
(* The frame format.                                                       *)

Bit(n, i) == (n \div 2^i) % 2

\* The ^ of C on a pair of bytes.
Xor == [p \in Byte \X Byte |->
          LET Differing == {i \in 0..(Bits - 1) : Bit(p[1], i) # Bit(p[2], i)}
          IN  SumSet({2^i : i \in Differing})]

High(w) == w \div Base
Low(w)  == w % Base

\* u8SL_CalculateCRC
CRC(type, length, data) ==
  FoldLeft(LAMBDA a, b : Xor[<<a, b>>], 0,
           <<Low(type), High(type), Low(length), High(length)>> \o data)

\* u8SL_LoadByteToTxBuffer for a byte that is not a special character.
Loaded(b) == IF b < EscBit THEN <<Esc, Xor[<<b, EscBit>>]>> ELSE <<b>>

\* What u8SL_LoadByteToTxBuffer is called with for message m, all escaped.
FrameOf(m) ==
  LET length == Len(m.data)
      body == <<High(m.type), Low(m.type), High(length), Low(length),
                CRC(m.type, length, m.data)>> \o m.data
  IN  <<Start>> \o FlattenSeq([i \in DOMAIN body |-> Loaded(body[i])]) \o <<End>>

\* The first index bytes of au8LinkTxBuffer once all of f is loaded: the index
\* has 8 bits, and a long frame is written over its own start.
Buffered(f) ==
  LET n == Len(f)
  IN  [p \in 1..(n % IndexRange) |-> f[p + IndexRange * ((n - p) \div IndexRange)]]

\* The two conditions under which the end character ends the call.
Accepted(m, crc) ==
  /\ m.length < MaxLength
  /\ crc = CRC(m.type, m.length, SubSeq(m.data, 1, m.length))

\* sMessage before each call of eSL_ReadMessage: the length makes the end
\* character of no frame count.
Blank == [type |-> 0, length |-> NoLength, data |-> [i \in 1..MaxLength |-> 0]]

NotCleared == msg  \* a bug: sMessage is set up once, before the loop
Cleared == Blank

RxStates == {"start", "typeMSB", "typeLSB", "lenMSB", "lenLSB", "crc", "data"}

-----------------------------------------------------------------------------
Init ==
  /\ sent = <<>>
  /\ wire = <<>>
  /\ rxQueue = <<>>
  /\ rx = [state |-> "start", crc |-> 0, bytes |-> 0, inEsc |-> FALSE]
  /\ msg = Blank
  /\ received = <<>>
  /\ origin = 0
  /\ damaged = {}
  /\ faults = 0
  /\ halted = FALSE

-----------------------------------------------------------------------------
(* The line and the interrupt.                                             *)

Tagged(bytes, n) == [i \in DOMAIN bytes |-> [byte |-> bytes[i], frame |-> n]]

\* eSL_WriteMessage at the sender.
Send(m) ==
  /\ Len(sent) < MaxFrames
  /\ sent' = Append(sent, m)
  /\ wire' = wire \o Tagged(Buffered(FrameOf(m)), Len(sent) + 1)
  /\ UNCHANGED <<damaged, faults, rxQueue, readVars, halted>>

\* BOARD_ZB_UART_IRQ_HANDLER with a byte in the receiver.
Arrive ==
  /\ wire # <<>>
  /\ wire' = Tail(wire)
  /\ IF Len(rxQueue) < RxSize
     THEN rxQueue' = Append(rxQueue, Head(wire)) /\ UNCHANGED halted
     ELSE halted' = TRUE /\ UNCHANGED rxQueue
  /\ UNCHANGED <<sent, damaged, faults, readVars>>

\* The handler with an error flag: the byte is dropped.
LoseByte ==
  /\ wire # <<>>
  /\ faults < MaxFaults
  /\ Head(wire).byte \in Losable
  /\ wire' = Tail(wire)
  /\ faults' = faults + 1
  /\ damaged' = damaged \cup {Head(wire).frame}
  /\ UNCHANGED <<sent, rxQueue, readVars, halted>>

\* Noise on the idle line, read as a byte of the frame that may follow.
AddByte(b) ==
  /\ wire = <<>>
  /\ Len(rxQueue) < RxSize
  /\ faults < MaxFaults
  /\ rxQueue' = Append(rxQueue, [byte |-> b, frame |-> Len(sent) + 1])
  /\ faults' = faults + 1
  /\ UNCHANGED <<sent, wire, damaged, readVars, halted>>

-----------------------------------------------------------------------------
(* serialReadTask in eSL_ReadMessage: one byte of the queue.               *)

Read(b) ==
  /\ rxQueue # <<>>
  /\ b = Head(rxQueue).byte
  /\ rxQueue' = Tail(rxQueue)
  /\ UNCHANGED <<lineVars, halted>>

EscKept == rx' = [rx EXCEPT !.state = "typeMSB", !.bytes = 0]  \* a bug
Restart == rx' = [rx EXCEPT !.state = "typeMSB", !.bytes = 0, !.inEsc = FALSE]

ReadStart ==
  /\ Read(Start)
  /\ Restart
  /\ UNCHANGED <<msg, received, origin>>

ReadEsc ==
  /\ Read(Esc)
  /\ rx' = [rx EXCEPT !.inEsc = TRUE]
  /\ UNCHANGED <<msg, received, origin>>

\* E_SL_OK returns to serialReadTask, which clears sMessage and calls again.
\* Any other end leaves sMessage as it is.
ReadEnd ==
  /\ Read(End)
  /\ rx' = [rx EXCEPT !.state = "start"]
  /\ IF Accepted(msg, rx.crc)
     THEN /\ received' = Append(received,
               [type |-> msg.type, data |-> SubSeq(msg.data, 1, msg.length),
                frame |-> Head(rxQueue).frame])
          /\ msg' = Cleared
     ELSE UNCHANGED <<msg, received>>
  /\ UNCHANGED origin

\* The last byte of the header's length.
LengthUnchecked(d) ==  \* a bug: a length beyond au8Message is taken
  msg' = [msg EXCEPT !.length = @ + d] /\ rx' = [rx EXCEPT !.inEsc = FALSE, !.state = "crc"]
LengthLSB(d) ==
  /\ msg' = [msg EXCEPT !.length = @ + d]
  /\ rx' = [rx EXCEPT !.inEsc = FALSE,
                      !.state = IF msg.length + d > MaxLength THEN "start" ELSE "crc"]

StoreUnchecked(d) ==  \* a bug: the payload may be longer than the length field
  /\ msg' = [msg EXCEPT !.data[rx.bytes + 1] = d]
  /\ rx' = [rx EXCEPT !.inEsc = FALSE, !.bytes = @ + 1]
Store(d) ==
  IF rx.bytes < msg.length
  THEN /\ msg' = [msg EXCEPT !.data[rx.bytes + 1] = d]
       /\ rx' = [rx EXCEPT !.inEsc = FALSE, !.bytes = @ + 1]
  ELSE rx' = [rx EXCEPT !.inEsc = FALSE] /\ UNCHANGED msg

\* The byte is used and the next one is awaited in the given state.
Goto(state) == rx' = [rx EXCEPT !.inEsc = FALSE, !.state = state]

ReadOther ==
  \E b \in Byte \ {Start, Esc, End} :
    /\ Read(b)
    /\ LET d == IF rx.inEsc THEN Xor[<<b, EscBit>>] ELSE b
       IN  \/ rx.state = "start" /\ Goto("start") /\ UNCHANGED msg
           \/ /\ rx.state = "typeMSB" /\ Goto("typeLSB")
              /\ msg' = [msg EXCEPT !.type = d * Base]
           \/ /\ rx.state = "typeLSB" /\ Goto("lenMSB")
              /\ msg' = [msg EXCEPT !.type = @ + d]
           \/ /\ rx.state = "lenMSB" /\ Goto("lenLSB")
              /\ msg' = [msg EXCEPT !.length = d * Base]
           \/ rx.state = "lenLSB" /\ LengthLSB(d)
           \/ /\ rx.state = "crc" /\ UNCHANGED msg
              /\ rx' = [rx EXCEPT !.inEsc = FALSE, !.state = "data", !.crc = d]
           \/ rx.state = "data" /\ Store(d)
    /\ origin' = IF rx.state = "typeMSB" THEN Head(rxQueue).frame ELSE origin
    /\ UNCHANGED received

-----------------------------------------------------------------------------
\* Nothing runs after the assert failed.
Next ==
  /\ ~halted
  /\ \/ \E m \in Messages : Send(m)
     \/ Arrive \/ LoseByte
     \/ \E b \in Noise : AddByte(b)
     \/ ReadStart \/ ReadEsc \/ ReadEnd \/ ReadOther

Spec == Init /\ [][Next]_vars

-----------------------------------------------------------------------------
(* Properties.                                                             *)

TypeOK ==
  /\ sent \in Seq(Messages)
  /\ wire \in Seq([byte : Byte, frame : Nat])
  /\ rxQueue \in Seq([byte : Byte, frame : Nat])
  /\ Len(rxQueue) <= RxSize
  /\ rx \in [state : RxStates, crc : Byte, bytes : 0..MaxLength, inEsc : BOOLEAN]
  /\ msg \in [type : Word, length : Word, data : [1..MaxLength -> Byte]]
  /\ received \in Seq([type : Word, data : Seq(Byte), frame : Nat])
  /\ origin \in Nat
  /\ damaged \subseteq Nat
  /\ faults \in 0..MaxFaults
  /\ halted \in BOOLEAN

\* While payload bytes are read, the frame's length fits au8Message and no more
\* bytes were stored than that length, whatever bytes arrived before
\* (SerialLink.c: the checks of E_STATE_RX_WAIT_LENLSB and E_STATE_RX_WAIT_DATA).
PayloadFits ==
  rx.state = "data" => rx.bytes <= msg.length /\ msg.length <= MaxLength

Unread == rxQueue \o wire

\* A frame of which every byte arrived is handed over when its end is read,
\* unchanged, whatever happened to the frames before it (the start character
\* resets the decoder).  A payload of MaxLength bytes is not meant: it passes
\* the check of the header and fails that of the end.
IntactFramesArrive ==
  \A n \in DOMAIN sent \ damaged :
    ~halted /\ Len(sent[n].data) < MaxLength
            /\ (\A i \in DOMAIN Unread : Unread[i].frame # n)
      => \E i \in DOMAIN received :
           received[i] = [type |-> sent[n].type, data |-> sent[n].data, frame |-> n]

Content(m) == [type |-> m.type, data |-> m.data]

\* Every message handed over is one that was sent (SerialLink.c:354, "CRC matches
\* - valid packet").
OnlySentMessages ==
  \A i \in DOMAIN received : \E n \in DOMAIN sent : Content(received[i]) = sent[n]

\* The oldest frame that may still be handed over: the one in sMessage, which a
\* start character leaves there, else the one of the next byte.
OldestFrame ==
  IF rx.state \notin {"start", "typeMSB"} \/ Accepted(msg, rx.crc) THEN origin
  ELSE IF Unread # <<>> THEN Head(Unread).frame ELSE Len(sent) + 1

Link == INSTANCE LossyLink WITH
          pending <- SubSeq(sent, OldestFrame, Len(sent)),
          received <- [i \in DOMAIN received |-> Content(received[i])]

\* On a line that loses start and end characters the frames are a lossy link of
\* messages: each handed over at most once, in order and unchanged
\* (eSL_WriteMessage, eSL_ReadMessage).  A frame that lost another byte may be
\* accepted as one that was never sent, for ReadEnd does not count the bytes.
IsLossyLink == Link!Spec
=============================================================================
