--------------------------- MODULE SerialFrame_proofs ---------------------------
(***************************************************************************)
(* Proofs about SerialFrame, for every width of a byte, every size of the  *)
(* buffers, all messages and any loss and noise on the line: what the      *)
(* decoder keeps has its type and stays in its buffer, and a frame that    *)
(* arrives undamaged is handed over whatever was read before it.           *)
(***************************************************************************)
EXTENDS SerialFrame, DataLemmas

-----------------------------------------------------------------------------
(* Bytes and words.                                                        *)

LEMMA Bytes ==
  /\ Base \in Nat /\ Base > 4 /\ EscBit \in Byte
  /\ {Start, Esc, End} \subseteq Byte /\ 0 \in Byte
<1>1. PICK i \in 0..(Bits - 1) : EscBit = 2^i
  BY ByteAssumption
<1>2. 2^i \in Nat /\ 2^Bits \in Nat
  BY ByteAssumption, PowersOfTwo
<1>3. SumSet({2^j : j \in {i}}) \in Byte
  BY ByteAssumption, SumOfPowers DEF Byte, Base
<1>4. SumSet({2^j : j \in {i}}) = 2^i
  <2>1. {2^j : j \in {i}} = {2^i}
    OBVIOUS
  <2> DEFINE e == 2^i
  <2>2. e \in Nat
    BY <1>2
  <2> HIDE DEF e
  <2>3. SumSet({e}) = e
    <3>1. IsFiniteSet({e}) /\ {e} \subseteq Nat
      BY <2>2, FS_Singleton
    <3>2. PICK f \in [SUBSET {e} -> Nat] :
            /\ SumSet({e}) = f[{e}]
            /\ f[{}] = 0
            /\ \A s \in SUBSET {e} : \A y \in s : f[s] = y + f[s \ {y}]
      BY <3>1, SumSetFold
    <3>3. f[{e}] = e + f[{}]
      <4>1. {e} \in SUBSET {e} /\ e \in {e} /\ {e} \ {e} = {}
        OBVIOUS
      <4>. QED  BY <3>2, <4>1
    <3>. QED  BY <2>2, <3>2, <3>3
  <2>. QED  BY <2>1, <2>3 DEF e
<1>5. EscBit \in Byte
  BY <1>1, <1>3, <1>4
<1>. QED  BY <1>2, <1>5, ByteAssumption DEF Base, Byte, Start, Esc, End

LEMMA Sizes ==
  /\ MaxLength \in Nat \ {0} /\ IndexRange \in Nat \ {0} /\ RxSize \in Nat \ {0}
  /\ MaxFrames \in Nat /\ MaxFaults \in Nat /\ Losable \subseteq Byte /\ Noise \subseteq Byte
BY SizesAssumption, Bytes

LEMMA MessageParts ==
  \A m \in Messages :
    /\ m.type \in Word /\ m.data \in Seq(Byte) /\ Len(m.data) \in Word
    /\ m = [type |-> m.type, data |-> m.data]
BY MessagesAssumption

\* The exclusive or of two bytes is a byte: it has no bit that a byte has not.
LEMMA XorType == Xor \in [Byte \X Byte -> Byte]
<1> SUFFICES ASSUME NEW p \in Byte \X Byte PROVE Xor[p] \in Byte
  BY DEF Xor
<1> DEFINE D == {i \in 0..(Bits - 1) : Bit(p[1], i) # Bit(p[2], i)}
<1>1. D \in SUBSET (0..(Bits - 1))
  OBVIOUS
<1>2. Xor[p] = SumSet({2^i : i \in D})
  BY DEF Xor
<1> HIDE DEF D
<1>3. SumSet({2^i : i \in D}) \in 0..(2^Bits - 1)
  BY <1>1, ByteAssumption, SumOfPowers
<1>. QED  BY <1>2, <1>3 DEF Byte, Base

\* A word is two bytes.
LEMMA WordOfBytes ==
  ASSUME NEW B \in Nat, B > 0, NEW h \in 0..(B - 1), NEW l \in 0..(B - 1)
  PROVE  h * B \in 0..(B * B - 1) /\ h * B + l \in 0..(B * B - 1)
<1>1. h * B <= (B - 1) * B
  OBVIOUS
<1>2. (B - 1) * B = B * B - B /\ h * B \in Nat /\ B * B \in Nat
  OBVIOUS
<1>. QED  BY <1>1, <1>2

LEMMA BytesOfWord ==
  ASSUME NEW B \in Nat, B > 0, NEW w \in 0..(B * B - 1)
  PROVE  w \div B \in 0..(B - 1) /\ w % B \in 0..(B - 1)
<1>1. w % B \in 0..(B - 1) /\ w \div B \in Int /\ w = B * (w \div B) + (w % B)
  OBVIOUS
<1>2. w \div B < B
  <2> SUFFICES ASSUME w \div B >= B PROVE FALSE
    BY <1>1
  <2>1. B * (w \div B) >= B * B
    BY <1>1
  <2>. QED  BY <1>1, <2>1
<1>3. w \div B >= 0
  <2> SUFFICES ASSUME w \div B <= -1 PROVE FALSE
    BY <1>1
  <2>1. B * (w \div B) <= -B
    BY <1>1
  <2>. QED  BY <1>1, <2>1
<1>. QED  BY <1>1, <1>2, <1>3

-----------------------------------------------------------------------------
(* Frames.                                                                 *)

LEMMA CRCType ==
  ASSUME NEW type \in Word, NEW length \in Word, NEW data \in Seq(Byte)
  PROVE  CRC(type, length, data) \in Byte
<1> DEFINE header == <<Low(type), High(type), Low(length), High(length)>>
<1>1. \A w \in Word : Low(w) \in Byte /\ High(w) \in Byte
  BY Bytes, BytesOfWord DEF Word, Byte, Low, High
<1>2. header \in Seq(Byte)
  BY <1>1
<1>3. header \o data \in Seq(Byte)
  BY <1>2, ConcatProperties
<1> HIDE DEF header
<1>4. FoldOf(Xor, 0, header \o data) \in Byte
  BY <1>3, Bytes, XorType, FoldLeftType
<1>. QED  BY <1>4 DEF CRC, FoldOf, header

\* A byte that has a bit the other has not is changed to at least that bit.
LEMMA EscapedByte ==
  ASSUME NEW b \in Byte, b < EscBit
  PROVE  Xor[<<b, EscBit>>] >= EscBit
<1>1. PICK k \in 0..(Bits - 1) : EscBit = 2^k
  BY ByteAssumption
<1> DEFINE e == 2^k
           D == {i \in 0..(Bits - 1) : Bit(b, i) # Bit(EscBit, i)}
           S == {2^i : i \in D}
<1>2. e \in Nat \ {0} /\ Bits \in Nat
  BY <1>1, ByteAssumption, PowersOfTwo
<1>3. k \in D
  <2>1. b \in Nat /\ b < e
    BY <1>1, Bytes DEF Byte
  <2> HIDE DEF e
  <2>2. b \div e = 0 /\ e \div e = 1
    BY <1>2, <2>1
  <2>3. 0 % 2 = 0 /\ 1 % 2 = 1
    OBVIOUS
  <2>4. Bit(b, k) = 0 /\ Bit(e, k) = 1
    BY <2>2, <2>3, Zenon DEF Bit, e
  <2>. QED  BY <1>1, <2>4 DEF e
<1>4. Xor[<<b, EscBit>>] = SumSet(S)
  BY Bytes DEF Xor
<1>5. SumSet(S) >= e
  BY <1>2, <1>3, SumOfPowers
<1>. QED  BY <1>1, <1>4, <1>5

\* What is between the delimiters of a frame is escaped.
Inner == Byte \ {Start, End}

LEMMA FrameShape ==
  ASSUME NEW m \in Messages
  PROVE  \E s \in Seq(Inner) : FrameOf(m) = <<Start>> \o s \o <<End>>
<1> DEFINE length == Len(m.data)
           header == <<High(m.type), Low(m.type), High(length), Low(length),
                       CRC(m.type, length, m.data)>>
           body == header \o m.data
           loaded == [i \in DOMAIN body |-> Loaded(body[i])]
<1>1. m.type \in Word /\ m.data \in Seq(Byte) /\ length \in Word
  BY MessageParts
<1>2. \A w \in Word : Low(w) \in Byte /\ High(w) \in Byte
  BY Bytes, BytesOfWord DEF Word, Byte, Low, High
<1>3. header \in Seq(Byte)
  BY <1>1, <1>2, CRCType
<1>4. body \in Seq(Byte)
  BY <1>1, <1>3, ConcatProperties
<1>5. \A b \in Byte : Loaded(b) \in Seq(Inner)
  <2> SUFFICES ASSUME NEW b \in Byte PROVE Loaded(b) \in Seq(Inner)
    OBVIOUS
  <2>1. Esc \in Inner /\ Byte \subseteq Nat /\ EscBit \in Nat /\ EscBit > End
    BY Bytes, ByteAssumption DEF Inner, Byte, Start, Esc, End
  <2>2. CASE b < EscBit
    <3>1. Xor[<<b, EscBit>>] \in Byte /\ Xor[<<b, EscBit>>] >= EscBit
      BY <2>2, Bytes, XorType, EscapedByte
    <3>2. Xor[<<b, EscBit>>] \in Inner
      BY <2>1, <3>1 DEF Inner, Start, End
    <3>. QED  BY <2>1, <2>2, <3>2 DEF Loaded
  <2>3. CASE ~(b < EscBit)
    <3>1. b \in Inner
      BY <2>1, <2>3 DEF Inner, Start, End
    <3>. QED  BY <2>3, <3>1 DEF Loaded
  <2>. QED  BY <2>2, <2>3
<1> HIDE DEF header, body
<1>6. loaded \in Seq(Seq(Inner))
  <2>1. Len(body) \in Nat /\ DOMAIN body = 1..Len(body)
        /\ \A i \in 1..Len(body) : body[i] \in Byte
    BY <1>4, LenProperties, ElementOfSeq
  <2>2. \A i \in 1..Len(body) : Loaded(body[i]) \in Seq(Inner)
    BY <1>5, <2>1
  <2>. QED  BY <2>1, <2>2
<1> DEFINE flat == FlattenSeq(loaded)
<1>7. flat \in Seq(Inner)
  BY <1>6, FlattenSeqType
<1>8. FrameOf(m) = <<Start>> \o flat \o <<End>>
  BY DEF FrameOf, body, header
<1> HIDE DEF flat
<1>. QED  BY <1>7, <1>8

LEMMA FrameType ==
  ASSUME NEW m \in Messages
  PROVE  FrameOf(m) \in Seq(Byte)
<1>1. PICK s \in Seq(Inner) : FrameOf(m) = <<Start>> \o s \o <<End>>
  BY FrameShape
<1>2. s \in Seq(Byte) /\ <<Start>> \in Seq(Byte) /\ <<End>> \in Seq(Byte)
  BY Bytes, SeqMonotonic DEF Inner
<1>. QED  BY <1>1, <1>2, ConcatProperties

\* In the frame of any message the start character is the first byte and no
\* other, and the end character the last byte and no other: the escape hides
\* every byte of type, length, checksum and payload that looks like one
\* (eSL_WriteMessage, u8SL_LoadByteToTxBuffer).
THEOREM DelimitersOnlyAtTheEnds ==
  ASSUME NEW m \in Messages, NEW i \in 1..Len(FrameOf(m))
  PROVE  /\ FrameOf(m)[i] = Start <=> i = 1
         /\ FrameOf(m)[i] = End <=> i = Len(FrameOf(m))
<1>1. PICK s \in Seq(Inner) : FrameOf(m) = <<Start>> \o s \o <<End>>
  BY FrameShape
<1> DEFINE n == Len(s)
           begun == <<Start>> \o s
<1>2. s \in Seq(Byte) /\ <<Start>> \in Seq(Byte) /\ <<End>> \in Seq(Byte)
      /\ n \in Nat /\ \A j \in 1..n : s[j] \in Inner
  BY Bytes, SeqMonotonic, LenProperties, ElementOfSeq DEF Inner
<1>3. /\ begun \in Seq(Byte) /\ Len(begun) = n + 1
      /\ \A j \in 1..(n + 1) : begun[j] = IF j <= 1 THEN Start ELSE s[j - 1]
  <2>1. Len(<<Start>>) = 1 /\ <<Start>>[1] = Start
    OBVIOUS
  <2>2. begun \in Seq(Byte) /\ Len(begun) = 1 + n
        /\ \A j \in 1..(1 + n) : begun[j] = IF j <= 1 THEN <<Start>>[j] ELSE s[j - 1]
    BY <1>2, <2>1, ConcatProperties
  <2> HIDE DEF begun, n
  <2>. QED  BY <1>2, <2>1, <2>2
<1> HIDE DEF begun
<1>4. /\ Len(FrameOf(m)) = n + 2
      /\ \A j \in 1..(n + 2) :
           FrameOf(m)[j] = IF j <= n + 1 THEN begun[j] ELSE End
  <2>1. Len(<<End>>) = 1 /\ <<End>>[1] = End
    OBVIOUS
  <2>2. FrameOf(m) = begun \o <<End>>
    BY <1>1 DEF begun
  <2>3. /\ Len(FrameOf(m)) = n + 1 + 1
        /\ \A j \in 1..(n + 1 + 1) :
             FrameOf(m)[j] = IF j <= n + 1 THEN begun[j] ELSE <<End>>[j - (n + 1)]
    BY <1>2, <1>3, <2>1, <2>2, ConcatProperties
  <2> HIDE DEF n
  <2>4. n + 1 + 1 = n + 2 /\ \A j \in 1..(n + 2) : ~(j <= n + 1) => j - (n + 1) = 1
    BY <1>2
  <2>. QED  BY <2>1, <2>3, <2>4
<1> HIDE DEF n
<1>5. CASE i = 1
  BY <1>2, <1>3, <1>4, <1>5 DEF Start, End
<1>6. CASE i = n + 2
  BY <1>2, <1>4, <1>6 DEF Start, End
<1>7. CASE i # 1 /\ i # n + 2
  <2>1. i - 1 \in 1..n /\ i \in 1..(n + 1) /\ ~(i <= 1)
    BY <1>2, <1>4, <1>7
  <2>2. FrameOf(m)[i] = s[i - 1]
    BY <1>2, <1>3, <1>4, <2>1
  <2>3. s[i - 1] # Start /\ s[i - 1] # End
    BY <1>2, <2>1 DEF Inner
  <2>. QED  BY <1>4, <1>7, <2>2, <2>3
<1>. QED  BY <1>5, <1>6, <1>7

\* The last write to a place of a buffer of R bytes is within the frame.
LEMMA LastWrite ==
  ASSUME NEW R \in Nat \ {0}, NEW n \in Nat, NEW p \in 1..(n % R)
  PROVE  p + R * ((n - p) \div R) \in 1..n
<1>1. n % R <= n /\ n - p \in Nat
  <2>1. n = R * (n \div R) + (n % R) /\ n \div R \in Int /\ n % R \in 0..(R - 1)
    OBVIOUS
  <2>2. n \div R >= 0
    OBVIOUS
  <2>3. R * (n \div R) >= 0
    BY <2>2, <2>1
  <2>. QED  BY <2>1, <2>3
<1> DEFINE k == n - p
<1>2. k \in Nat /\ p = n - k /\ p >= 1
  BY <1>1
<1> HIDE DEF k
<1>3. k = R * (k \div R) + (k % R) /\ k \div R \in Int /\ k % R \in 0..(R - 1)
  BY <1>2
<1>4. k \div R >= 0
  BY <1>2
<1>5. R * (k \div R) \in Int /\ R * (k \div R) >= 0 /\ R * (k \div R) <= k
  BY <1>2, <1>3, <1>4
<1>. QED  BY <1>2, <1>5 DEF k

LEMMA BufferedType ==
  ASSUME NEW f \in Seq(Byte)
  PROVE  Buffered(f) \in Seq(Byte)
<1> DEFINE n == Len(f)
           k == n % IndexRange
           at(p) == p + IndexRange * ((n - p) \div IndexRange)
<1>1. n \in Nat /\ \A i \in 1..n : f[i] \in Byte
  BY LenProperties, ElementOfSeq
<1>2. IndexRange \in Nat \ {0}
  BY Sizes
<1>3. \A p \in 1..k : at(p) \in 1..n
  BY <1>1, <1>2, LastWrite
<1>4. k \in Nat
  BY <1>1, <1>2
<1>5. Buffered(f) = [p \in 1..k |-> f[at(p)]]
  BY DEF Buffered
<1> HIDE DEF n, k, at
<1>. QED  BY <1>1, <1>3, <1>4, <1>5

Marked == [byte : Byte, frame : Nat]

LEMMA TaggedType ==
  ASSUME NEW s \in Seq(Byte), NEW n \in Nat
  PROVE  Tagged(s, n) \in Seq(Marked)
<1>1. Len(s) \in Nat /\ DOMAIN s = 1..Len(s) /\ \A i \in 1..Len(s) : s[i] \in Byte
  BY LenProperties, ElementOfSeq
<1>. QED  BY <1>1 DEF Tagged, Marked

-----------------------------------------------------------------------------
(* The decoder.                                                            *)

\* What the state of the decoder says of the message being built.  The sum of
\* a word and its low byte is a word only because the low byte is still 0; the
\* stored bytes fit au8Message only because the length was checked before.
Decoding ==
  /\ rx.state = "typeLSB" => \E h \in Byte : msg.type = h * Base
  /\ rx.state = "lenLSB" => \E h \in Byte : msg.length = h * Base
  /\ rx.state \in {"crc", "data"} => msg.length <= MaxLength
  /\ rx.state \in {"typeMSB", "typeLSB", "lenMSB", "lenLSB", "crc"} => rx.bytes = 0
  /\ rx.state = "data" => rx.bytes <= msg.length

LineOK ==
  /\ sent \in Seq(Messages)
  /\ wire \in Seq(Marked)
  /\ rxQueue \in Seq(Marked)
  /\ Len(rxQueue) <= RxSize
  /\ damaged \subseteq Nat
  /\ faults \in 0..MaxFaults
  /\ halted \in BOOLEAN

DecoderOK ==
  /\ rx \in [state : RxStates, crc : Byte, bytes : 0..MaxLength, inEsc : BOOLEAN]
  /\ msg \in [type : Word, length : Word, data : [1..MaxLength -> Byte]]
  /\ received \in Seq([type : Word, data : Seq(Byte), frame : Nat])
  /\ origin \in Nat

DecoderInv == LineOK /\ DecoderOK /\ Decoding

LEMMA BlankType ==
  Blank \in [type : Word, length : Word, data : [1..MaxLength -> Byte]]
<1>1. 0 \in Word /\ NoLength \in Word
  <2>1. Base * Base \in Nat /\ Base * Base >= 1
    BY Bytes
  <2>. QED  BY <2>1 DEF Word, NoLength
<1>. QED  BY <1>1, Bytes DEF Blank

LEMMA DecoderInit == Init => DecoderInv
<1> SUFFICES ASSUME Init PROVE DecoderInv
  OBVIOUS
<1>1. LineOK
  <2>1. <<>> \in Seq(Messages) /\ <<>> \in Seq(Marked) /\ Len(<<>>) = 0
    BY EmptySeq
  <2>2. 0 <= RxSize /\ 0 \in 0..MaxFaults
    BY Sizes
  <2>. QED  BY <2>1, <2>2 DEF Init, LineOK
<1>2. DecoderOK
  BY Sizes, Bytes, BlankType DEF Init, DecoderOK, RxStates
<1>3. Decoding
  BY DEF Init, Decoding
<1>. QED  BY <1>1, <1>2, <1>3 DEF DecoderInv

LEMMA HeadOfQueue ==
  ASSUME LineOK, rxQueue # <<>>
  PROVE  /\ Head(rxQueue).byte \in Byte /\ Head(rxQueue).frame \in Nat
         /\ Tail(rxQueue) \in Seq(Marked) /\ Len(Tail(rxQueue)) <= RxSize
<1>1. /\ Head(rxQueue) \in Marked /\ Tail(rxQueue) \in Seq(Marked)
      /\ Len(Tail(rxQueue)) = Len(rxQueue) - 1
  BY HeadTailProperties DEF LineOK
<1>2. Len(rxQueue) \in Nat
  BY LenProperties DEF LineOK
<1>. QED  BY <1>1, <1>2, Sizes DEF LineOK, Marked

LEMMA LineStep ==
  ASSUME LineOK, [Next]_vars
  PROVE  LineOK'
<1>1. ASSUME NEW m \in Messages, Send(m) PROVE LineOK'
  <2>1. Len(sent) \in Nat /\ Append(sent, m) \in Seq(Messages)
    BY LenProperties DEF LineOK
  <2>2. Tagged(Buffered(FrameOf(m)), Len(sent) + 1) \in Seq(Marked)
    BY <2>1, FrameType, BufferedType, TaggedType
  <2>3. wire \o Tagged(Buffered(FrameOf(m)), Len(sent) + 1) \in Seq(Marked)
    BY <2>2, ConcatProperties DEF LineOK
  <2>. QED  BY <1>1, <2>1, <2>3 DEF LineOK, Send
<1>2. CASE Arrive
  <2>1. Head(wire) \in Marked /\ Tail(wire) \in Seq(Marked)
    BY <1>2, HeadTailProperties DEF LineOK, Arrive
  <2>2. Append(rxQueue, Head(wire)) \in Seq(Marked)
        /\ Len(Append(rxQueue, Head(wire))) = Len(rxQueue) + 1
        /\ Len(rxQueue) \in Nat
    BY <2>1, LenProperties DEF LineOK
  <2>3. rxQueue' \in Seq(Marked) /\ Len(rxQueue') <= RxSize /\ halted' \in BOOLEAN
    <3>1. CASE Len(rxQueue) < RxSize
      <4>1. Len(rxQueue) + 1 <= RxSize
        BY <2>2, <3>1, Sizes
      <4>. QED  BY <1>2, <2>2, <3>1, <4>1 DEF LineOK, Arrive
    <3>2. CASE ~(Len(rxQueue) < RxSize)
      BY <1>2, <3>2 DEF LineOK, Arrive
    <3>. QED  BY <3>1, <3>2
  <2>. QED  BY <1>2, <2>1, <2>3 DEF LineOK, Arrive
<1>3. CASE LoseByte
  <2>1. Head(wire) \in Marked /\ Tail(wire) \in Seq(Marked)
    BY <1>3, HeadTailProperties DEF LineOK, LoseByte
  <2>2. Head(wire).frame \in Nat
    BY <2>1 DEF Marked
  <2>3. faults' \in 0..MaxFaults
    <3>1. \A n \in 0..MaxFaults : n < MaxFaults => n + 1 \in 0..MaxFaults
      BY Sizes
    <3>. QED  BY <1>3, <3>1 DEF LineOK, LoseByte
  <2>4. damaged' \subseteq Nat
    BY <1>3, <2>2 DEF LineOK, LoseByte
  <2>. QED  BY <1>3, <2>1, <2>3, <2>4 DEF LineOK, LoseByte
<1>4. ASSUME NEW b \in Noise, AddByte(b) PROVE LineOK'
  <2> DEFINE e == [byte |-> b, frame |-> Len(sent) + 1]
  <2>1. e \in Marked
    BY Sizes, LenProperties DEF LineOK, Marked
  <2>2. Append(rxQueue, e) \in Seq(Marked) /\ Len(Append(rxQueue, e)) = Len(rxQueue) + 1
        /\ Len(rxQueue) \in Nat
    BY <2>1, LenProperties DEF LineOK
  <2>. QED  BY <1>4, <2>2, Sizes DEF LineOK, AddByte
<1>5. ASSUME NEW b, Read(b) PROVE LineOK'
  <2>1. Tail(rxQueue) \in Seq(Marked) /\ Len(Tail(rxQueue)) <= RxSize
    BY <1>5, HeadOfQueue DEF Read
  <2>. QED  BY <1>5, <2>1 DEF LineOK, Read, lineVars
<1>6. CASE UNCHANGED vars
  BY <1>6 DEF LineOK, vars, lineVars
<1>. QED
  BY <1>1, <1>2, <1>3, <1>4, <1>5, <1>6
  DEF Next, ReadStart, ReadEsc, ReadEnd, ReadOther

\* What ReadOther does with its byte d, unescaped or as it came.
UseByte(d) ==
  \/ rx.state = "start" /\ Goto("start") /\ UNCHANGED msg
  \/ /\ rx.state = "typeMSB" /\ Goto("typeLSB")
     /\ msg' = [msg EXCEPT !.type = d * Base]
  \/ /\ rx.state = "typeLSB" /\ Goto("lenMSB")
     /\ msg' = [msg EXCEPT !.type = @ + d]
  \/ /\ rx.state = "lenMSB" /\ Goto("lenLSB")
     /\ msg' = [msg EXCEPT !.length = d * Base]
  \/ rx.state = "lenLSB" /\ LengthLSB(d)
  \/ /\ rx.state = "crc" /\ UNCHANGED msg
     /\ rx' = [rx EXCEPT !.inEsc = FALSE, !.state = "data", !.crc = d]
  \/ rx.state = "data" /\ Store(d)

LEMMA ByteStep ==
  ASSUME DecoderInv, NEW d \in Byte,
         UseByte(d),
         UNCHANGED received, origin' \in Nat
  PROVE  DecoderOK' /\ Decoding'
<1> DEFINE RxType == [state : RxStates, crc : Byte, bytes : 0..MaxLength, inEsc : BOOLEAN]
           MsgType == [type : Word, length : Word, data : [1..MaxLength -> Byte]]
           Goal == rx' \in RxType /\ msg' \in MsgType /\ Decoding'
<1>0. rx \in RxType /\ msg \in MsgType /\ Decoding /\ MaxLength \in Nat
  BY Sizes, Bytes DEF DecoderInv, DecoderOK
<1>1. d * Base \in Word /\ \A h \in Byte : h * Base + d \in Word /\ h * Base \in Int
  BY Bytes, WordOfBytes DEF Byte, Word
<1>2. Byte \subseteq Nat /\ Word \subseteq Nat
  BY Bytes DEF Byte, Word
<1>. SUFFICES Goal
  BY DEF DecoderInv, DecoderOK
<1>3. CASE rx.state = "start" /\ Goto("start") /\ UNCHANGED msg
  BY <1>0, <1>3 DEF Goto, Decoding, RxStates
<1>4. CASE rx.state = "typeMSB" /\ Goto("typeLSB") /\ msg' = [msg EXCEPT !.type = d * Base]
  BY <1>0, <1>1, <1>4 DEF Goto, Decoding, RxStates
<1>5. CASE rx.state = "typeLSB" /\ Goto("lenMSB") /\ msg' = [msg EXCEPT !.type = @ + d]
  <2>1. PICK h \in Byte : msg.type = h * Base
    BY <1>0, <1>5 DEF Decoding
  <2>2. msg.type + d \in Word
    BY <1>1, <2>1
  <2>. QED  BY <1>0, <1>5, <2>2 DEF Goto, Decoding, RxStates
<1>6. CASE rx.state = "lenMSB" /\ Goto("lenLSB") /\ msg' = [msg EXCEPT !.length = d * Base]
  BY <1>0, <1>1, <1>6 DEF Goto, Decoding, RxStates
<1>7. CASE rx.state = "lenLSB" /\ LengthLSB(d)
  <2>1. PICK h \in Byte : msg.length = h * Base
    BY <1>0, <1>7 DEF Decoding
  <2>2. msg.length + d \in Word
    BY <1>1, <2>1
  <2>3. CASE msg.length + d > MaxLength
    BY <1>0, <1>7, <2>2, <2>3 DEF LengthLSB, Decoding, RxStates
  <2>4. CASE ~(msg.length + d > MaxLength)
    <3>1. msg' = [msg EXCEPT !.length = msg.length + d]
          /\ rx' = [rx EXCEPT !.inEsc = FALSE, !.state = "crc"]
      BY <1>7, <2>4 DEF LengthLSB
    <3>2. msg'.length = msg.length + d /\ msg' \in MsgType
      BY <1>0, <2>2, <3>1
    <3>3. rx'.state = "crc" /\ rx'.bytes = rx.bytes /\ rx' \in RxType /\ rx.bytes = 0
      BY <1>0, <1>7, <3>1 DEF RxStates, Decoding
    <3>4. msg.length + d <= MaxLength
      <4>1. msg.length + d \in Nat /\ MaxLength \in Nat
        BY <1>0, <1>2, <2>2
      <4>. QED  BY <2>4, <4>1
    <3>. QED  BY <3>2, <3>3, <3>4 DEF Decoding
  <2>. QED  BY <2>3, <2>4
<1>8. CASE /\ rx.state = "crc" /\ UNCHANGED msg
           /\ rx' = [rx EXCEPT !.inEsc = FALSE, !.state = "data", !.crc = d]
  <2>1. /\ rx' \in RxType /\ rx'.state = "data" /\ rx'.bytes = rx.bytes
        /\ rx.bytes = 0 /\ msg.length <= MaxLength
    BY <1>0, <1>8 DEF RxStates, Decoding
  <2>2. msg.length \in Nat
    BY <1>0, <1>2
  <2>. QED  BY <1>0, <1>8, <2>1, <2>2 DEF Decoding
<1>9. CASE rx.state = "data" /\ Store(d)
  <2>1. rx.bytes \in Nat /\ msg.length \in Nat /\ rx.bytes <= msg.length
        /\ msg.length <= MaxLength
    <3>1. rx.bytes \in 0..MaxLength /\ msg.length \in Nat /\ MaxLength \in Nat
      BY <1>0, <1>2
    <3>2. rx.bytes <= msg.length /\ msg.length <= MaxLength
      BY <1>0, <1>9 DEF Decoding
    <3>. QED  BY <3>1, <3>2
  <2>2. CASE rx.bytes < msg.length
    <3>1. rx.bytes + 1 \in 1..MaxLength
      BY <1>0, <2>1, <2>2
    <3>2. msg' = [msg EXCEPT !.data[rx.bytes + 1] = d]
          /\ rx' = [rx EXCEPT !.inEsc = FALSE, !.bytes = rx.bytes + 1]
      BY <1>9, <2>2 DEF Store
    <3>3. msg' \in MsgType /\ msg'.length = msg.length
      BY <1>0, <3>1, <3>2
    <3>4. rx' \in RxType /\ rx'.state = "data" /\ rx'.bytes = rx.bytes + 1
      <4>1. rx.bytes + 1 \in 0..MaxLength
        BY <1>0, <2>1, <3>1
      <4>. QED  BY <1>0, <1>9, <3>2, <4>1
    <3>. QED  BY <2>1, <2>2, <3>3, <3>4 DEF Decoding
  <2>3. CASE ~(rx.bytes < msg.length)
    BY <1>0, <1>9, <2>3 DEF Store, Decoding
  <2>. QED  BY <2>2, <2>3
<1>. QED
  BY <1>3, <1>4, <1>5, <1>6, <1>7, <1>8, <1>9 DEF UseByte

LEMMA DecoderStep ==
  ASSUME DecoderInv, [Next]_vars
  PROVE  DecoderOK' /\ Decoding'
<1> USE DEF DecoderInv
<1>1. CASE UNCHANGED readVars
  BY <1>1 DEF readVars, DecoderOK, Decoding
<1>2. CASE ReadStart
  <2>2. rx' = [rx EXCEPT !.state = "typeMSB", !.bytes = 0, !.inEsc = FALSE]
    BY <1>2 DEF ReadStart, Restart
  <2>3. /\ rx' \in [state : RxStates, crc : Byte, bytes : 0..MaxLength, inEsc : BOOLEAN]
        /\ rx'.state = "typeMSB" /\ rx'.bytes = 0
    <3>1. 0 \in 0..MaxLength /\ "typeMSB" \in RxStates
      BY Sizes DEF RxStates
    <3>. QED  BY <2>2, <3>1 DEF DecoderOK
  <2>. QED  BY <1>2, <2>3 DEF ReadStart, DecoderOK, Decoding
<1>3. CASE ReadEsc
  BY <1>3 DEF ReadEsc, DecoderOK, Decoding
<1>4. CASE ReadEnd
  <2>1. Head(rxQueue).frame \in Nat
    BY <1>4, HeadOfQueue DEF ReadEnd, Read
  <2>2. /\ rx' \in [state : RxStates, crc : Byte, bytes : 0..MaxLength, inEsc : BOOLEAN]
        /\ rx'.state = "start" /\ origin' \in Nat
    BY <1>4 DEF ReadEnd, DecoderOK, RxStates
  <2>3. Decoding'
    BY <2>2 DEF Decoding
  <2>4. CASE Accepted(msg, rx.crc)
    <3> DEFINE payload == SubSeq(msg.data, 1, msg.length)
               handed == [type |-> msg.type, data |-> payload,
                          frame |-> Head(rxQueue).frame]
    <3>1. msg.length \in 0..MaxLength /\ msg.data \in Seq(Byte) /\ Len(msg.data) = MaxLength
      <4>1. msg.length \in Nat /\ MaxLength \in Nat /\ msg.data \in [1..MaxLength -> Byte]
        BY Bytes, Sizes DEF DecoderOK, Word, Byte
      <4>2. msg.length < MaxLength
        BY <2>4 DEF Accepted
      <4>. QED  BY <4>1, <4>2
    <3>2. payload \in Seq(Byte)
      BY <3>1, PrefixProperties
    <3>3. msg.type \in Word
      BY DEF DecoderOK
    <3> HIDE DEF payload
    <3>4. handed \in [type : Word, data : Seq(Byte), frame : Nat]
      BY <2>1, <3>2, <3>3
    <3>5. received' = Append(received, handed) /\ msg' = Blank
      BY <1>4, <2>4 DEF ReadEnd, Cleared, payload
    <3> HIDE DEF handed
    <3>6. received' \in Seq([type : Word, data : Seq(Byte), frame : Nat])
      BY <3>4, <3>5 DEF DecoderOK
    <3>. QED  BY <2>2, <2>3, <3>5, <3>6, BlankType DEF DecoderOK
  <2>5. CASE ~Accepted(msg, rx.crc)
    BY <1>4, <2>2, <2>3, <2>5 DEF ReadEnd, DecoderOK
  <2>. QED  BY <2>4, <2>5
<1>5. CASE ReadOther
  <2>1. PICK b \in Byte \ {Start, Esc, End} :
          /\ UseByte(IF rx.inEsc THEN Xor[<<b, EscBit>>] ELSE b)
          /\ origin' = IF rx.state = "typeMSB" THEN Head(rxQueue).frame ELSE origin
          /\ UNCHANGED received
    BY <1>5, Zenon DEF ReadOther, UseByte
  <2> DEFINE d == IF rx.inEsc THEN Xor[<<b, EscBit>>] ELSE b
  <2>2. d \in Byte
    BY Bytes, XorType
  <2>3. origin' \in Nat
    <3>1. Head(rxQueue).frame \in Nat
      BY <1>5, HeadOfQueue DEF ReadOther, Read
    <3>. QED  BY <2>1, <3>1 DEF DecoderOK
  <2> HIDE DEF d
  <2>. QED  BY <2>1, <2>2, <2>3, ByteStep DEF d
<1>6. CASE UNCHANGED vars
  BY <1>1, <1>6 DEF vars
<1>. QED
  BY <1>1, <1>2, <1>3, <1>4, <1>5, <1>6 DEF Next, Send, Arrive, LoseByte, AddByte

LEMMA DecoderInvariant == Spec => []DecoderInv
<1>1. DecoderInv /\ [Next]_vars => DecoderInv'
  BY LineStep, DecoderStep DEF DecoderInv
<1>. QED  BY DecoderInit, <1>1, PTL DEF Spec

-----------------------------------------------------------------------------
\* The decoder's locals, sMessage, the queue and everything handed over have
\* their types whatever bytes arrive, noise and torn frames included: no index
\* and no sum leaves its range (eSL_ReadMessage, BOARD_ZB_UART_IRQ_HANDLER).
THEOREM TypeCorrect == Spec => []TypeOK
<1>1. DecoderInv => TypeOK
  BY DEF DecoderInv, LineOK, DecoderOK, TypeOK, Marked
<1>. QED  BY DecoderInvariant, <1>1, PTL

\* No byte is stored beyond the length of the frame, and no length beyond
\* au8Message is used, whatever bytes arrive (the checks of
\* E_STATE_RX_WAIT_LENLSB and E_STATE_RX_WAIT_DATA in eSL_ReadMessage).
THEOREM PayloadStaysInBuffer == Spec => []PayloadFits
<1>1. DecoderInv => PayloadFits
  BY DEF DecoderInv, Decoding, PayloadFits
<1>. QED  BY DecoderInvariant, <1>1, PTL

-----------------------------------------------------------------------------
(* The escape and the places of a frame's bytes.                           *)

\* A power of two has one bit.
LEMMA BitOfPower ==
  ASSUME NEW k \in Nat, NEW i \in Nat
  PROVE  (2^k \div 2^i) % 2 = IF i = k THEN 1 ELSE 0
<1>0. \A n \in Nat : 2^n \in Nat /\ 2^n >= 1
  BY PowersOfTwo
<1>1. 0 \in Nat /\ 0 < 2^k /\ 0 + 2^k = 2^k
  BY <1>0
<1>2. (2^k \div 2^k) % 2 = 1
  <2>1. ((0 + 2^k) \div 2^k) % 2 = 1
    BY <1>1, BitsBelow
  <2>. QED  BY <1>1, <2>1
<1>3. CASE i > k
  <2>1. ((0 + 2^k) \div 2^i) % 2 = 0
    BY <1>1, <1>3, BitsBelow
  <2>. QED  BY <1>1, <1>3, <2>1
<1>4. CASE i < k
  <2>1. i \in 0..(k - 1)
    BY <1>4
  <2>2. ((0 + 2^k) \div 2^i) % 2 = (0 \div 2^i) % 2
    BY <1>1, <2>1, BitKept
  <2> DEFINE P == 2^i
  <2>3. P \in Nat \ {0}
    BY <1>0
  <2> HIDE DEF P
  <2>4. (0 \div P) % 2 = 0
    BY <2>3
  <2>. QED  BY <1>1, <1>4, <2>2, <2>4 DEF P
<1>. QED  BY <1>2, <1>3, <1>4

\* Escaping a byte sets its escape bit, and escaping it again clears that bit:
\* the decoder gets back the byte that was escaped.
LEMMA EscapeUndone ==
  ASSUME NEW b \in Byte, b < EscBit
  PROVE  Xor[<<Xor[<<b, EscBit>>], EscBit>>] = b
<1>1. PICK k \in 0..(Bits - 1) : EscBit = 2^k
  BY ByteAssumption
<1>2. /\ Bits \in Nat /\ k \in Nat /\ k < Bits
      /\ b \in Nat /\ b < 2^k
      /\ \A n \in Nat : 2^n \in Nat
  BY <1>1, ByteAssumption, Bytes, PowersOfTwo DEF Byte
<1> DEFINE e == b + 2^k
           Diff(p) == {i \in 0..(Bits - 1) : Bit(p, i) # Bit(EscBit, i)}
<1>3. \A i \in 0..(Bits - 1) : Bit(EscBit, i) = IF i = k THEN 1 ELSE 0
  <2>1. \A i \in 0..(Bits - 1) : i \in Nat
    BY <1>2
  <2>. QED  BY <1>1, <1>2, <2>1, BitOfPower DEF Bit
<1>4. \A i \in 0..(Bits - 1) :
        /\ i >= k => Bit(b, i) = 0
        /\ i = k => Bit(e, i) = 1
        /\ i > k => Bit(e, i) = 0
        /\ i < k => Bit(e, i) = Bit(b, i)
  <2> SUFFICES ASSUME NEW i \in 0..(Bits - 1)
               PROVE  /\ i >= k => Bit(b, i) = 0
                      /\ i = k => Bit(e, i) = 1
                      /\ i > k => Bit(e, i) = 0
                      /\ i < k => Bit(e, i) = Bit(b, i)
    OBVIOUS
  <2>0. i \in Nat
    BY <1>2
  <2>1. /\ i >= k => (b \div 2^i) % 2 = 0
        /\ ((b + 2^k) \div 2^k) % 2 = 1
        /\ i > k => ((b + 2^k) \div 2^i) % 2 = 0
    <3>1. k \in Nat /\ b \in Nat /\ b < 2^k
      BY <1>2
    <3>2. \A j \in Nat : j >= k => (b \div 2^j) % 2 = 0
      BY <3>1, BitsBelow
    <3>3. \A j \in Nat : j > k => ((b + 2^k) \div 2^j) % 2 = 0
      BY <3>1, BitsBelow
    <3>4. ((b + 2^k) \div 2^k) % 2 = 1
      BY <3>1, BitsBelow
    <3>. QED  BY <2>0, <3>2, <3>3, <3>4, Zenon
  <2>2. ASSUME i < k PROVE ((b + 2^k) \div 2^i) % 2 = (b \div 2^i) % 2
    <3>1. i \in 0..(k - 1)
      BY <1>2, <2>0, <2>2
    <3>. QED  BY <1>2, <3>1, BitKept
  <2>. QED  BY <2>1, <2>2, Zenon DEF Bit
<1>b. ASSUME NEW i \in 0..(Bits - 1) PROVE Bit(b, i) \in 0..1
  <2> DEFINE P == 2^i
  <2>1. P \in Nat /\ P >= 1
    <3>1. i \in Nat
      BY <1>2
    <3>. QED  BY <3>1, PowersOfTwo
  <2> HIDE DEF P
  <2>2. b \div P \in Int
    BY <1>2, <2>1
  <2>3. (b \div P) % 2 \in 0..1
    BY <2>2
  <2>. QED  BY <2>3 DEF Bit, P
<1>5. Diff(e) = OnesOf(b, k)
  <2>1. \A i \in 0..(Bits - 1) : Bit(b, i) \in 0..1
    BY <1>b
  <2>2. \A i \in 0..(k - 1) : i \in 0..(Bits - 1) /\ i < k
    BY <1>2
  <2>3. \A i \in Diff(e) : i \in 0..(k - 1) /\ IsOne(b, i)
    <3> SUFFICES ASSUME NEW i \in Diff(e) PROVE i \in 0..(k - 1) /\ IsOne(b, i)
      OBVIOUS
    <3> HIDE DEF e
    <3>1. i < k /\ Bit(b, i) # 0
      BY <1>2, <1>3, <1>4
    <3>. QED  BY <1>2, <2>1, <3>1 DEF Bit, IsOne
  <2>4. \A i \in OnesOf(b, k) : i \in Diff(e)
    <3> HIDE DEF e
    <3>. QED  BY <1>2, <1>3, <1>4, <2>2 DEF OnesOf, IsOne, Bit
  <2> HIDE DEF Diff
  <2>. QED  BY <2>3, <2>4 DEF OnesOf
<1>6. Diff(b) = OnesOf(e, k + 1)
  <2>1. \A i \in 0..(Bits - 1) : Bit(b, i) \in 0..1
    BY <1>b
  <2>2. \A i \in 0..((k + 1) - 1) : i \in 0..(Bits - 1) /\ i <= k
    BY <1>2
  <2>3. \A i \in Diff(b) : i \in 0..((k + 1) - 1) /\ IsOne(e, i)
    <3> SUFFICES ASSUME NEW i \in Diff(b) PROVE i \in 0..((k + 1) - 1) /\ IsOne(e, i)
      OBVIOUS
    <3> HIDE DEF e
    <3>1. i <= k
      BY <1>2, <1>3, <1>4
    <3>2. Bit(e, i) = 1
      BY <1>2, <1>3, <1>4, <2>1, <3>1
    <3>. QED  BY <1>2, <3>1, <3>2 DEF Bit, IsOne
  <2>4. \A i \in OnesOf(e, k + 1) : i \in Diff(b)
    <3> HIDE DEF e
    <3>. QED  BY <1>2, <1>3, <1>4, <2>2 DEF OnesOf, IsOne, Bit
  <2> HIDE DEF Diff
  <2>. QED  BY <2>3, <2>4 DEF OnesOf
<1>7. \A p \in Byte : Xor[<<p, EscBit>>] = SumSet({2^i : i \in Diff(p)})
  BY Bytes DEF Xor
<1>8. Xor[<<b, EscBit>>] = e
  <2>1. e \in Nat /\ e < 2^(k + 1) /\ k + 1 \in Nat
    BY <1>2, PowersOfTwo
  <2> HIDE DEF e, Diff
  <2>. QED  BY <1>6, <1>7, <2>1, SumOfBits
<1>9. e \in Byte
  BY <1>8, Bytes, XorType
<1> HIDE DEF e, Diff
<1>10. Xor[<<e, EscBit>>] = b
  BY <1>2, <1>5, <1>7, <1>9, SumOfBits
<1>. QED  BY <1>8, <1>10

\* What is escaped of a message, and where each of its bytes is in the frame.
Header(m) == <<High(m.type), Low(m.type), High(Len(m.data)), Low(Len(m.data)),
               CRC(m.type, Len(m.data), m.data)>>
Body(m) == Header(m) \o m.data
Offset(m, i) == i + 1 + Cardinality({j \in 1..(i - 1) : Body(m)[j] < EscBit})

LEMMA BodyShape ==
  ASSUME NEW m \in Messages
  PROVE  /\ Body(m) \in Seq(Byte) /\ Len(m.data) \in Nat /\ Len(m.data) \in Word
         /\ Len(Body(m)) = 5 + Len(m.data)
         /\ \A i \in 1..(5 + Len(m.data)) : Body(m)[i] \in Byte
         /\ Body(m)[1] = High(m.type) /\ Body(m)[2] = Low(m.type)
         /\ Body(m)[3] = High(Len(m.data)) /\ Body(m)[4] = Low(Len(m.data))
         /\ Body(m)[5] = CRC(m.type, Len(m.data), m.data)
         /\ \A j \in 1..Len(m.data) : Body(m)[5 + j] = m.data[j]
<1> DEFINE n == Len(m.data)
           h == Header(m)
<1>1. m.type \in Word /\ m.data \in Seq(Byte) /\ n \in Word /\ n \in Nat
  BY MessageParts, LenProperties
<1>2. \A w \in Word : Low(w) \in Byte /\ High(w) \in Byte
  BY Bytes, BytesOfWord DEF Word, Byte, Low, High
<1>3. CRC(m.type, n, m.data) \in Byte
  BY <1>1, CRCType
<1>4. /\ h \in Seq(Byte) /\ Len(h) = 5
      /\ h[1] = High(m.type) /\ h[2] = Low(m.type) /\ h[3] = High(n) /\ h[4] = Low(n)
      /\ h[5] = CRC(m.type, n, m.data)
  BY <1>1, <1>2, <1>3 DEF Header
<1> HIDE DEF h, n
<1>5. /\ Body(m) \in Seq(Byte)
      /\ Len(Body(m)) = 5 + n
      /\ \A j \in 1..(5 + n) : Body(m)[j] = IF j <= 5 THEN h[j] ELSE m.data[j - 5]
  <2>1. /\ h \o m.data \in Seq(Byte)
        /\ Len(h \o m.data) = Len(h) + Len(m.data)
        /\ \A j \in 1..(Len(h) + Len(m.data)) :
             (h \o m.data)[j] = IF j <= Len(h) THEN h[j] ELSE m.data[j - Len(h)]
    BY <1>1, <1>4, ConcatProperties, Zenon
  <2>2. Body(m) = h \o m.data
    BY DEF Body, h
  <2>. QED  BY <1>1, <1>4, <2>1, <2>2 DEF n
<1>6. \A i \in 1..(5 + n) : Body(m)[i] \in Byte
  BY <1>5, ElementOfSeq
<1>7. \A j \in 1..n : Body(m)[5 + j] = m.data[j]
  <2> SUFFICES ASSUME NEW j \in 1..n PROVE Body(m)[5 + j] = m.data[j]
    OBVIOUS
  <2>1. 5 + j \in 1..(5 + n) /\ ~ (5 + j <= 5) /\ (5 + j) - 5 = j
    BY <1>1
  <2>. QED  BY <1>5, <2>1
<1>8. /\ Body(m)[1] = h[1] /\ Body(m)[2] = h[2] /\ Body(m)[3] = h[3] /\ Body(m)[4] = h[4]
      /\ Body(m)[5] = h[5]
  <2>1. \A j \in 1..5 : j \in 1..(5 + n) /\ j <= 5
    BY <1>1
  <2>. QED  BY <1>5, <2>1
<1>. QED  BY <1>1, <1>4, <1>5, <1>6, <1>7, <1>8 DEF n

\* A byte takes one or two places of the frame.
LEMMA LoadedShape ==
  ASSUME NEW b \in Byte
  PROVE  /\ b < EscBit => /\ Len(Loaded(b)) = 2 /\ Loaded(b)[1] = Esc
                          /\ Loaded(b)[2] = Xor[<<b, EscBit>>]
         /\ ~ (b < EscBit) => Len(Loaded(b)) = 1 /\ Loaded(b)[1] = b
         /\ Loaded(b) \in Seq(Byte)
<1>1. Xor[<<b, EscBit>>] \in Byte /\ Esc \in Byte
  BY Bytes, XorType
<1>2. CASE b < EscBit
  <2>1. Loaded(b) = <<Esc, Xor[<<b, EscBit>>]>>
    BY <1>2 DEF Loaded
  <2> DEFINE x == Xor[<<b, EscBit>>]
  <2> HIDE DEF x
  <2>2. Len(<<Esc, x>>) = 2 /\ <<Esc, x>>[1] = Esc /\ <<Esc, x>>[2] = x
    OBVIOUS
  <2>3. x \in Byte => <<Esc, x>> \in Seq(Byte)
    BY <1>1
  <2>. QED  BY <1>1, <1>2, <2>1, <2>2, <2>3 DEF x
<1>3. CASE ~ (b < EscBit)
  <2>1. Loaded(b) = <<b>>
    BY <1>3 DEF Loaded
  <2>. QED  BY <1>3, <2>1
<1>. QED  BY <1>2, <1>3

LEMMA OffsetStep ==
  ASSUME NEW m \in Messages, NEW i \in 1..Len(Body(m))
  PROVE  /\ Offset(m, 1) = 2
         /\ Offset(m, i) \in Nat /\ Offset(m, i) >= 2
         /\ Offset(m, i + 1) = Offset(m, i) + Len(Loaded(Body(m)[i]))
<1> DEFINE E(k) == {j \in 1..(k - 1) : Body(m)[j] < EscBit}
<1>1. i \in Nat /\ i >= 1 /\ Body(m)[i] \in Byte
  BY BodyShape
<1>2. \A k \in Nat : IsFiniteSet(E(k)) /\ Cardinality(E(k)) \in Nat
  <2> SUFFICES ASSUME NEW k \in Nat PROVE IsFiniteSet(E(k)) /\ Cardinality(E(k)) \in Nat
    OBVIOUS
  <2>1. IsFiniteSet(1..(k - 1))
    BY FS_Interval
  <2>2. E(k) \subseteq 1..(k - 1)
    OBVIOUS
  <2> HIDE DEF E
  <2>3. IsFiniteSet(E(k))
    BY <2>1, <2>2, FS_Subset
  <2>. QED  BY <2>3, FS_CardinalityType
<1>3. E(1) = {} /\ Cardinality({}) = 0
  BY FS_EmptySet
<1>4. Offset(m, 1) = 2
  BY <1>3 DEF Offset
<1>p. /\ Offset(m, i) = i + 1 + Cardinality(E(i))
      /\ Offset(m, i + 1) = (i + 1) + 1 + Cardinality(E(i + 1))
  BY DEF Offset
<1>5. CASE Body(m)[i] < EscBit
  <2>1. E(i + 1) = E(i) \cup {i} /\ i \notin E(i)
    BY <1>1, <1>5
  <2> HIDE DEF E
  <2>2. Cardinality(E(i + 1)) = Cardinality(E(i)) + 1
    BY <1>1, <1>2, <2>1, FS_AddElement
  <2>3. Len(Loaded(Body(m)[i])) = 2
    BY <1>1, <1>5, LoadedShape
  <2>4. Cardinality(E(i)) \in Nat
    BY <1>1, <1>2
  <2>. QED  BY <1>1, <1>4, <1>p, <2>2, <2>3, <2>4
<1>6. CASE ~ (Body(m)[i] < EscBit)
  <2>1. E(i + 1) = E(i)
    BY <1>1, <1>6
  <2> HIDE DEF E
  <2>3. Len(Loaded(Body(m)[i])) = 1
    BY <1>1, <1>6, LoadedShape
  <2>4. Cardinality(E(i)) \in Nat
    BY <1>1, <1>2
  <2>. QED  BY <1>1, <1>4, <1>p, <2>1, <2>3, <2>4
<1>. QED  BY <1>5, <1>6

\* The frame of a message: the start character, each byte at its place, and the
\* end character.
LEMMA FramePlaced ==
  ASSUME NEW m \in Messages
  PROVE  /\ Len(FrameOf(m)) \in Nat /\ FrameOf(m) \in Seq(Byte)
         /\ Len(FrameOf(m)) = Offset(m, Len(Body(m)) + 1)
         /\ FrameOf(m)[1] = Start /\ FrameOf(m)[Len(FrameOf(m))] = End
         /\ \A i \in 1..Len(Body(m)) : \A x \in 1..Len(Loaded(Body(m)[i])) :
              /\ Offset(m, i) + x <= Len(FrameOf(m))
              /\ FrameOf(m)[Offset(m, i) + (x - 1)] = Loaded(Body(m)[i])[x]
<1> DEFINE K == Len(Body(m))
           body == Body(m)
           s == [i \in 1..K |-> Loaded(body[i])]
           off == [i \in 1..(K + 1) |-> Offset(m, i) - 2]
           flat == FlattenSeq(s)
<1>1. K \in Nat /\ K >= 5 /\ body \in Seq(Byte) /\ DOMAIN body = 1..K
      /\ \A i \in 1..K : body[i] \in Byte
  BY BodyShape, LenProperties
<1>2. FrameOf(m) = <<Start>> \o flat \o <<End>>
  BY <1>1 DEF FrameOf, Body, Header
<1>3. \A i \in 1..K : /\ Offset(m, i) \in Nat /\ Offset(m, i) >= 2
                     /\ Offset(m, i + 1) = Offset(m, i) + Len(Loaded(body[i]))
  BY OffsetStep
<1>4. Offset(m, 1) = 2
  <2>1. 1 \in 1..K
    BY <1>1
  <2>. QED  BY <2>1, OffsetStep
<1>5. \A i \in 1..K : Loaded(body[i]) \in Seq(Byte) /\ Len(Loaded(body[i])) \in Nat
  <2>1. \A i \in 1..K : Loaded(body[i]) \in Seq(Byte)
    BY <1>1, LoadedShape
  <2>. QED  BY <2>1, LenProperties
<1> HIDE DEF K, body
<1>6. s \in Seq(Seq(Byte)) /\ Len(s) = K /\ \A i \in 1..K : s[i] = Loaded(body[i])
  BY <1>1, <1>5
<1>7. \A i \in 1..(K + 1) : Offset(m, i) \in Nat /\ Offset(m, i) >= 2
  <2> SUFFICES ASSUME NEW i \in 1..(K + 1)
               PROVE  Offset(m, i) \in Nat /\ Offset(m, i) >= 2
    OBVIOUS
  <2>1. CASE i = 1
    BY <1>4, <2>1
  <2>2. CASE i # 1
    <3>1. i - 1 \in 1..K /\ (i - 1) + 1 = i
      BY <1>1, <2>2
    <3>2. Offset(m, (i - 1) + 1) = Offset(m, i - 1) + Len(Loaded(body[i - 1]))
      BY <1>3, <3>1
    <3>. QED  BY <1>3, <1>5, <3>1, <3>2
  <2>. QED  BY <2>1, <2>2
<1>8. off \in [1..(K + 1) -> Nat] /\ off[1] = 0
  <2>1. \A i \in 1..(K + 1) : Offset(m, i) - 2 \in Nat
    BY <1>7
  <2>2. 1 \in 1..(K + 1)
    BY <1>1
  <2>. QED  BY <1>4, <2>1, <2>2
<1>9. \A i \in 1..K : off[i + 1] = off[i] + Len(s[i])
  <2> SUFFICES ASSUME NEW i \in 1..K PROVE off[i + 1] = off[i] + Len(s[i])
    OBVIOUS
  <2>1. i \in 1..(K + 1) /\ i + 1 \in 1..(K + 1)
    BY <1>1
  <2>2. off[i] = Offset(m, i) - 2 /\ off[i + 1] = Offset(m, i + 1) - 2
    BY <2>1
  <2> HIDE DEF off, s
  <2>. QED  BY <1>3, <1>5, <1>6, <2>2
<1>10. \A i \in 1..(K + 1) : off[i] = Offset(m, i) - 2
  OBVIOUS
<1> HIDE DEF s, off
<1>11. /\ Len(flat) = off[K + 1]
       /\ \A i \in 1..K : \A x \in 1..Len(s[i]) :
            off[i] + x <= off[K + 1] /\ flat[off[i] + x] = s[i][x]
  <2>1. Len(s) # 0
    BY <1>1, <1>6
  <2>2. off \in [1..(Len(s) + 1) -> Nat] /\ \A i \in 1..Len(s) : off[i + 1] = off[i] + Len(s[i])
    BY <1>6, <1>8, <1>9
  <2>3. /\ Len(flat) = off[Len(s) + 1]
        /\ \A i \in 1..Len(s) : \A x \in 1..Len(s[i]) :
             off[i] + x <= off[Len(s) + 1] /\ flat[off[i] + x] = s[i][x]
    <3>1. s \in Seq(Seq(Byte)) /\ off[1] = 0
      BY <1>6, <1>8
    <3>. QED  BY <2>1, <2>2, <3>1, FlattenSeqPlaces, ZenonT(40)
  <2>. QED  BY <1>6, <2>3
<1>12. flat \in Seq(Byte)
  BY <1>6, FlattenSeqType
<1> HIDE DEF flat
<1> DEFINE n == Len(flat)
           F == FrameOf(m)
<1>13. /\ n \in Nat /\ F \in Seq(Byte) /\ Len(F) = n + 2
       /\ F[1] = Start /\ F[n + 2] = End
       /\ \A y \in 1..n : F[y + 1] = flat[y]
  <2>1. <<Start>> \in Seq(Byte) /\ <<End>> \in Seq(Byte)
        /\ Len(<<Start>>) = 1 /\ Len(<<End>>) = 1
    BY Bytes
  <2>2. n \in Nat
    BY <1>12, LenProperties
  <2> DEFINE b == <<Start>> \o flat
  <2>3. b \in Seq(Byte) /\ Len(b) = 1 + n
        /\ \A j \in 1..(1 + n) : b[j] = IF j <= 1 THEN <<Start>>[j] ELSE flat[j - 1]
    BY <1>12, <2>1, ConcatProperties
  <2> HIDE DEF b, n
  <2>4. b \o <<End>> \in Seq(Byte) /\ Len(b \o <<End>>) = (1 + n) + 1
        /\ \A j \in 1..((1 + n) + 1) :
             (b \o <<End>>)[j] = IF j <= 1 + n THEN b[j] ELSE <<End>>[j - (1 + n)]
    BY <2>1, <2>3, ConcatProperties
  <2>5. F = b \o <<End>>
    BY <1>2 DEF b
  <2> HIDE DEF F
  <2>6. F[1] = Start /\ F[n + 2] = End
    BY <2>2, <2>3, <2>4, <2>5
  <2>7. \A y \in 1..n : F[y + 1] = flat[y]
    <3> SUFFICES ASSUME NEW y \in 1..n PROVE F[y + 1] = flat[y]
      OBVIOUS
    <3>1. y + 1 \in 1..(1 + n) /\ y + 1 \in 1..((1 + n) + 1) /\ ~ (y + 1 <= 1)
          /\ y + 1 <= 1 + n /\ (y + 1) - 1 = y
      BY <2>2
    <3>. QED  BY <2>3, <2>4, <2>5, <3>1
  <2>. QED  BY <2>2, <2>4, <2>5, <2>6, <2>7
<1> HIDE DEF n, F
<1>14. K + 1 \in 1..(K + 1) /\ n = Offset(m, K + 1) - 2 /\ Offset(m, K + 1) \in Nat
  <2>1. K + 1 \in 1..(K + 1)
    BY <1>1
  <2>. QED  BY <1>7, <1>10, <1>11, <2>1 DEF n
<1>15. ASSUME NEW i \in 1..K, NEW x \in 1..Len(Loaded(body[i]))
       PROVE  /\ Offset(m, i) + x <= n + 2
              /\ F[Offset(m, i) + (x - 1)] = Loaded(body[i])[x]
  <2>1. i \in 1..(K + 1)
    BY <1>1
  <2>2. Offset(m, i) \in Nat /\ off[i] = Offset(m, i) - 2 /\ off[i] \in Nat
    BY <1>7, <1>8, <1>10, <2>1
  <2>3. x \in Nat /\ x >= 1 /\ x \in 1..Len(s[i]) /\ s[i][x] = Loaded(body[i])[x]
    BY <1>5, <1>6
  <2>4. off[i] + x <= n /\ flat[off[i] + x] = Loaded(body[i])[x]
    BY <1>11, <2>3 DEF n
  <2>5. off[i] + x \in 1..n
    <3> DEFINE y == off[i] + x
    <3>1. y \in Nat /\ y >= 1 /\ n \in Nat
      BY <1>13, <2>2, <2>3
    <3>2. y <= n
      BY <2>4
    <3> HIDE DEF y
    <3>3. y \in 1..n
      BY <3>1, <3>2
    <3>. QED  BY <3>3 DEF y
  <2>6. F[(off[i] + x) + 1] = Loaded(body[i])[x]
    BY <1>13, <2>4, <2>5
  <2>7. (off[i] + x) + 1 = Offset(m, i) + (x - 1) /\ Offset(m, i) + x = (off[i] + x) + 2
    BY <2>2, <2>3
  <2>8. Offset(m, i) + x <= n + 2
    <3> DEFINE y == off[i] + x
    <3>1. y \in 1..n
      BY <2>5
    <3>2. Offset(m, i) + x = y + 2
      BY <2>7
    <3>3. n \in Nat
      BY <1>13
    <3> HIDE DEF y
    <3>. QED  BY <3>1, <3>2, <3>3
  <2>. QED  BY <2>6, <2>7, <2>8
<1>. QED  BY <1>13, <1>14, <1>15 DEF F, K, body

\* Every message the decoder takes fits au8LinkTxBuffer as a frame.
FramesFit ==
  \A m \in Messages : Len(m.data) < MaxLength => Len(FrameOf(m)) < IndexRange

LEMMA BufferedWhole ==
  ASSUME NEW f \in Seq(Byte), Len(f) < IndexRange
  PROVE  Buffered(f) = f
<1> DEFINE n == Len(f)
           R == IndexRange
<1>1. n \in Nat /\ R \in Nat \ {0} /\ n < R /\ DOMAIN f = 1..n /\ f = [p \in 1..n |-> f[p]]
  BY Sizes, LenProperties
<1>2. Buffered(f) = [p \in 1..(n % R) |-> f[p + R * ((n - p) \div R)]]
  BY DEF Buffered
<1> HIDE DEF n, R
<1>3. n % R = n /\ \A p \in 1..n : (n - p) \div R = 0
  BY <1>1, SMTT(40)
<1>4. \A p \in 1..n : p + R * ((n - p) \div R) = p
  <2>1. R * 0 = 0
    BY <1>1
  <2>. QED  BY <1>1, <1>3, <2>1
<1>5. [p \in 1..n |-> f[p + R * ((n - p) \div R)]] = [p \in 1..n |-> f[p]]
  BY <1>4
<1>. QED  BY <1>1, <1>2, <1>3, <1>5

-----------------------------------------------------------------------------
\* From place p on, the unread bytes are those of frame n from its byte q on.
Stored(n, p, q) ==
  LET F == FrameOf(sent[n])
  IN  /\ p \in Nat \ {0} /\ q \in 1..Len(F)
      /\ p + (Len(F) - q) <= Len(Unread)
      /\ \A k \in q..Len(F) : Unread[p + (k - q)] = [byte |-> F[k], frame |-> n]

\* The decoder has taken the bytes of the body of m before the i-th.
Seen(m, i) ==
  /\ i = 1 => rx.state = "typeMSB"
  /\ i = 2 => rx.state = "typeLSB" /\ msg.type = High(m.type) * Base
  /\ i >= 3 => msg.type = m.type
  /\ i = 3 => rx.state = "lenMSB"
  /\ i = 4 => rx.state = "lenLSB" /\ msg.length = High(Len(m.data)) * Base
  /\ i >= 5 => msg.length = Len(m.data)
  /\ i = 5 => rx.state = "crc"
  /\ i <= 5 => rx.bytes = 0
  /\ i >= 6 => /\ rx.state = "data" /\ rx.bytes = i - 6
               /\ rx.crc = CRC(m.type, Len(m.data), m.data)
               /\ \A j \in 1..(i - 6) : msg.data[j] = m.data[j]

\* The frame was handed over, is unread as a whole, or is being read: the next
\* byte is the i-th of the body or, after an escape character, its escaped form.
Handed(n) ==
  \E i \in DOMAIN received :
    received[i] = [type |-> sent[n].type, data |-> sent[n].data, frame |-> n]
Waiting(n) == \E p \in Nat : Stored(n, p, 1)
ReadingAt(n, i) ==
  /\ Seen(sent[n], i)
  /\ \/ ~rx.inEsc /\ Stored(n, 1, Offset(sent[n], i))
     \/ /\ i <= Len(Body(sent[n])) /\ Body(sent[n])[i] < EscBit
        /\ rx.inEsc /\ Stored(n, 1, Offset(sent[n], i) + 1)
Reading(n) == \E i \in 1..(Len(Body(sent[n])) + 1) : ReadingAt(n, i)

Intact(n) == Handed(n) \/ Waiting(n) \/ Reading(n)

FramesKept ==
  ~halted => \A n \in 1..Len(sent) :
               n \notin damaged /\ Len(sent[n].data) < MaxLength => Intact(n)

LEMMA UnreadType ==
  ASSUME LineOK
  PROVE  /\ Unread \in Seq(Marked) /\ Len(Unread) \in Nat
         /\ Len(Unread) = Len(rxQueue) + Len(wire)
         /\ Len(rxQueue) \in Nat /\ Len(wire) \in Nat
         /\ \A j \in 1..(Len(rxQueue) + Len(wire)) :
              Unread[j] = IF j <= Len(rxQueue) THEN rxQueue[j]
                          ELSE wire[j - Len(rxQueue)]
<1>1. rxQueue \in Seq(Marked) /\ wire \in Seq(Marked)
  BY DEF LineOK
<1>2. /\ rxQueue \o wire \in Seq(Marked)
      /\ Len(rxQueue \o wire) = Len(rxQueue) + Len(wire)
      /\ \A j \in 1..(Len(rxQueue) + Len(wire)) :
           (rxQueue \o wire)[j] = IF j <= Len(rxQueue) THEN rxQueue[j]
                                  ELSE wire[j - Len(rxQueue)]
  BY <1>1, ConcatProperties, Zenon
<1>3. Len(rxQueue) \in Nat /\ Len(wire) \in Nat
  BY <1>1, LenProperties
<1>. QED  BY <1>2, <1>3 DEF Unread

LEMMA SentMessage ==
  ASSUME LineOK, NEW n \in 1..Len(sent)
  PROVE  /\ sent[n] \in Messages
         /\ FrameOf(sent[n]) \in Seq(Byte) /\ Len(FrameOf(sent[n])) \in Nat
         /\ Len(FrameOf(sent[n])) >= 2
<1>1. sent[n] \in Messages
  BY ElementOfSeq DEF LineOK
<1> DEFINE m == sent[n]
           K == Len(Body(m))
<1> HIDE DEF m
<1>2. m \in Messages
  BY <1>1 DEF m
<1>3. K \in Nat /\ K >= 5
  BY <1>2, BodyShape
<1>4. FrameOf(m) \in Seq(Byte) /\ Len(FrameOf(m)) \in Nat
      /\ Len(FrameOf(m)) = Offset(m, K + 1)
  BY <1>2, FramePlaced
<1>5. Offset(m, K) \in Nat /\ Offset(m, K) >= 2
      /\ Offset(m, K + 1) = Offset(m, K) + Len(Loaded(Body(m)[K]))
  <2>1. K \in 1..Len(Body(m))
    BY <1>3
  <2>. QED  BY <1>2, <2>1, OffsetStep
<1>6. Len(Loaded(Body(m)[K])) \in Nat
  <2>1. Body(m)[K] \in Byte
    BY <1>2, <1>3, BodyShape
  <2>. QED  BY <2>1, LoadedShape, LenProperties
<1>. QED  BY <1>2, <1>4, <1>5, <1>6 DEF m

\* The bytes of a frame moved d places towards the reader.
LEMMA StoredMoved ==
  ASSUME LineOK, LineOK', NEW n \in 1..Len(sent), NEW p \in Nat, NEW q \in Nat,
         Stored(n, p, q), sent'[n] = sent[n],
         NEW d \in 0..1, p - d >= 1,
         \A j \in 1..Len(Unread) :
           j >= p /\ j <= p + (Len(FrameOf(sent[n])) - q) =>
             j - d <= Len(Unread') /\ Unread'[j - d] = Unread[j]
  PROVE  Stored(n, p - d, q)'
<1> DEFINE F == FrameOf(sent[n])
           L == Len(F)
<1>1. L \in Nat /\ Len(Unread) \in Nat /\ Len(Unread') \in Nat
  BY SentMessage, UnreadType
<1>2. FrameOf(sent'[n]) = F
  OBVIOUS
<1>h. \A j \in 1..Len(Unread) :
        j >= p /\ j <= p + (L - q) => j - d <= Len(Unread') /\ Unread'[j - d] = Unread[j]
  OBVIOUS
<1> HIDE DEF F
<1>3. /\ p >= 1 /\ q \in 1..L /\ p + (L - q) <= Len(Unread)
      /\ \A k \in q..L : Unread[p + (k - q)] = [byte |-> F[k], frame |-> n]
  BY DEF Stored, F
<1>4. \A k \in q..L : /\ p + (k - q) \in 1..Len(Unread)
                      /\ p + (k - q) >= p /\ p + (k - q) <= p + (L - q)
                      /\ (p + (k - q)) - d = (p - d) + (k - q)
  <2> HIDE DEF L
  <2>. QED  BY <1>1, <1>3
<1>5. \A k \in q..L : Unread'[(p - d) + (k - q)] = [byte |-> F[k], frame |-> n]
  BY <1>3, <1>4, <1>h
<1>6. (p - d) + (L - q) <= Len(Unread')
  <2>1. L \in q..L
    <3> HIDE DEF L
    <3>. QED  BY <1>1, <1>3
  <2>. QED  BY <1>4, <1>h, <2>1
<1>7. p - d \in Nat \ {0}
  OBVIOUS
<1>. QED  BY <1>2, <1>3, <1>5, <1>6, <1>7 DEF Stored

\* The first unread byte of a frame is read and the frame has another.
LEMMA StoredRead ==
  ASSUME LineOK, LineOK', NEW n \in 1..Len(sent), NEW q \in Nat,
         Stored(n, 1, q), sent'[n] = sent[n], q < Len(FrameOf(sent[n])),
         \A j \in 1..Len(Unread) :
           j >= 2 => j - 1 <= Len(Unread') /\ Unread'[j - 1] = Unread[j]
  PROVE  Stored(n, 1, q + 1)'
<1> DEFINE F == FrameOf(sent[n])
           L == Len(F)
<1>1. L \in Nat /\ Len(Unread) \in Nat /\ Len(Unread') \in Nat /\ q < L
  BY SentMessage, UnreadType
<1>2. FrameOf(sent'[n]) = F
  OBVIOUS
<1>3. /\ q \in 1..L /\ 1 + (L - q) <= Len(Unread)
      /\ \A k \in q..L : Unread[1 + (k - q)] = [byte |-> F[k], frame |-> n]
  BY DEF Stored
<1> HIDE DEF L
<1>4. \A k \in (q + 1)..L : /\ k \in q..L
                            /\ 1 + (k - q) \in 1..Len(Unread)
                            /\ 1 + (k - q) >= 2
                            /\ (1 + (k - q)) - 1 = 1 + (k - (q + 1))
  BY <1>1, <1>3
<1>5. \A k \in (q + 1)..L : Unread'[1 + (k - (q + 1))] = [byte |-> F[k], frame |-> n]
  BY <1>3, <1>4
<1>6. 1 + (L - (q + 1)) <= Len(Unread') /\ q + 1 \in 1..L
  <2>1. L \in (q + 1)..L
    BY <1>1, <1>3
  <2>. QED  BY <1>1, <1>3, <1>4, <2>1
<1>. QED  BY <1>2, <1>5, <1>6 DEF Stored, L

-----------------------------------------------------------------------------
(* The decoder on a frame that is not damaged.                             *)

LEMMA WordSplit ==
  ASSUME NEW w \in Word
  PROVE  High(w) * Base + Low(w) = w
<1> DEFINE B == Base
<1>1. B \in Nat /\ B > 0 /\ w \in Nat
  BY Bytes DEF Word
<1> HIDE DEF B
<1>2. w = B * (w \div B) + (w % B) /\ B * (w \div B) = (w \div B) * B
  BY <1>1
<1>. QED  BY <1>2 DEF High, Low, B

\* The decoder takes the next byte of the body and is then as far as that byte.
LEMMA DecodeBody ==
  ASSUME DecoderInv, NEW m \in Messages,
         NEW i \in 1..Len(Body(m)), Seen(m, i), UseByte(Body(m)[i]),
         i = 4 => Len(m.data) <= MaxLength
  PROVE  Seen(m, i + 1)' /\ rx'.inEsc = FALSE
<1> DEFINE RxType == [state : RxStates, crc : Byte, bytes : 0..MaxLength, inEsc : BOOLEAN]
           MsgType == [type : Word, length : Word, data : [1..MaxLength -> Byte]]
           n == Len(m.data)
           d == Body(m)[i]
<1>0. rx \in RxType /\ msg \in MsgType /\ MaxLength \in Nat
  BY Sizes DEF DecoderInv, DecoderOK
<1>1. /\ i \in Nat /\ i >= 1 /\ i <= 5 + n /\ n \in Nat
      /\ m.type \in Word /\ n \in Word
  BY BodyShape, MessageParts
<1>2. /\ i = 1 => d = High(m.type)
      /\ i = 2 => d = Low(m.type)
      /\ i = 3 => d = High(n)
      /\ i = 4 => d = Low(n)
      /\ i = 5 => d = CRC(m.type, n, m.data)
  BY BodyShape
<1>3. i >= 6 => d = m.data[i - 5] /\ i - 5 \in 1..n
  <2> SUFFICES ASSUME i >= 6 PROVE d = m.data[i - 5] /\ i - 5 \in 1..n
    OBVIOUS
  <2>1. i - 5 \in 1..n /\ 5 + (i - 5) = i
    BY <1>1
  <2>2. Body(m)[5 + (i - 5)] = m.data[i - 5]
    BY <2>1, BodyShape
  <2>. QED  BY <2>1, <2>2
<1> HIDE DEF d
<1>4. UseByte(d)
  BY DEF d
<1> DEFINE t == m.type
           crc == CRC(t, n, m.data)
<1>t. t = m.type
  OBVIOUS
<1>n. n = Len(m.data)
  OBVIOUS
<1>s. /\ i = 1 => rx.state = "typeMSB"
      /\ i = 2 => rx.state = "typeLSB" /\ msg.type = High(t) * Base
      /\ i >= 3 => msg.type = t
      /\ i = 3 => rx.state = "lenMSB"
      /\ i = 4 => rx.state = "lenLSB" /\ msg.length = High(n) * Base
      /\ i >= 5 => msg.length = n
      /\ i = 5 => rx.state = "crc"
      /\ i <= 5 => rx.bytes = 0
      /\ i >= 6 => /\ rx.state = "data" /\ rx.bytes = i - 6
                   /\ rx.crc = crc
                   /\ \A j \in 1..(i - 6) : msg.data[j] = m.data[j]
  BY DEF Seen
<1>c. crc = CRC(t, n, m.data)
  OBVIOUS
<1> HIDE DEF t, n, crc
<1>5. CASE i = 1
  <2>1. Goto("typeLSB") /\ msg' = [msg EXCEPT !.type = d * Base]
    BY <1>4, <1>5, <1>s DEF UseByte
  <2>2. /\ rx'.state = "typeLSB" /\ rx'.inEsc = FALSE /\ rx'.bytes = rx.bytes
        /\ msg'.type = d * Base
    BY <1>0, <2>1 DEF Goto
  <2>. QED  BY <1>2, <1>5, <1>s, <1>t, <2>2 DEF Seen
<1>6. CASE i = 2
  <2>1. Goto("lenMSB") /\ msg' = [msg EXCEPT !.type = msg.type + d]
    BY <1>4, <1>6, <1>s DEF UseByte
  <2>2. /\ rx'.state = "lenMSB" /\ rx'.inEsc = FALSE /\ rx'.bytes = rx.bytes
        /\ msg'.type = msg.type + d
    BY <1>0, <2>1 DEF Goto
  <2>3. msg'.type = t
    <3>1. High(t) * Base + Low(t) = t
      BY <1>1, <1>t, WordSplit
    <3>. QED  BY <1>2, <1>6, <1>s, <1>t, <2>2, <3>1
  <2>. QED  BY <1>6, <1>s, <1>t, <2>2, <2>3 DEF Seen
<1>7. CASE i = 3
  <2>1. Goto("lenLSB") /\ msg' = [msg EXCEPT !.length = d * Base]
    BY <1>4, <1>7, <1>s DEF UseByte
  <2>2. /\ rx'.state = "lenLSB" /\ rx'.inEsc = FALSE /\ rx'.bytes = rx.bytes
        /\ msg'.length = d * Base /\ msg'.type = msg.type
    BY <1>0, <2>1 DEF Goto
  <2>. QED  BY <1>2, <1>7, <1>s, <1>t, <1>n, <2>2 DEF Seen
<1>8. CASE i = 4
  <2>1. LengthLSB(d)
    BY <1>4, <1>8, <1>s DEF UseByte
  <2>2. msg.length + d = n
    <3>1. High(n) * Base + Low(n) = n
      BY <1>1, <1>n, WordSplit
    <3>. QED  BY <1>2, <1>8, <1>s, <1>n, <3>1
  <2>3. ~ (n > MaxLength)
    BY <1>0, <1>1, <1>8, <1>n
  <2>4. /\ msg' = [msg EXCEPT !.length = n]
        /\ rx' = [rx EXCEPT !.inEsc = FALSE, !.state = "crc"]
    BY <2>1, <2>2, <2>3 DEF LengthLSB
  <2>5. /\ rx'.state = "crc" /\ rx'.inEsc = FALSE /\ rx'.bytes = rx.bytes
        /\ msg'.length = n /\ msg'.type = msg.type
    BY <1>0, <2>4
  <2>. QED  BY <1>8, <1>s, <1>t, <1>n, <2>5 DEF Seen
<1>9. CASE i = 5
  <2>1. UNCHANGED msg /\ rx' = [rx EXCEPT !.inEsc = FALSE, !.state = "data", !.crc = d]
    BY <1>4, <1>9, <1>s DEF UseByte
  <2>2. /\ rx'.state = "data" /\ rx'.inEsc = FALSE /\ rx'.bytes = 0 /\ rx'.crc = d
        /\ msg' = msg
    BY <1>0, <1>9, <1>s, <2>1
  <2>3. i + 1 = 6 /\ \A j \in 1..(6 - 6) : FALSE
    BY <1>9
  <2>. QED  BY <1>2, <1>9, <1>s, <1>t, <1>n, <1>c, <2>2, <2>3 DEF Seen
<1>10. CASE i >= 6
  <2>0. rx.state = "data" /\ rx.bytes = i - 6 /\ msg.length = n
    BY <1>1, <1>10, <1>s
  <2>1. rx.state = "data" /\ rx.bytes = i - 6 /\ msg.length = n /\ rx.bytes < msg.length
        /\ n <= MaxLength
    BY <1>1, <1>10, <2>0 DEF DecoderInv, Decoding
  <2>2. /\ msg' = [msg EXCEPT !.data[rx.bytes + 1] = d]
        /\ rx' = [rx EXCEPT !.inEsc = FALSE, !.bytes = rx.bytes + 1]
    <3>1. Store(d)
      BY <1>4, <2>1 DEF UseByte
    <3>. QED  BY <2>1, <3>1 DEF Store
  <2>3. rx.bytes + 1 = i - 5 /\ i - 5 \in 1..MaxLength /\ i - 5 = (i + 1) - 6
    BY <1>0, <1>1, <1>3, <1>10, <1>n, <2>1
  <2>4. /\ rx'.state = "data" /\ rx'.inEsc = FALSE /\ rx'.bytes = (i + 1) - 6
        /\ rx'.crc = rx.crc /\ msg'.type = msg.type /\ msg'.length = n
    BY <1>0, <2>1, <2>2, <2>3
  <2>5. \A j \in 1..((i + 1) - 6) : msg'.data[j] = m.data[j]
    <3> SUFFICES ASSUME NEW j \in 1..(i - 5) PROVE msg'.data[j] = m.data[j]
      BY <2>3
    <3>1. j \in 1..MaxLength
      BY <1>0, <1>1, <2>3
    <3>2. msg'.data[j] = IF j = i - 5 THEN d ELSE msg.data[j]
      BY <1>0, <2>2, <2>3, <3>1
    <3>3. CASE j = i - 5
      BY <1>3, <1>10, <3>2, <3>3
    <3>4. CASE j # i - 5
      <4>1. j \in 1..(i - 6)
        BY <1>1, <3>4
      <4>. QED  BY <1>10, <1>s, <3>2, <3>4, <4>1
    <3>. QED  BY <3>3, <3>4
  <2>6. i + 1 >= 6 /\ ~ (i + 1 <= 5) /\ i >= 5 /\ i >= 3
    BY <1>1, <1>10
  <2>. QED  BY <1>1, <1>10, <1>s, <1>t, <1>n, <1>c, <2>4, <2>5, <2>6 DEF Seen
<1>11. i = 1 \/ i = 2 \/ i = 3 \/ i = 4 \/ i = 5 \/ i >= 6
  BY <1>1
<1>. QED  BY <1>5, <1>6, <1>7, <1>8, <1>9, <1>10, <1>11, Zenon

ReadStep == ReadStart \/ ReadEsc \/ ReadEnd \/ ReadOther

LEMMA ReadMoves ==
  ASSUME LineOK, LineOK', ReadStep
  PROVE  /\ sent' = sent /\ damaged' = damaged
         /\ Len(Unread) >= 1 /\ Unread[1] = Head(rxQueue)
         /\ \A j \in 1..Len(Unread) :
              j >= 2 => j - 1 <= Len(Unread') /\ Unread'[j - 1] = Unread[j]
<1>1. /\ rxQueue # <<>> /\ rxQueue' = Tail(rxQueue) /\ wire' = wire
      /\ sent' = sent /\ damaged' = damaged
  BY DEF ReadStep, ReadStart, ReadEsc, ReadEnd, ReadOther, Read, lineVars
<1>2. /\ Len(rxQueue) \in Nat /\ Len(rxQueue) >= 1
      /\ Head(rxQueue) = rxQueue[1]
      /\ Len(rxQueue') = Len(rxQueue) - 1
      /\ \A j \in 1..(Len(rxQueue) - 1) : rxQueue'[j] = rxQueue[j + 1]
  <2>1. rxQueue \in Seq(Marked)
    BY DEF LineOK
  <2>2. Len(rxQueue) # 0 /\ Len(rxQueue) \in Nat
    BY <1>1, <2>1, EmptySeq, LenProperties
  <2>. QED  BY <1>1, <2>1, <2>2, HeadTailProperties
<1> DEFINE a == Len(rxQueue)
           b == Len(wire)
<1>3. /\ a \in Nat /\ b \in Nat /\ a >= 1 /\ Len(Unread) = a + b
      /\ \A j \in 1..(a + b) : Unread[j] = IF j <= a THEN rxQueue[j] ELSE wire[j - a]
  BY <1>2, UnreadType
<1>4. /\ Len(Unread') = (a - 1) + b
      /\ \A j \in 1..((a - 1) + b) :
           Unread'[j] = IF j <= a - 1 THEN rxQueue'[j] ELSE wire[j - (a - 1)]
  <2>1. /\ Len(Unread') = Len(rxQueue') + Len(wire')
        /\ \A j \in 1..(Len(rxQueue') + Len(wire')) :
             Unread'[j] = IF j <= Len(rxQueue') THEN rxQueue'[j]
                          ELSE wire'[j - Len(rxQueue')]
    <3>1. rxQueue' \in Seq(Marked) /\ wire' \in Seq(Marked)
      BY DEF LineOK
    <3>2. Unread' = rxQueue' \o wire'
      BY DEF Unread
    <3>3. /\ Len(rxQueue' \o wire') = Len(rxQueue') + Len(wire')
          /\ \A j \in 1..(Len(rxQueue') + Len(wire')) :
               (rxQueue' \o wire')[j] = IF j <= Len(rxQueue') THEN rxQueue'[j]
                                        ELSE wire'[j - Len(rxQueue')]
      BY <3>1, ConcatProperties, Zenon
    <3>. QED  BY <3>2, <3>3, Zenon
  <2>. QED  BY <1>1, <1>2, <2>1
<1> HIDE DEF a, b
<1>5. Unread[1] = Head(rxQueue) /\ Len(Unread) >= 1
  <2>1. 1 \in 1..(a + b) /\ 1 <= a
    BY <1>3
  <2>. QED  BY <1>2, <1>3, <2>1
<1>6. ASSUME NEW j \in 1..Len(Unread), j >= 2
      PROVE  j - 1 <= Len(Unread') /\ Unread'[j - 1] = Unread[j]
  <2>1. j \in 1..(a + b) /\ j - 1 \in 1..((a - 1) + b) /\ j - 1 <= (a - 1) + b
        /\ (j <= a <=> j - 1 <= a - 1) /\ (j - 1) - (a - 1) = j - a /\ (j - 1) + 1 = j
    BY <1>3, <1>6
  <2>2. CASE j <= a
    <3>1. j - 1 \in 1..(a - 1)
      BY <1>3, <1>6, <2>2
    <3>. QED  BY <1>2, <1>3, <1>4, <2>1, <2>2, <3>1 DEF a
  <2>3. CASE ~ (j <= a)
    BY <1>3, <1>4, <2>1, <2>3
  <2>. QED  BY <2>2, <2>3
<1>. QED  BY <1>1, <1>5, <1>6

LEMMA StoredHead ==
  ASSUME LineOK, NEW n \in 1..Len(sent), NEW q \in Nat, Stored(n, 1, q),
         Unread[1] = Head(rxQueue)
  PROVE  /\ Head(rxQueue).byte = FrameOf(sent[n])[q] /\ Head(rxQueue).frame = n
         /\ q \in 1..Len(FrameOf(sent[n]))
<1> DEFINE F == FrameOf(sent[n])
           L == Len(F)
<1>1. q \in 1..L /\ \A k \in q..L : Unread[1 + (k - q)] = [byte |-> F[k], frame |-> n]
  BY DEF Stored
<1>2. L \in Nat
  BY SentMessage
<1> HIDE DEF L, F
<1>3. q \in q..L /\ 1 + (q - q) = 1
  BY <1>1, <1>2
<1>4. Unread[1] = [byte |-> F[q], frame |-> n]
  BY <1>1, <1>3
<1>. QED  BY <1>1, <1>4 DEF F, L

\* A byte that is not a special character is taken by ReadOther.
LEMMA WhichRead ==
  ASSUME ReadStep
  PROVE  /\ Head(rxQueue).byte = Start => ReadStart
         /\ Head(rxQueue).byte = Esc => ReadEsc
         /\ Head(rxQueue).byte = End => ReadEnd
         /\ Head(rxQueue).byte \notin {Start, Esc, End} =>
              /\ UseByte(IF rx.inEsc THEN Xor[<<Head(rxQueue).byte, EscBit>>]
                         ELSE Head(rxQueue).byte)
              /\ UNCHANGED received
<1>0. Start = 1 /\ Esc = 2 /\ End = 3
  BY DEF Start, Esc, End
<1>1. CASE ReadStart
  BY <1>0, <1>1 DEF ReadStart, Read
<1>2. CASE ReadEsc
  BY <1>0, <1>2 DEF ReadEsc, Read
<1>3. CASE ReadEnd
  BY <1>0, <1>3 DEF ReadEnd, Read
<1>4. CASE ReadOther
  <2>1. PICK b \in Byte \ {Start, Esc, End} :
          /\ Read(b)
          /\ UseByte(IF rx.inEsc THEN Xor[<<b, EscBit>>] ELSE b)
          /\ UNCHANGED received
    BY <1>4, Zenon DEF ReadOther, UseByte
  <2>2. b = Head(rxQueue).byte
    BY <2>1 DEF Read
  <2>. QED  BY <2>1, <2>2
<1>. QED  BY <1>1, <1>2, <1>3, <1>4 DEF ReadStep

\* The start character of an unread frame is read.
LEMMA StartIsRead ==
  ASSUME DecoderInv, LineOK', ReadStep, NEW n \in 1..Len(sent), Stored(n, 1, 1)
  PROVE  Reading(n)'
<1> USE DEF DecoderInv
<1>0. PICK m \in Messages : m = sent[n]
  BY SentMessage
<1> DEFINE F == FrameOf(m)
<1>1. m \in Messages /\ Len(F) \in Nat /\ Len(F) >= 2
  BY <1>0, SentMessage
<1>2. sent' = sent /\ sent'[n] = m /\ Unread[1] = Head(rxQueue)
  BY <1>0, ReadMoves
<1>3. Head(rxQueue).byte = F[1] /\ F[1] = Start
  BY <1>0, <1>1, <1>2, StoredHead, FramePlaced
<1>4. ReadStart
  BY <1>3, WhichRead
<1>5. /\ rx' = [rx EXCEPT !.state = "typeMSB", !.bytes = 0, !.inEsc = FALSE]
      /\ rx \in [state : RxStates, crc : Byte, bytes : 0..MaxLength, inEsc : BOOLEAN]
  BY <1>4 DEF ReadStart, Restart, DecoderOK
<1>6. rx'.state = "typeMSB" /\ rx'.bytes = 0 /\ rx'.inEsc = FALSE
  BY <1>5
<1>7. Stored(n, 1, 1 + 1)'
  <2>1. 1 < Len(FrameOf(sent[n]))
    BY <1>0, <1>1
  <2>2. sent'[n] = sent[n]
    BY <1>0, <1>2
  <2>3. \A j \in 1..Len(Unread) :
          j >= 2 => j - 1 <= Len(Unread') /\ Unread'[j - 1] = Unread[j]
    BY ReadMoves
  <2>. QED  BY <2>1, <2>2, <2>3, StoredRead
<1>8. Len(Body(m)) \in Nat /\ Len(Body(m)) >= 5 /\ Offset(m, 1) = 2
  <2>1. Len(Body(m)) \in Nat /\ Len(Body(m)) >= 5
    BY <1>1, BodyShape
  <2>2. 1 \in 1..Len(Body(m))
    BY <2>1
  <2>. QED  BY <1>1, <2>1, <2>2, OffsetStep
<1>9. Seen(m, 1)'
  BY <1>6 DEF Seen
<1>10. Stored(n, 1, Offset(m, 1))'
  <2>1. 1 + 1 = Offset(m, 1)
    BY <1>8
  <2>. QED  BY <1>7, <2>1
<1>11. ReadingAt(n, 1)'
  BY <1>2, <1>6, <1>9, <1>10, Zenon DEF ReadingAt
<1>12. 1 \in 1..(Len(Body(m)) + 1)
  BY <1>8
<1>. QED  BY <1>2, <1>11, <1>12, Zenon DEF Reading

\* Where the frame of a message has the byte i of its body.
LEMMA BodyByte ==
  ASSUME NEW m \in Messages, NEW i \in 1..Len(Body(m))
  PROVE  /\ Offset(m, i) \in Nat /\ Offset(m, i) >= 2
         /\ Offset(m, i) < Len(FrameOf(m)) /\ Len(FrameOf(m)) \in Nat
         /\ Body(m)[i] \in Byte
         /\ Body(m)[i] < EscBit =>
              /\ FrameOf(m)[Offset(m, i)] = Esc
              /\ FrameOf(m)[Offset(m, i) + 1] = Xor[<<Body(m)[i], EscBit>>]
              /\ Offset(m, i + 1) = Offset(m, i) + 2
              /\ Offset(m, i) + 1 < Len(FrameOf(m))
         /\ ~ (Body(m)[i] < EscBit) =>
              /\ FrameOf(m)[Offset(m, i)] = Body(m)[i]
              /\ Offset(m, i + 1) = Offset(m, i) + 1
<1> DEFINE b == Body(m)[i]
           o == Offset(m, i)
           F == FrameOf(m)
           L == Len(F)
<1>1. b \in Byte
  BY BodyShape
<1>2. o \in Nat /\ o >= 2 /\ Offset(m, i + 1) = o + Len(Loaded(b))
  BY OffsetStep
<1>3. /\ L \in Nat
      /\ \A x \in 1..Len(Loaded(b)) : o + x <= L /\ F[o + (x - 1)] = Loaded(b)[x]
  BY FramePlaced
<1> HIDE DEF b, o, L, F
<1>4. CASE b < EscBit
  <2>1. Len(Loaded(b)) = 2 /\ Loaded(b)[1] = Esc /\ Loaded(b)[2] = Xor[<<b, EscBit>>]
    BY <1>1, <1>4, LoadedShape
  <2>2. 1 \in 1..Len(Loaded(b)) /\ 2 \in 1..Len(Loaded(b))
    BY <2>1
  <2>3. /\ o + 2 <= L /\ F[o + (1 - 1)] = Loaded(b)[1] /\ F[o + (2 - 1)] = Loaded(b)[2]
    BY <1>3, <2>2
  <2>4. o + (1 - 1) = o /\ o + (2 - 1) = o + 1 /\ o < L /\ o + 1 < L
    BY <1>2, <1>3, <2>3
  <2>5. F[o] = Esc /\ F[o + 1] = Xor[<<b, EscBit>>]
    BY <2>1, <2>3, <2>4
  <2>. QED  BY <1>1, <1>2, <1>3, <1>4, <2>1, <2>4, <2>5 DEF b, o, L, F
<1>5. CASE ~ (b < EscBit)
  <2>1. Len(Loaded(b)) = 1 /\ Loaded(b)[1] = b
    BY <1>1, <1>5, LoadedShape
  <2>2. 1 \in 1..Len(Loaded(b))
    BY <2>1
  <2>3. /\ o + 1 <= L /\ F[o + (1 - 1)] = Loaded(b)[1]
    BY <1>3, <2>2
  <2>4. o + (1 - 1) = o /\ o < L
    BY <1>2, <1>3, <2>3
  <2>5. F[o] = b
    BY <2>1, <2>3, <2>4
  <2>. QED  BY <1>1, <1>2, <1>3, <1>5, <2>1, <2>4, <2>5 DEF b, o, L, F
<1>. QED  BY <1>4, <1>5

\* Once the whole body was taken, sMessage is the message.
LEMMA WholeBody ==
  ASSUME DecoderInv, NEW m \in Messages, Len(m.data) <= MaxLength, Seen(m, Len(Body(m)) + 1)
  PROVE  /\ msg.type = m.type /\ msg.length = Len(m.data)
         /\ rx.state = "data" /\ rx.bytes = msg.length
         /\ SubSeq(msg.data, 1, msg.length) = m.data
         /\ Accepted(msg, rx.crc) <=> Len(m.data) < MaxLength
<1> DEFINE L == Len(m.data)
           crc == CRC(m.type, L, m.data)
<1>1. /\ L \in Nat /\ Len(Body(m)) = 5 + L /\ m.data \in Seq(Byte) /\ L <= MaxLength
  BY BodyShape, MessageParts
<1>2. /\ msg.type = m.type /\ msg.length = L /\ rx.crc = crc
      /\ rx.state = "data" /\ rx.bytes = L
      /\ \A j \in 1..L : msg.data[j] = m.data[j]
  <2>1. Len(Body(m)) + 1 >= 6 /\ Len(Body(m)) + 1 >= 5 /\ Len(Body(m)) + 1 >= 3
        /\ (Len(Body(m)) + 1) - 6 = L
    BY <1>1
  <2>. QED  BY <2>1 DEF Seen
<1> HIDE DEF L, crc
<1> DEFINE payload == SubSeq(msg.data, 1, L)
<1>4. payload = m.data
  <2>1. msg.data \in [1..MaxLength -> Byte] /\ MaxLength \in Nat
    BY Sizes DEF DecoderInv, DecoderOK
  <2>2. msg.data \in Seq(Byte) /\ Len(msg.data) = MaxLength /\ L \in 0..Len(msg.data)
    BY <1>1, <2>1
  <2>3. payload \in Seq(Byte) /\ Len(payload) = L /\ \A j \in 1..L : payload[j] = msg.data[j]
    BY <2>2, PrefixProperties
  <2> HIDE DEF payload
  <2>4. Len(m.data) = L
    BY DEF L
  <2>5. \A j \in 1..L : payload[j] = m.data[j]
    BY <1>2, <2>3
  <2>. QED  BY <1>1, <2>3, <2>4, <2>5, SeqEqual
<1>5. SubSeq(msg.data, 1, msg.length) = m.data
  BY <1>2, <1>4
<1> HIDE DEF payload
<1>6. Accepted(msg, rx.crc) <=> L < MaxLength
  BY <1>2, <1>5 DEF Accepted, crc
<1>. QED  BY <1>2, <1>5, <1>6 DEF L

\* The end of a frame whose body was taken: the message is handed over.
LEMMA EndIsRead ==
  ASSUME DecoderInv, NEW n \in 1..Len(sent), NEW m \in Messages, sent[n] = m,
         Len(m.data) < MaxLength, Seen(m, Len(Body(m)) + 1),
         ReadEnd, Head(rxQueue).frame = n
  PROVE  Handed(n)'
<1>0. sent' = sent
  BY DEF ReadEnd, Read, lineVars
<1>1. /\ msg.type = m.type /\ SubSeq(msg.data, 1, msg.length) = m.data
      /\ Accepted(msg, rx.crc)
  <2>1. Len(m.data) <= MaxLength
    BY Sizes, BodyShape
  <2>. QED  BY <2>1, WholeBody
<1> DEFINE handed == [type |-> m.type, data |-> m.data, frame |-> n]
<1>7. received' = Append(received, handed)
  BY <1>1 DEF ReadEnd
<1>8. received \in Seq([type : Word, data : Seq(Byte), frame : Nat])
  BY DEF DecoderInv, DecoderOK
<1>9. received'[Len(received) + 1] = handed /\ Len(received) + 1 \in DOMAIN received'
  <2>1. Len(received) \in Nat
    BY <1>8, LenProperties
  <2> HIDE DEF handed
  <2>2. Len(Append(received, handed)) = Len(received) + 1
        /\ Append(received, handed)[Len(received) + 1] = handed
        /\ DOMAIN Append(received, handed) = 1..(Len(received) + 1)
    BY <1>8, <2>1
  <2>3. Len(received) + 1 \in 1..(Len(received) + 1)
    BY <2>1
  <2>. QED  BY <1>7, <2>2, <2>3
<1>10. sent'[n] = m
  BY <1>0
<1>. QED  BY <1>9, <1>10 DEF Handed

\* The next byte of a frame is read while it is being read.
LEMMA ReadingStep ==
  ASSUME DecoderInv, LineOK', ReadStep, NEW n \in 1..Len(sent),
         Len(sent[n].data) < MaxLength, Reading(n)
  PROVE  Handed(n)' \/ Reading(n)'
<1>0. LineOK
  BY DEF DecoderInv
<1>m. PICK m \in Messages : m = sent[n]
  BY <1>0, SentMessage
<1>1. PICK i \in 1..(Len(Body(m)) + 1) : ReadingAt(n, i)
  BY <1>m DEF Reading
<1> DEFINE F == FrameOf(m)
           K == Len(Body(m))
           o == Offset(m, i)
           b == Body(m)[i]
           head == Head(rxQueue)
<1>2. K \in Nat /\ Len(m.data) < MaxLength /\ Len(F) \in Nat
  BY <1>m, BodyShape, FramePlaced
<1>3. /\ sent' = sent /\ sent'[n] = m /\ sent'[n] = sent[n] /\ Unread[1] = head
      /\ \A j \in 1..Len(Unread) :
           j >= 2 => j - 1 <= Len(Unread') /\ Unread'[j - 1] = Unread[j]
  BY <1>0, <1>m, ReadMoves
<1>4. ASSUME NEW q \in Nat, Stored(n, 1, q)
      PROVE  head.byte = F[q] /\ head.frame = n
  BY <1>0, <1>m, <1>3, <1>4, StoredHead
<1>5. ASSUME NEW q \in Nat, Stored(n, 1, q), q < Len(F)
      PROVE  Stored(n, 1, q + 1)'
  <2>1. q < Len(FrameOf(sent[n]))
    BY <1>m, <1>5
  <2>. QED  BY <1>0, <1>3, <1>5, <2>1, StoredRead
<1>6. /\ Seen(m, i)
      /\ \/ ~rx.inEsc /\ Stored(n, 1, o)
         \/ i <= K /\ b < EscBit /\ rx.inEsc /\ Stored(n, 1, o + 1)
  BY <1>1, <1>m DEF ReadingAt
<1>7. ASSUME NEW k \in 1..(K + 1), Seen(m, k)', rx'.inEsc = FALSE,
             Stored(n, 1, Offset(m, k))'
      PROVE  Reading(n)'
  <2>1. ReadingAt(n, k)'
    BY <1>3, <1>7, Zenon DEF ReadingAt
  <2>. QED  BY <1>3, <1>7, <2>1, Zenon DEF Reading
<1> HIDE DEF F, head
\* The byte is taken for the i-th of the body.
<1>8. ASSUME i <= K, NEW q \in Nat, Stored(n, 1, q), q < Len(F), Offset(m, i + 1) = q + 1,
             head.byte \notin {Start, Esc, End},
             (IF rx.inEsc THEN Xor[<<head.byte, EscBit>>] ELSE head.byte) = b
      PROVE  Reading(n)'
  <2>1. i \in 1..K /\ i + 1 \in 1..(K + 1)
    BY <1>2, <1>8
  <2>2. UseByte(b)
    BY <1>8, WhichRead DEF head
  <2>3. Seen(m, i + 1)' /\ rx'.inEsc = FALSE
    <3>1. Len(m.data) <= MaxLength
      BY <1>2, Sizes, BodyShape
    <3>. QED  BY <1>6, <2>1, <2>2, <3>1, DecodeBody
  <2>4. Stored(n, 1, Offset(m, i + 1))'
    BY <1>5, <1>8
  <2>. QED  BY <1>7, <2>1, <2>3, <2>4, Zenon
<1>s. Byte \subseteq Nat /\ Start = 1 /\ Esc = 2 /\ End = 3 /\ EscBit > 3 /\ EscBit \in Byte
  BY Bytes, ByteAssumption DEF Byte, Start, Esc, End
<1>9. CASE ~rx.inEsc /\ Stored(n, 1, o) /\ i <= K
  <2>1. i \in 1..K
    BY <1>2, <1>9
  <2>2. /\ o \in Nat /\ o >= 2 /\ o < Len(F) /\ b \in Byte
        /\ b < EscBit => F[o] = Esc
        /\ ~ (b < EscBit) => F[o] = b /\ Offset(m, i + 1) = o + 1
    BY <2>1, BodyByte DEF F
  <2>3. head.byte = F[o]
    BY <1>4, <1>9, <2>2
  <2>4. CASE b < EscBit
    <3>1. ReadEsc
      BY <2>2, <2>3, <2>4, WhichRead DEF head
    <3>2. /\ rx' = [rx EXCEPT !.inEsc = TRUE] /\ msg' = msg
          /\ rx \in [state : RxStates, crc : Byte, bytes : 0..MaxLength, inEsc : BOOLEAN]
      BY <3>1 DEF ReadEsc, DecoderInv, DecoderOK
    <3>3. rx'.state = rx.state /\ rx'.crc = rx.crc /\ rx'.bytes = rx.bytes /\ rx'.inEsc = TRUE
      BY <3>2
    <3>4. Seen(m, i)'
      BY <1>6, <3>2, <3>3 DEF Seen
    <3>5. Stored(n, 1, o + 1)'
      BY <1>5, <1>9, <2>2
    <3>6. ReadingAt(n, i)'
      BY <1>3, <1>9, <2>4, <3>3, <3>4, <3>5, Zenon DEF ReadingAt
    <3>. QED  BY <1>3, <3>6, Zenon DEF Reading
  <2>5. CASE ~ (b < EscBit)
    <3>1. head.byte = b /\ Offset(m, i + 1) = o + 1
      BY <2>2, <2>3, <2>5
    <3>2. b \notin {Start, Esc, End}
      BY <1>s, <2>2, <2>5
    <3>3. (IF rx.inEsc THEN Xor[<<head.byte, EscBit>>] ELSE head.byte) = b
      BY <1>9, <3>1
    <3>. QED  BY <1>8, <1>9, <2>2, <3>1, <3>2, <3>3
  <2>. QED  BY <2>4, <2>5
<1>10. CASE ~rx.inEsc /\ Stored(n, 1, o) /\ ~ (i <= K)
  <2>1. i = K + 1
    BY <1>2, <1>10
  <2>2. o = Len(F) /\ F[o] = End
    BY <2>1, FramePlaced DEF F
  <2>3. head.byte = End /\ head.frame = n
    BY <1>2, <1>4, <1>10, <2>2
  <2>4. ReadEnd
    BY <2>3, WhichRead DEF head
  <2>5. Seen(m, K + 1)
    BY <1>6, <2>1
  <2>. QED  BY <1>2, <1>m, <2>3, <2>4, <2>5, EndIsRead DEF head
<1>11. CASE i <= K /\ b < EscBit /\ rx.inEsc /\ Stored(n, 1, o + 1)
  <2>1. i \in 1..K
    BY <1>2, <1>11
  <2> DEFINE e == Xor[<<b, EscBit>>]
  <2>2. /\ o \in Nat /\ b \in Byte /\ F[o + 1] = e
        /\ Offset(m, i + 1) = o + 2 /\ o + 1 < Len(F)
    BY <1>11, <2>1, BodyByte DEF F
  <2>3. head.byte = e
    BY <1>4, <1>11, <2>2
  <2>4. e \in Byte /\ e >= EscBit /\ Xor[<<e, EscBit>>] = b
    BY <1>11, <1>s, <2>2, XorType, EscapedByte, EscapeUndone
  <2> HIDE DEF e
  <2>5. e \notin {Start, Esc, End}
    BY <1>s, <2>4
  <2>6. (IF rx.inEsc THEN Xor[<<head.byte, EscBit>>] ELSE head.byte) = b
    BY <1>11, <2>3, <2>4
  <2>7. o + 1 \in Nat /\ Offset(m, i + 1) = (o + 1) + 1
    BY <2>2
  <2>. QED  BY <1>8, <1>11, <2>2, <2>3, <2>5, <2>6, <2>7
<1>. QED  BY <1>6, <1>9, <1>10, <1>11

-----------------------------------------------------------------------------
(* The line around a frame that is not damaged.                            *)

UnreadAre(q, w, u) ==
  /\ Len(u) = Len(q) + Len(w)
  /\ \A j \in 1..(Len(q) + Len(w)) :
       u[j] = IF j <= Len(q) THEN q[j] ELSE w[j - Len(q)]

LEMMA UnreadParts ==
  ASSUME LineOK, LineOK'
  PROVE  /\ Len(rxQueue) \in Nat /\ Len(wire) \in Nat
         /\ Len(rxQueue') \in Nat /\ Len(wire') \in Nat
         /\ UnreadAre(rxQueue, wire, Unread) /\ UnreadAre(rxQueue', wire', Unread')
<1>1. /\ rxQueue \in Seq(Marked) /\ wire \in Seq(Marked)
      /\ rxQueue' \in Seq(Marked) /\ wire' \in Seq(Marked)
  BY DEF LineOK
<1>2. \A q, w \in Seq(Marked) : UnreadAre(q, w, q \o w)
  BY ConcatProperties DEF UnreadAre
<1>3. Unread = rxQueue \o wire /\ Unread' = rxQueue' \o wire'
  BY DEF Unread
<1>. QED  BY <1>1, <1>2, <1>3, LenProperties

\* What the line does to the unread bytes: it appends some, or takes one away.
LEMMA BytesAppended ==
  ASSUME LineOK, LineOK', ~halted',
         \/ \E m \in Messages : Send(m)
         \/ Arrive
         \/ \E b \in Noise : AddByte(b)
  PROVE  \A j \in 1..Len(Unread) : j <= Len(Unread') /\ Unread'[j] = Unread[j]
<1> DEFINE a == Len(rxQueue)
           b == Len(wire)
<1>1. /\ a \in Nat /\ b \in Nat /\ Len(rxQueue') \in Nat /\ Len(wire') \in Nat
      /\ Len(Unread) = a + b
      /\ \A j \in 1..(a + b) : Unread[j] = IF j <= a THEN rxQueue[j] ELSE wire[j - a]
      /\ Len(Unread') = Len(rxQueue') + Len(wire')
      /\ \A j \in 1..(Len(rxQueue') + Len(wire')) :
           Unread'[j] = IF j <= Len(rxQueue') THEN rxQueue'[j]
                        ELSE wire'[j - Len(rxQueue')]
  BY UnreadParts DEF UnreadAre
<1>2. rxQueue \in Seq(Marked) /\ wire \in Seq(Marked)
      /\ rxQueue' \in Seq(Marked) /\ wire' \in Seq(Marked)
  BY DEF LineOK
<1>3. ASSUME NEW m \in Messages, Send(m)
      PROVE  \A j \in 1..Len(Unread) : j <= Len(Unread') /\ Unread'[j] = Unread[j]
  <2> DEFINE t == Tagged(Buffered(FrameOf(m)), Len(sent) + 1)
  <2>1. rxQueue' = rxQueue /\ wire' = wire \o t
    BY <1>3 DEF Send
  <2>2. t \in Seq(Marked)
    <3>1. Len(sent) + 1 \in Nat
      BY LenProperties DEF LineOK
    <3>. QED  BY <3>1, FrameType, BufferedType, TaggedType
  <2> HIDE DEF t
  <2>3. /\ Len(t) \in Nat /\ Len(wire \o t) = Len(wire) + Len(t)
        /\ \A j \in 1..(Len(wire) + Len(t)) :
             (wire \o t)[j] = IF j <= Len(wire) THEN wire[j] ELSE t[j - Len(wire)]
    <3>1. Len(t) \in Nat
      BY <2>2, LenProperties
    <3>. QED  BY <1>2, <2>2, <3>1, ConcatProperties, Zenon
  <2>4. /\ Len(rxQueue') = a /\ Len(wire') = b + Len(t)
        /\ \A j \in 1..b : wire'[j] = wire[j]
    <3>1. \A j \in 1..b : j \in 1..(b + Len(t)) /\ j <= b
      BY <1>1, <2>3
    <3>. QED  BY <2>1, <2>3, <3>1
  <2> HIDE DEF a, b
  <2> SUFFICES ASSUME NEW j \in 1..(a + b)
               PROVE  j <= Len(Unread') /\ Unread'[j] = Unread[j]
    BY <1>1
  <2>5. j \in 1..(a + (b + Len(t))) /\ j <= a + (b + Len(t)) /\ (~ (j <= a) => j - a \in 1..b)
    BY <1>1, <2>3
  <2>. QED  BY <1>1, <2>1, <2>4, <2>5
<1>4. CASE Arrive
  <2>1. /\ wire # <<>> /\ wire' = Tail(wire) /\ rxQueue' = Append(rxQueue, Head(wire))
    BY <1>4 DEF Arrive
  <2>2. /\ b >= 1 /\ Head(wire) = wire[1] /\ Len(wire') = b - 1
        /\ \A j \in 1..(b - 1) : wire'[j] = wire[j + 1]
        /\ Head(wire) \in Marked
    <3>1. b # 0
      BY <1>2, <2>1, EmptySeq
    <3>. QED  BY <1>1, <1>2, <2>1, <3>1, HeadTailProperties
  <2>3. /\ Len(rxQueue') = a + 1 /\ rxQueue'[a + 1] = wire[1]
        /\ \A j \in 1..a : rxQueue'[j] = rxQueue[j]
    BY <1>1, <1>2, <2>1, <2>2
  <2> HIDE DEF a, b
  <2> SUFFICES ASSUME NEW j \in 1..(a + b)
               PROVE  j <= Len(Unread') /\ Unread'[j] = Unread[j]
    BY <1>1
  <2>4. j \in 1..((a + 1) + (b - 1)) /\ j <= (a + 1) + (b - 1)
    BY <1>1, <2>2
  <2>5. Unread'[j] = IF j <= a + 1 THEN rxQueue'[j] ELSE wire'[j - (a + 1)]
    BY <1>1, <2>2, <2>3, <2>4
  <2>6. CASE j <= a
    <3>1. j \in 1..a /\ j <= a + 1
      BY <1>1, <2>6
    <3>. QED  BY <1>1, <2>2, <2>3, <2>4, <2>5, <2>6, <3>1
  <2>7. CASE j = a + 1
    <3>1. ~ (j <= a) /\ j - a = 1 /\ j <= a + 1
      BY <1>1, <2>7
    <3>. QED  BY <1>1, <2>2, <2>3, <2>4, <2>5, <2>7, <3>1
  <2>8. CASE j > a + 1
    <3>1. ~ (j <= a) /\ ~ (j <= a + 1) /\ j - (a + 1) \in 1..(b - 1) /\ (j - (a + 1)) + 1 = j - a
      BY <1>1, <2>2, <2>8
    <3>2. wire'[j - (a + 1)] = wire[j - a]
      BY <2>2, <3>1
    <3>. QED  BY <1>1, <2>2, <2>3, <2>4, <2>5, <3>1, <3>2
  <2>9. j <= a \/ j = a + 1 \/ j > a + 1
    BY <1>1
  <2>. QED  BY <2>6, <2>7, <2>8, <2>9, Zenon
<1>5. ASSUME NEW c \in Noise, AddByte(c)
      PROVE  \A j \in 1..Len(Unread) : j <= Len(Unread') /\ Unread'[j] = Unread[j]
  <2> DEFINE x == [byte |-> c, frame |-> Len(sent) + 1]
  <2>1. wire = <<>> /\ wire' = wire /\ rxQueue' = Append(rxQueue, x)
    BY <1>5 DEF AddByte
  <2>2. b = 0
    BY <2>1, EmptySeq
  <2> HIDE DEF x
  <2>3. /\ Len(rxQueue') = a + 1 /\ \A j \in 1..a : rxQueue'[j] = rxQueue[j]
    BY <1>1, <1>2, <2>1
  <2>4. Len(wire') = b
    BY <2>1
  <2> HIDE DEF a, b
  <2> SUFFICES ASSUME NEW j \in 1..(a + b)
               PROVE  j <= Len(Unread') /\ Unread'[j] = Unread[j]
    BY <1>1
  <2>5. j \in 1..a /\ j \in 1..((a + 1) + b) /\ j <= a /\ j <= a + 1 /\ j <= (a + 1) + b
    BY <1>1, <2>2
  <2>. QED  BY <1>1, <2>3, <2>4, <2>5
<1>. QED  BY <1>3, <1>4, <1>5, Zenon

LEMMA ByteLost ==
  ASSUME LineOK, LineOK', LoseByte
  PROVE  \E r \in 1..Len(Unread) :
           /\ damaged' = damaged \cup {Unread[r].frame}
           /\ \A j \in 1..Len(Unread) :
                /\ j < r => j <= Len(Unread') /\ Unread'[j] = Unread[j]
                /\ j > r => j - 1 <= Len(Unread') /\ Unread'[j - 1] = Unread[j]
<1> DEFINE a == Len(rxQueue)
           b == Len(wire)
           r == a + 1
<1>1. /\ a \in Nat /\ b \in Nat /\ Len(rxQueue') \in Nat /\ Len(wire') \in Nat
      /\ Len(Unread) = a + b
      /\ \A j \in 1..(a + b) : Unread[j] = IF j <= a THEN rxQueue[j] ELSE wire[j - a]
      /\ Len(Unread') = Len(rxQueue') + Len(wire')
      /\ \A j \in 1..(Len(rxQueue') + Len(wire')) :
           Unread'[j] = IF j <= Len(rxQueue') THEN rxQueue'[j]
                        ELSE wire'[j - Len(rxQueue')]
  BY UnreadParts DEF UnreadAre
<1>2. wire # <<>> /\ wire' = Tail(wire) /\ rxQueue' = rxQueue
      /\ damaged' = damaged \cup {Head(wire).frame}
  BY DEF LoseByte
<1>3. /\ b >= 1 /\ Head(wire) = wire[1] /\ Len(wire') = b - 1
      /\ \A j \in 1..(b - 1) : wire'[j] = wire[j + 1]
  <2>1. wire \in Seq(Marked)
    BY DEF LineOK
  <2>2. b # 0
    BY <1>2, <2>1, EmptySeq
  <2>. QED  BY <1>1, <1>2, <2>1, <2>2, HeadTailProperties
<1>4. Len(rxQueue') = a
  BY <1>2
<1> HIDE DEF a, b
<1>5. r \in 1..(a + b) /\ Unread[r] = Head(wire)
  <2>1. r \in 1..(a + b) /\ ~ (r <= a) /\ r - a = 1
    BY <1>1, <1>3
  <2>. QED  BY <1>1, <1>3, <2>1
<1>6. ASSUME NEW j \in 1..(a + b), j < r
      PROVE  j <= Len(Unread') /\ Unread'[j] = Unread[j]
  <2>1. j <= a /\ j \in 1..(a + (b - 1)) /\ j <= a + (b - 1)
    BY <1>1, <1>3, <1>6
  <2>. QED  BY <1>1, <1>2, <1>3, <1>4, <2>1
<1>7. ASSUME NEW j \in 1..(a + b), j > r
      PROVE  j - 1 <= Len(Unread') /\ Unread'[j - 1] = Unread[j]
  <2>1. /\ ~ (j <= a) /\ ~ (j - 1 <= a) /\ j - 1 \in 1..(a + (b - 1)) /\ j - 1 <= a + (b - 1)
        /\ (j - 1) - a \in 1..(b - 1) /\ ((j - 1) - a) + 1 = j - a
    BY <1>1, <1>3, <1>7
  <2>2. wire'[(j - 1) - a] = wire[j - a]
    BY <1>3, <2>1
  <2>. QED  BY <1>1, <1>3, <1>4, <2>1, <2>2
<1> HIDE DEF r
<1>. QED  BY <1>1, <1>2, <1>5, <1>6, <1>7

\* Bytes of an unread frame that is not damaged stay together, whatever happens
\* to the bytes before and after it.
LEMMA StoredKept ==
  ASSUME LineOK, LineOK', ~halted', NEW n \in 1..Len(sent), n \notin damaged',
         sent'[n] = sent[n],
         \/ \E m \in Messages : Send(m)
         \/ Arrive
         \/ LoseByte
         \/ \E b \in Noise : AddByte(b),
         NEW p \in Nat, NEW q \in Nat, Stored(n, p, q)
  PROVE  Stored(n, p, q)' \/ (p > 1 /\ Stored(n, p - 1, q)')
<1> DEFINE L == Len(FrameOf(sent[n]))
<1>0. L \in Nat
  BY SentMessage
<1>1. /\ p >= 1 /\ q \in 1..L /\ p + (L - q) <= Len(Unread)
      /\ \A k \in q..L : Unread[p + (k - q)].frame = n
  <2>1. \A k \in q..L : Unread[p + (k - q)] = [byte |-> FrameOf(sent[n])[k], frame |-> n]
    BY DEF Stored
  <2>2. ASSUME NEW k \in q..L PROVE Unread[p + (k - q)].frame = n
    <3>1. Unread[p + (k - q)] = [byte |-> FrameOf(sent[n])[k], frame |-> n]
      BY <2>1
    <3> HIDE DEF L
    <3>. QED  BY <3>1
  <2>. QED  BY <2>2 DEF Stored
<1>h. L = Len(FrameOf(sent[n]))
  OBVIOUS
<1> HIDE DEF L
<1>d. 0 \in 0..1 /\ 1 \in 0..1 /\ p - 0 = p /\ p - 0 >= 1
  BY <1>1
<1>2. ASSUME \A j \in 1..Len(Unread) :
               j >= p /\ j <= p + (L - q) => j <= Len(Unread') /\ Unread'[j] = Unread[j]
      PROVE  Stored(n, p, q)'
  <2>1. \A j \in 1..Len(Unread) : j - 0 = j
    OBVIOUS
  <2>2. \A j \in 1..Len(Unread) :
          j >= p /\ j <= p + (Len(FrameOf(sent[n])) - q) =>
            j - 0 <= Len(Unread') /\ Unread'[j - 0] = Unread[j]
    BY <1>2, <1>h, <2>1
  <2>3. Stored(n, p - 0, q)'
    BY <1>d, <2>2, StoredMoved
  <2>. QED  BY <1>d, <2>3
<1>3. ASSUME \/ \E m \in Messages : Send(m)
             \/ Arrive
             \/ \E b \in Noise : AddByte(b)
      PROVE  Stored(n, p, q)'
  <2>1. \A j \in 1..Len(Unread) : j <= Len(Unread') /\ Unread'[j] = Unread[j]
    BY <1>3, BytesAppended
  <2>. QED  BY <1>2, <2>1
<1>4. CASE LoseByte
  <2>1. PICK r \in 1..Len(Unread) :
           /\ damaged' = damaged \cup {Unread[r].frame}
           /\ \A j \in 1..Len(Unread) :
                /\ j < r => j <= Len(Unread') /\ Unread'[j] = Unread[j]
                /\ j > r => j - 1 <= Len(Unread') /\ Unread'[j - 1] = Unread[j]
    BY <1>4, ByteLost
  <2>2. Unread[r].frame # n
    BY <2>1
  <2>3. ~ (r >= p /\ r <= p + (L - q))
    <3> SUFFICES ASSUME r >= p, r <= p + (L - q) PROVE FALSE
      OBVIOUS
    <3>1. Len(Unread) \in Nat
      BY UnreadType
    <3>2. (r - p) + q \in q..L /\ p + (((r - p) + q) - q) = r
      BY <1>0, <1>1, <3>1
    <3>3. Unread[p + (((r - p) + q) - q)].frame = n
      BY <1>1, <3>2
    <3>. QED  BY <2>2, <3>2, <3>3
  <2>4. CASE r < p
    <3>1. \A j \in 1..Len(Unread) :
            j >= p /\ j <= p + (Len(FrameOf(sent[n])) - q) =>
              j - 1 <= Len(Unread') /\ Unread'[j - 1] = Unread[j]
      <4>1. \A j \in 1..Len(Unread) : j >= p => j > r
        BY <2>4
      <4>. QED  BY <2>1, <4>1
    <3>2. p - 1 >= 1 /\ p > 1
      BY <2>4
    <3>. QED  BY <1>d, <3>1, <3>2, StoredMoved
  <2>5. CASE ~ (r < p)
    <3>1. \A j \in 1..Len(Unread) : j >= p /\ j <= p + (L - q) => j < r
      <4>1. r >= p /\ r > p + (L - q) /\ L - q \in Int
        BY <1>0, <1>1, <2>3, <2>5
      <4>. QED  BY <4>1
    <3>2. \A j \in 1..Len(Unread) :
            j >= p /\ j <= p + (L - q) => j <= Len(Unread') /\ Unread'[j] = Unread[j]
      BY <2>1, <3>1
    <3>. QED  BY <1>2, <3>2
  <2>. QED  BY <2>4, <2>5
<1>. QED  BY <1>3, <1>4

\* A frame that was handed over stays so.
LEMMA HandedKept ==
  ASSUME DecoderInv, [Next]_vars, NEW n \in 1..Len(sent), sent'[n] = sent[n], Handed(n)
  PROVE  Handed(n)'
<1> DEFINE T == [type : Word, data : Seq(Byte), frame : Nat]
<1>1. received \in Seq(T)
  BY DEF DecoderInv, DecoderOK
<1>2. PICK i \in DOMAIN received :
        received[i] = [type |-> sent[n].type, data |-> sent[n].data, frame |-> n]
  BY DEF Handed
<1>3. received' = received \/ \E x : received' = Append(received, x)
  BY DEF Next, vars, readVars, Send, Arrive, LoseByte, AddByte, ReadStart, ReadEsc, ReadEnd, ReadOther
<1>4. i \in DOMAIN received' /\ received'[i] = received[i]
  <2>1. CASE received' = received
    BY <2>1
  <2>2. ASSUME NEW x, received' = Append(received, x) PROVE i \in DOMAIN received' /\ received'[i] = received[i]
    <3>1. Len(received) \in Nat /\ i \in 1..Len(received)
      BY <1>1, <1>2, LenProperties
    <3>2. i \in 1..(Len(received) + 1) /\ i # Len(received) + 1
      BY <3>1
    <3>. QED  BY <1>1, <2>2, <3>1, <3>2
  <2>. QED  BY <1>3, <2>1, <2>2
<1>. QED  BY <1>2, <1>4 DEF Handed

\* A message that is sent waits behind everything that is unread.
LEMMA NewFrame ==
  ASSUME LineOK, LineOK', FramesFit, NEW m \in Messages, Send(m), Len(m.data) < MaxLength,
         NEW n \in Nat, n = Len(sent) + 1
  PROVE  Waiting(n)'
<1> DEFINE F == FrameOf(m)
           L == Len(F)
           t == Tagged(F, n)
<1>0. PICK p \in Nat : p = Len(Unread) + 1
  BY UnreadType
<1>1. sent' = Append(sent, m) /\ rxQueue' = rxQueue /\ sent \in Seq(Messages)
  BY DEF Send, LineOK
<1>2. n \in Nat /\ sent'[n] = m /\ n \in 1..Len(sent')
  <2>1. Len(sent) \in Nat
    BY <1>1, LenProperties
  <2>. QED  BY <1>1, <2>1
<1>3. F \in Seq(Byte) /\ L \in Nat /\ L >= 2 /\ Buffered(F) = F /\ DOMAIN F = 1..L
  <2>1. F \in Seq(Byte)
    BY FrameType
  <2>2. FrameOf(sent'[n]) = F
    BY <1>2
  <2> DEFINE K == Len(Body(m))
  <2>3. K \in 1..K
    <3>1. K \in Nat /\ K >= 5
      BY BodyShape
    <3> HIDE DEF K
    <3>. QED  BY <3>1
  <2>4. L \in Nat /\ L >= 2
    <3>1. Offset(m, K) \in Nat /\ Offset(m, K) >= 2 /\ Offset(m, K) < L /\ L \in Nat
      BY <2>3, BodyByte
    <3> HIDE DEF K, L
    <3>. QED  BY <3>1
  <2>5. L < IndexRange
    BY DEF FramesFit
  <2>. QED  BY <2>1, <2>4, <2>5, BufferedWhole, LenProperties
<1>4. wire' = wire \o t
  BY <1>3 DEF Send
<1>5. t \in Seq(Marked) /\ Len(t) = L /\ \A k \in 1..L : t[k] = [byte |-> F[k], frame |-> n]
  <2>1. t \in Seq(Marked)
    BY <1>2, <1>3, TaggedType
  <2> HIDE DEF F, L
  <2>2. t = [k \in 1..L |-> [byte |-> F[k], frame |-> n]]
    BY <1>3 DEF Tagged
  <2>. QED  BY <1>3, <2>1, <2>2
<1>h. F = FrameOf(m) /\ L = Len(F)
  OBVIOUS
<1> HIDE DEF t, F, L
<1>6. Unread \in Seq(Marked) /\ Len(Unread) \in Nat
  BY UnreadType
<1>7. Unread' = Unread \o t
  <2>1. rxQueue \in Seq(Marked) /\ wire \in Seq(Marked)
    BY DEF LineOK
  <2>2. rxQueue \o (wire \o t) = (rxQueue \o wire) \o t
    BY <1>5, <2>1, ConcatAssociative, SMTT(40)
  <2>. QED  BY <1>1, <1>4, <2>2 DEF Unread
<1>8. /\ Len(Unread') = Len(Unread) + L
      /\ \A j \in 1..(Len(Unread) + L) :
           Unread'[j] = IF j <= Len(Unread) THEN Unread[j] ELSE t[j - Len(Unread)]
  <2>1. /\ Len(Unread \o t) = Len(Unread) + Len(t)
        /\ \A j \in 1..(Len(Unread) + Len(t)) :
             (Unread \o t)[j] = IF j <= Len(Unread) THEN Unread[j] ELSE t[j - Len(Unread)]
    BY <1>5, <1>6, ConcatProperties, Zenon
  <2>. QED  BY <1>5, <1>7, <2>1
<1> DEFINE u == Len(Unread)
<1>9. \A k \in 1..L : Unread'[p + (k - 1)] = [byte |-> F[k], frame |-> n]
  <2> SUFFICES ASSUME NEW k \in 1..L
               PROVE  Unread'[p + (k - 1)] = [byte |-> F[k], frame |-> n]
    OBVIOUS
  <2>0. u \in Nat /\ p = u + 1
    BY <1>0, <1>6
  <2> HIDE DEF u
  <2>1. p + (k - 1) \in 1..(u + L) /\ ~ (p + (k - 1) <= u) /\ (p + (k - 1)) - u = k
    BY <1>3, <2>0
  <2>. QED  BY <1>5, <1>8, <2>1 DEF u
<1>10. p \in Nat \ {0} /\ 1 \in 1..L /\ p + (L - 1) <= Len(Unread')
  <2>0. u \in Nat /\ p = u + 1 /\ Len(Unread') = u + L
    BY <1>0, <1>6, <1>8
  <2> HIDE DEF u
  <2>. QED  BY <1>3, <2>0
<1>11. Stored(n, p, 1)'
  BY <1>2, <1>9, <1>10, <1>h DEF Stored
<1>. QED  BY <1>11 DEF Waiting

LEMMA IntactStep ==
  ASSUME DecoderInv, LineOK', Next, ~halted', NEW n \in 1..Len(sent), n \notin damaged',
         sent'[n] = sent[n], Len(sent[n].data) < MaxLength, Intact(n)
  PROVE  Intact(n)'
<1>0. LineOK
  BY DEF DecoderInv
<1>1. CASE Handed(n)
  BY <1>1, HandedKept DEF Intact
<1>2. ASSUME \/ \E m \in Messages : Send(m)
             \/ Arrive
             \/ LoseByte
             \/ \E b \in Noise : AddByte(b)
      PROVE  Intact(n)'
  <2>1. rx' = rx /\ msg' = msg
    BY <1>2 DEF Send, Arrive, LoseByte, AddByte, readVars
  <2>2. ASSUME NEW p \in Nat, NEW q \in Nat, Stored(n, p, q)
        PROVE  Stored(n, p, q)' \/ (p > 1 /\ Stored(n, p - 1, q)')
    BY <1>0, <1>2, <2>2, StoredKept
  <2>3. CASE Waiting(n)
    <3>1. PICK p \in Nat : Stored(n, p, 1)
      BY <2>3 DEF Waiting
    <3>2. Stored(n, p, 1)' \/ (p > 1 /\ Stored(n, p - 1, 1)')
      BY <2>2, <3>1
    <3>3. p > 1 => p - 1 \in Nat
      OBVIOUS
    <3>4. Waiting(n)'
      BY <3>2, <3>3 DEF Waiting
    <3>. QED  BY <3>4 DEF Intact
  <2>4. CASE Reading(n)
    <3>0. PICK m \in Messages : m = sent[n]
      BY <1>0, SentMessage
    <3>1. PICK i \in 1..(Len(Body(m)) + 1) : ReadingAt(n, i)
      BY <2>4, <3>0 DEF Reading
    <3>2. ASSUME NEW q \in Nat, Stored(n, 1, q) PROVE Stored(n, 1, q)'
      BY <2>2, <3>2
    <3>3. Offset(m, i) \in Nat
      <4>1. Len(Body(m)) \in Nat
        BY BodyShape
      <4>2. CASE i \in 1..Len(Body(m))
        BY <4>2, BodyByte
      <4>3. CASE i \notin 1..Len(Body(m))
        <5>1. i = Len(Body(m)) + 1
          BY <4>1, <4>3
        <5>. QED  BY <5>1, FramePlaced
      <4>. QED  BY <4>2, <4>3
    <3>4. /\ Seen(m, i)
          /\ \/ ~rx.inEsc /\ Stored(n, 1, Offset(m, i))
             \/ /\ i <= Len(Body(m)) /\ Body(m)[i] < EscBit
                /\ rx.inEsc /\ Stored(n, 1, Offset(m, i) + 1)
      BY <3>0, <3>1 DEF ReadingAt
    <3>5. Seen(m, i)'
      BY <2>1, <3>4 DEF Seen
    <3>6. sent'[n] = m
      BY <3>0
    <3>7. Stored(n, 1, Offset(m, i)) => Stored(n, 1, Offset(m, i))'
      BY <3>2, <3>3
    <3>8. Stored(n, 1, Offset(m, i) + 1) => Stored(n, 1, Offset(m, i) + 1)'
      <4>1. Offset(m, i) + 1 \in Nat
        BY <3>3
      <4>. QED  BY <3>2, <4>1
    <3>9. ReadingAt(n, i)'
      BY <2>1, <3>4, <3>5, <3>6, <3>7, <3>8, Zenon DEF ReadingAt
    <3>. QED  BY <3>6, <3>9, Zenon DEF Intact, Reading
  <2>. QED  BY <1>1, <2>3, <2>4 DEF Intact
<1>3. CASE ReadStep
  <2>1. CASE Waiting(n)
    <3>1. PICK p \in Nat : Stored(n, p, 1)
      BY <2>1 DEF Waiting
    <3>2. p >= 1
      BY <3>1 DEF Stored
    <3>3. CASE p = 1
      BY <1>3, <3>1, <3>3, StartIsRead DEF Intact
    <3>4. CASE p # 1
      <4>1. p - 1 >= 1 /\ 1 \in 0..1 /\ p - 1 \in Nat
        BY <3>2, <3>4
      <4>2. \A j \in 1..Len(Unread) :
              j >= p /\ j <= p + (Len(FrameOf(sent[n])) - 1) =>
                j - 1 <= Len(Unread') /\ Unread'[j - 1] = Unread[j]
        <5>1. \A j \in 1..Len(Unread) : j >= p => j >= 2
          BY <4>1
        <5>. QED  BY <1>0, <1>3, <5>1, ReadMoves
      <4>3. Stored(n, p - 1, 1)'
        BY <1>0, <3>1, <4>1, <4>2, StoredMoved
      <4>. QED  BY <4>1, <4>3 DEF Intact, Waiting
    <3>. QED  BY <3>3, <3>4
  <2>2. CASE Reading(n)
    BY <1>3, <2>2, ReadingStep DEF Intact
  <2>. QED  BY <1>1, <2>1, <2>2 DEF Intact
<1>. QED  BY <1>2, <1>3 DEF Next, ReadStep

LEMMA FramesKeptStep ==
  ASSUME FramesFit, DecoderInv, DecoderInv', FramesKept, [Next]_vars
  PROVE  FramesKept'
<1>0. LineOK /\ LineOK'
  BY DEF DecoderInv
<1>1. CASE UNCHANGED vars
  <2>1. /\ sent' = sent /\ wire' = wire /\ rxQueue' = rxQueue /\ rx' = rx /\ msg' = msg
        /\ received' = received /\ damaged' = damaged /\ halted' = halted
    BY <1>1 DEF vars, lineVars, readVars
  <2> SUFFICES ASSUME ~halted, NEW n \in 1..Len(sent), n \notin damaged,
                      Len(sent[n].data) < MaxLength
               PROVE  Intact(n)'
    BY <2>1 DEF FramesKept
  <2>2. Intact(n)
    BY DEF FramesKept
  <2>3. Unread' = Unread
    BY <2>1 DEF Unread
  <2>4. ASSUME NEW p, NEW q, Stored(n, p, q) PROVE Stored(n, p, q)'
    BY <2>1, <2>3, <2>4 DEF Stored
  <2>5. CASE Handed(n)
    BY <2>1, <2>5 DEF Handed, Intact
  <2>6. CASE Waiting(n)
    BY <2>4, <2>6 DEF Waiting, Intact
  <2>7. CASE Reading(n)
    <3>0. PICK m \in Messages : m = sent[n]
      BY <1>0, SentMessage
    <3>1. PICK i \in 1..(Len(Body(m)) + 1) : ReadingAt(n, i)
      BY <2>7, <3>0 DEF Reading
    <3>2. sent'[n] = m
      BY <2>1, <3>0
    <3>3. Seen(m, i)
      BY <3>0, <3>1 DEF ReadingAt
    <3>4. Seen(m, i)'
      BY <2>1, <3>3 DEF Seen
    <3>5. ReadingAt(n, i)'
      BY <2>1, <2>4, <3>0, <3>1, <3>2, <3>4, Zenon DEF ReadingAt
    <3>. QED  BY <3>2, <3>5, Zenon DEF Reading, Intact
  <2>. QED  BY <2>2, <2>5, <2>6, <2>7 DEF Intact
<1>2. CASE Next
  <2> SUFFICES ASSUME ~halted', NEW n \in 1..Len(sent'), n \notin damaged',
                      Len(sent'[n].data) < MaxLength
               PROVE  Intact(n)'
    BY DEF FramesKept
  <2>1. ~halted
    BY <1>2 DEF Next
  <2>2. Len(sent) \in Nat /\ sent \in Seq(Messages)
    BY <1>0, LenProperties DEF LineOK
  <2>3. ASSUME NEW m \in Messages, Send(m), n = Len(sent) + 1 PROVE Intact(n)'
    <3>1. sent'[n] = m /\ n \in Nat
      BY <2>2, <2>3 DEF Send
    <3>2. Len(m.data) < MaxLength
      BY <3>1
    <3>. QED  BY <1>0, <2>3, <3>1, <3>2, NewFrame DEF Intact
  <2>4. ASSUME n \in 1..Len(sent), sent'[n] = sent[n] PROVE Intact(n)'
    <3>1. n \notin damaged
      BY <1>2 DEF Next, Send, Arrive, LoseByte, AddByte, ReadStart, ReadEsc, ReadEnd,
                  ReadOther, Read, lineVars
    <3>2. Len(sent[n].data) < MaxLength
      BY <2>4
    <3>3. Intact(n)
      BY <2>1, <2>4, <3>1, <3>2 DEF FramesKept
    <3>. QED  BY <1>0, <1>2, <2>4, <3>2, <3>3, IntactStep
  <2>5. CASE sent' = sent
    BY <2>4, <2>5
  <2>6. ASSUME NEW m \in Messages, Send(m) PROVE Intact(n)'
    <3>1. n = Len(sent) + 1 \/ (n \in 1..Len(sent) /\ sent'[n] = sent[n])
      BY <2>2, <2>6 DEF Send
    <3>. QED  BY <2>3, <2>4, <2>6, <3>1
  <2>7. sent' = sent \/ \E m \in Messages : Send(m)
    BY <1>2 DEF Next, Arrive, LoseByte, AddByte, ReadStart, ReadEsc, ReadEnd,
                ReadOther, Read, lineVars
  <2>. QED  BY <2>5, <2>6, <2>7, Zenon
<1>. QED  BY <1>1, <1>2

\* A frame of which every byte arrived is handed over when its end is read,
\* unchanged, whatever bytes the line lost of other frames and whatever noise
\* came between the frames: the start character resets the decoder, and the
\* escape makes every other byte one that does not (eSL_ReadMessage).
THEOREM FramesSurvive ==
  ASSUME FramesFit
  PROVE  Spec => []IntactFramesArrive
<1>1. Init => FramesKept
  <2> SUFFICES ASSUME Init PROVE FramesKept
    OBVIOUS
  <2>1. sent = <<>> /\ Len(<<>>) = 0
    BY DEF Init
  <2>2. 1..Len(sent) = {}
    BY <2>1
  <2>. QED  BY <2>2 DEF FramesKept
<1>2. DecoderInv /\ DecoderInv' /\ FramesKept /\ [Next]_vars => FramesKept'
  BY FramesKeptStep
<1>3. DecoderInv /\ FramesKept => IntactFramesArrive
  <2> SUFFICES ASSUME DecoderInv, FramesKept, NEW n \in DOMAIN sent \ damaged,
                      ~halted, Len(sent[n].data) < MaxLength,
                      \A i \in DOMAIN Unread : Unread[i].frame # n
               PROVE  \E i \in DOMAIN received :
                        received[i] = [type |-> sent[n].type, data |-> sent[n].data, frame |-> n]
    BY DEF IntactFramesArrive
  <2>0. LineOK /\ n \in 1..Len(sent) /\ n \notin damaged
    BY LenProperties DEF DecoderInv, LineOK
  <2>1. ASSUME NEW p \in Nat, NEW q \in Nat, Stored(n, p, q) PROVE FALSE
    <3> DEFINE L == Len(FrameOf(sent[n]))
    <3>1. L \in Nat /\ Len(Unread) \in Nat /\ Unread \in Seq(Marked)
      BY <2>0, SentMessage, UnreadType
    <3>2. /\ p >= 1 /\ q \in 1..L /\ p + (L - q) <= Len(Unread)
          /\ \A k \in q..L : Unread[p + (k - q)] = [byte |-> FrameOf(sent[n])[k], frame |-> n]
      BY <2>1 DEF Stored
    <3>3. DOMAIN Unread = 1..Len(Unread)
      BY <3>1, LenProperties
    <3> HIDE DEF L
    <3>4. q \in q..L /\ p + (q - q) = p /\ p \in 1..Len(Unread)
      BY <3>1, <3>2
    <3>5. Unread[p] = [byte |-> FrameOf(sent[n])[q], frame |-> n]
      BY <3>2, <3>4
    <3>6. Unread[p].frame = n
      BY <3>5
    <3>. QED  BY <3>3, <3>4, <3>6
  <2>2. Intact(n)
    BY <2>0 DEF FramesKept
  <2>3. ~ Waiting(n)
    BY <2>1 DEF Waiting
  <2>4. ~ Reading(n)
    <3> SUFFICES ASSUME NEW q, Stored(n, 1, q) PROVE FALSE
      BY DEF Reading, ReadingAt
    <3>1. q \in Nat
      <4>1. Len(FrameOf(sent[n])) \in Nat
        BY <2>0, SentMessage
      <4>. QED  BY <4>1 DEF Stored
    <3>. QED  BY <2>1, <3>1
  <2>. QED  BY <2>2, <2>3, <2>4 DEF Intact, Handed
<1>. QED  BY DecoderInvariant, <1>1, <1>2, <1>3, PTL DEF Spec
=============================================================================
