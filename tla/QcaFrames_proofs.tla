-------------------------- MODULE QcaFrames_proofs --------------------------
(***************************************************************************)
(* The frames of the QCA7000 driver in both directions: what it writes into*)
(* the chip fits (QcaTransmit), and what it reads from the chip are the    *)
(* frames the chip received, whole and in order (QcaReceive).              *)
(***************************************************************************)
EXTENDS QcaReceive, QcaTransmit, SequenceTheorems, TLAPS

(***************************************************************************)
(* What the driver writes into the chip, for every buffer size, every set  *)
(* of frame lengths, padded ones among them, and every way in which the    *)
(* chip drains.                                                            *)
(***************************************************************************)

(***************************************************************************)
(* While no padding has failed to fit, the counted room is at most the     *)
(* real one, so that a frame that was found to fit does.                   *)
(***************************************************************************)
TransmitIInv == TransmitTypeOK /\ CountedRoomIsThere

LEMMA Limit == UINT16_MAX \in Nat /\ UINT16_MAX + 1 = 65536
  BY DEF UINT16_MAX

LEMMA CountDown ==
  ASSUME NEW a \in 0 .. UINT16_MAX, NEW n \in Nat, n <= a
  PROVE  /\ (a - n) % (UINT16_MAX + 1) = a - n
         /\ a - n \in 0 .. UINT16_MAX
<1>1. a - n \in 0 .. UINT16_MAX
  BY Limit
<1>2. a - n \in Nat /\ a - n < 65536
  BY Limit
<1>3. \A x \in Nat : x < 65536 => x % 65536 = x
  OBVIOUS
<1> QED
  BY <1>1, <1>2, <1>3, Limit

LEMMA InitEstablishes == TransmitInit => TransmitIInv
<1>1. SUFFICES ASSUME TransmitInit PROVE TransmitIInv
  OBVIOUS
<1>2. txQueue \in Seq(Lengths) /\ Len(txQueue) = 0
  BY <1>1 DEF TransmitInit
<1>3. room \in 0 .. UINT16_MAX /\ fill \in Nat
  BY <1>1 DEF TransmitInit, UINT16_MAX
<1>4. Len(txQueue) <= QueueLength /\ queued \in 0 .. MaxQueued
  BY <1>1, <1>2, TransmitAssumption DEF TransmitInit
<1>5. txPc = "idle" /\ shortfall = FALSE
  BY <1>1 DEF TransmitInit
<1>6. TransmitTypeOK
  BY <1>2, <1>3, <1>4, <1>5 DEF TransmitTypeOK
<1> QED
  BY <1>5, <1>6 DEF TransmitIInv, CountedRoomIsThere

LEMMA Wraps ==
  ASSUME NEW a \in Int
  PROVE  a % (UINT16_MAX + 1) \in 0 .. UINT16_MAX
<1>1. \A n \in Nat : n > 0 => a % n \in 0 .. n - 1
  OBVIOUS
<1>2. PICK n \in Nat : n = UINT16_MAX + 1
  BY Limit
<1>3. n > 0 /\ n - 1 = UINT16_MAX
  BY <1>2, Limit
<1>4. a % n \in 0 .. n - 1
  BY <1>1, <1>3
<1> QED
  BY <1>2, <1>3, <1>4, Zenon

(***************************************************************************)
(* A frame that is written was found to fit without its padding.           *)
(***************************************************************************)
LEMMA FrameTaken ==
  ASSUME TransmitIInv, TransmitFrame,
         NEW len, len = Head(txQueue)
  PROVE  /\ len \in Nat /\ MinLen \in Nat /\ BufLen \in Nat
         /\ fill \in Nat /\ room \in Nat /\ room <= UINT16_MAX
         /\ len + 10 <= room /\ txPc = "loop"
         /\ Taken(len) \in Nat /\ fill' = fill + Taken(len)
         /\ \/ len < MinLen /\ Taken(len) = MinLen + 10
            \/ ~(len < MinLen) /\ Taken(len) = len + 10
         /\ shortfall' = (shortfall \/ (len < MinLen /\ room < Taken(len)))
         /\ room' = (room - Taken(len)) % (UINT16_MAX + 1)
<1>1. len \in Lengths
  BY HeadTailProperties DEF TransmitFrame, TransmitIInv, TransmitTypeOK
<1>2. /\ len \in Nat /\ MinLen \in Nat /\ BufLen \in Nat
      /\ fill \in Nat /\ room \in Nat /\ room <= UINT16_MAX
  BY <1>1, Limit, TransmitAssumption, LengthsAssumption DEF TransmitIInv, TransmitTypeOK
<1>3. len + 10 <= room /\ txPc = "loop"
  BY DEF TransmitFrame, Fits, OVERHEAD
<1>4. /\ Taken(len) \in Nat /\ Taken(len) = Padded(len) + 10
      /\ \/ len < MinLen /\ Taken(len) = MinLen + 10
         \/ ~(len < MinLen) /\ Taken(len) = len + 10
  BY <1>2 DEF Taken, Padded, OVERHEAD
<1>5. fill' = fill + Taken(len)
  <2>1. fill' = fill + Padded(len) + 10 /\ Padded(len) \in Nat
    BY <1>2 DEF TransmitFrame, OVERHEAD, Padded
  <2> QED
    BY <1>2, <1>4, <2>1
<1>6. /\ shortfall' = (shortfall \/ (len < MinLen /\ room < Taken(len)))
      /\ room' = (room - Taken(len)) % (UINT16_MAX + 1)
  BY DEF TransmitFrame, PaddingDoesNotFit
<1> QED
  BY <1>2, <1>3, <1>4, <1>5, <1>6

LEMMA TransmitKeeps ==
  ASSUME TransmitIInv, TransmitFrame
  PROVE  TransmitIInv'
<1>1. PICK len : len = Head(txQueue)
  OBVIOUS
<1>2. /\ len \in Nat /\ MinLen \in Nat /\ BufLen \in Nat
      /\ fill \in Nat /\ room \in Nat /\ room <= UINT16_MAX
      /\ len + 10 <= room /\ txPc = "loop"
      /\ Taken(len) \in Nat /\ fill' = fill + Taken(len)
      /\ \/ len < MinLen /\ Taken(len) = MinLen + 10
         \/ ~(len < MinLen) /\ Taken(len) = len + 10
      /\ shortfall' = (shortfall \/ (len < MinLen /\ room < Taken(len)))
      /\ room' = (room - Taken(len)) % (UINT16_MAX + 1)
  BY <1>1, FrameTaken
<1>3. TransmitTypeOK'
  <2>1. Tail(txQueue) \in Seq(Lengths) /\ Len(Tail(txQueue)) <= QueueLength
    BY HeadTailProperties, TransmitAssumption
       DEF TransmitFrame, TransmitIInv, TransmitTypeOK
  <2>2. room' \in 0 .. UINT16_MAX
    BY <1>2, Wraps
  <2>3. fill' \in Nat /\ shortfall' \in BOOLEAN
    BY <1>2 DEF TransmitIInv, TransmitTypeOK
  <2> QED
    BY <2>1, <2>2, <2>3 DEF TransmitFrame, TransmitIInv, TransmitTypeOK
<1>4. ASSUME ~shortfall' PROVE room' <= Free'
  <2>1. ~shortfall /\ Taken(len) <= room
    <3>1. ~shortfall /\ ~(len < MinLen /\ room < Taken(len))
      BY <1>2, <1>4, Zenon
    <3>2. CASE len < MinLen
      BY <1>2, <3>1, <3>2
    <3>3. CASE ~(len < MinLen)
      BY <1>2, <3>1, <3>3
    <3> QED
      BY <3>2, <3>3, <3>1
  <2>2. room' = room - Taken(len)
    BY <1>2, <2>1, CountDown, Limit
  <2>3. room <= Free
    BY <1>2, <2>1 DEF TransmitIInv, CountedRoomIsThere
  <2>4. fill <= BufLen /\ room <= BufLen - fill
    BY <1>2, <2>3 DEF Free
  <2>5. fill' <= BufLen /\ room' <= BufLen - fill'
    BY <1>2, <2>1, <2>2, <2>4
  <2> QED
    BY <2>5 DEF Free
<1> QED
  BY <1>3, <1>4 DEF TransmitIInv, CountedRoomIsThere

LEMMA OtherStepsKeep ==
  ASSUME TransmitIInv,
         \/ \E len \in Lengths : Output(len)
         \/ StartTransmit \/ EndTransmit \/ Flush \/ ChipDrains
         \/ UNCHANGED transmitVars
  PROVE  TransmitIInv'
<1> USE DEF TransmitIInv, CountedRoomIsThere, Free
<1>1. ASSUME NEW len \in Lengths, Output(len) PROVE TransmitIInv'
  <2>1. /\ Append(txQueue, len) \in Seq(Lengths)
        /\ Len(Append(txQueue, len)) = Len(txQueue) + 1
    BY AppendProperties DEF TransmitTypeOK
  <2>2. Len(txQueue) \in Nat
    BY DEF TransmitTypeOK
  <2>3. TransmitTypeOK'
    BY <1>1, <2>1, <2>2, TransmitAssumption
       DEF Output, QueueHasRoom, TransmitTypeOK
  <2> QED
    BY <1>1, <2>3 DEF Output
<1>2. ASSUME StartTransmit PROVE TransmitIInv'
  <2>1. room' = Free /\ fill \in Nat /\ BufLen \in 0 .. UINT16_MAX
    BY <1>2, TransmitAssumption DEF StartTransmit, TransmitTypeOK
  <2>2. room' \in 0 .. UINT16_MAX
    BY <2>1, Limit
  <2>3. TransmitTypeOK'
    BY <1>2, <2>2 DEF StartTransmit, TransmitTypeOK
  <2>4. room' <= Free'
    BY <1>2, <2>1, Limit DEF StartTransmit
  <2> QED
    BY <2>3, <2>4
<1>3. ASSUME EndTransmit PROVE TransmitIInv'
  BY <1>3 DEF EndTransmit, TransmitTypeOK
<1>4. ASSUME Flush PROVE TransmitIInv'
  <2>1. <<>> \in Seq(Lengths) /\ Len(<<>>) = 0
    OBVIOUS
  <2> QED
    BY <1>4, <2>1, TransmitAssumption DEF Flush, TransmitTypeOK
<1>5. ASSUME ChipDrains PROVE TransmitIInv'
  <2>1. PICK level \in Levels : level < fill /\ fill' = level
    BY <1>5 DEF ChipDrains
  <2>2. level \in Nat /\ level <= BufLen /\ BufLen \in Nat /\ fill \in Nat /\ room \in Nat
    BY Limit, TransmitAssumption DEF TransmitTypeOK
  <2>3. TransmitTypeOK'
    BY <1>5, <2>1, <2>2 DEF ChipDrains, TransmitTypeOK
  <2>4. Free <= Free'
    BY <2>1, <2>2
  <2>5. room' = room /\ txPc' = txPc /\ shortfall' = shortfall /\ Free \in Int /\ Free' \in Int
    BY <1>5, <2>1, <2>2 DEF ChipDrains
  <2> HIDE DEF Free
  <2> QED
    BY <2>2, <2>3, <2>4, <2>5
<1>6. ASSUME UNCHANGED transmitVars PROVE TransmitIInv'
  BY <1>6 DEF transmitVars, TransmitTypeOK
<1> QED
  BY <1>1, <1>2, <1>3, <1>4, <1>5, <1>6

(***************************************************************************)
(* The invariant of the transmit loop, for frames of any length.           *)
(***************************************************************************)
THEOREM TransmitInvariant == TransmitSpec => []TransmitIInv
<1>1. TransmitInit => TransmitIInv
  BY InitEstablishes
<1>2. TransmitIInv /\ [TransmitNext]_transmitVars => TransmitIInv'
  BY TransmitKeeps, OtherStepsKeep DEF TransmitNext
<1> QED
  BY <1>1, <1>2, PTL DEF TransmitSpec

(***************************************************************************)
(* The chip's write buffer overflows only behind a short frame that fitted *)
(* before it was padded, and by that frame only as far as it was padded    *)
(* (qcaspi_transmit, qcaspi_tx_frame).                                     *)
(***************************************************************************)
THEOREM OnlyPaddingOverfills == TransmitSpec => OverfilledByPadding
<1>1. ASSUME TransmitIInv, TransmitFrame, fill' > BufLen
      PROVE  shortfall' /\ (~shortfall => fill' <= BufLen + (MinLen - Head(txQueue)))
  <2>1. PICK len : len = Head(txQueue)
    OBVIOUS
  <2>2. /\ len \in Nat /\ MinLen \in Nat /\ BufLen \in Nat
        /\ fill \in Nat /\ room \in Nat
        /\ len + 10 <= room /\ txPc = "loop"
        /\ Taken(len) \in Nat /\ fill' = fill + Taken(len)
        /\ \/ len < MinLen /\ Taken(len) = MinLen + 10
           \/ ~(len < MinLen) /\ Taken(len) = len + 10
        /\ shortfall' = (shortfall \/ (len < MinLen /\ room < Taken(len)))
    BY <1>1, <2>1, FrameTaken
  <2>3. CASE shortfall
    BY <2>2, <2>3
  <2>4. CASE ~shortfall
    <3>1. room <= Free
      BY <1>1, <2>2, <2>4 DEF TransmitIInv, CountedRoomIsThere
    <3>2. fill <= BufLen /\ room <= BufLen - fill
      BY <2>2, <3>1 DEF Free
    <3>3. len < MinLen /\ room < Taken(len)
      BY <1>1, <2>2, <3>2
    <3>4. fill' <= BufLen + (MinLen - len)
      BY <2>2, <3>2, <3>3
    <3> QED
      BY <2>1, <2>2, <3>3, <3>4
  <2> QED
    BY <2>3, <2>4
<1>2. ASSUME TransmitIInv, [TransmitNext]_transmitVars, fill' > fill
      PROVE  TransmitFrame
  <2>1. fill \in Nat
    BY <1>2 DEF TransmitIInv, TransmitTypeOK
  <2>2. UNCHANGED fill => FALSE
    BY <1>2, <2>1
  <2>3. ChipDrains => FALSE
    <3>1. \A level \in Levels : level \in Nat
      BY TransmitAssumption
    <3> QED
      BY <1>2, <2>1, <3>1 DEF ChipDrains
  <2> QED
    BY <1>2, <2>2, <2>3 DEF TransmitNext, Output, StartTransmit, EndTransmit, Flush, transmitVars
<1>3. TransmitIInv /\ [TransmitNext]_transmitVars =>
        [fill' > fill /\ fill' > BufLen =>
           /\ shortfall'
           /\ ~shortfall => fill' <= BufLen + (MinLen - Head(txQueue))]_transmitVars
  BY <1>1, <1>2
<1>4. TransmitSpec => []TransmitIInv
  BY TransmitInvariant
<1> QED
  BY <1>3, <1>4, PTL DEF TransmitSpec, OverfilledByPadding

(***************************************************************************)
(* Up to such a frame the driver's own count of the room never exceeds the *)
(* real room, so it does not wrap around below zero.                       *)
(***************************************************************************)
THEOREM CountIsSafe == TransmitSpec => []CountedRoomIsThere
<1>1. TransmitSpec => []TransmitIInv
  BY TransmitInvariant
<1>2. TransmitIInv => CountedRoomIsThere
  BY DEF TransmitIInv
<1> QED
  BY <1>1, <1>2, PTL
-----------------------------------------------------------------------------
(***************************************************************************)
(* TypeOK, CopyStaysInFrame and ChunkEndsWithFrame hold for every length   *)
(* bound, every set of frames, every number of reboots and every byte that *)
(* may be read in between.                                                 *)
(***************************************************************************)

(***************************************************************************)
(* The bytes a well-formed stream still holds for the frame being decoded, *)
(* counted from below: in a header the frame is at least MinLen long.      *)
(***************************************************************************)
BytesToEnd(h) ==
  IF h.state \in HeaderStates
    THEN h.state - (WAIT_RSVD_BYTE2 - 1) + MinLen + FOOTER_LEN
    ELSE h.state

(***************************************************************************)
(* What the decoder maintains.  The first conjunct is needed because the   *)
(* length is put together from two bytes, the others are what CopyFrame    *)
(* and the footer states rely on.                                          *)
(***************************************************************************)
HandleInv(h) ==
  /\ h \in Handle
  /\ h.state = WAIT_LEN_BYTE1 => h.len \in Byte
  /\ h.state \in FrameStates => ValidLen(h.len)
  /\ Stores(h) => h.offset + (h.state - FOOTER_LEN) = h.len

ChunkInv ==
  rx_buffer # <<>> =>
    /\ Len(rx_buffer) <= TOTAL_HEADER_LEN
    /\ Len(rx_buffer) <= BytesToEnd(lFrmHdl)

IInv == TypeOK /\ HandleInv(lFrmHdl) /\ ChunkInv

USE DEF WAIT_AA1, WAIT_AA2, WAIT_AA3, WAIT_AA4, WAIT_LEN_BYTE0,
        WAIT_LEN_BYTE1, WAIT_RSVD_BYTE1, WAIT_RSVD_BYTE2, WAIT_551, WAIT_552,
        COMPLETE, HEADER_LEN, FOOTER_LEN, TOTAL_HEADER_LEN,
        HeaderStates, FrameStates

(***************************************************************************)
(* The largest integers stay symbols, with the facts the steps need.       *)
(***************************************************************************)
LEMMA Limits ==
  /\ UINT8_MAX \in Nat /\ 255 <= UINT8_MAX /\ UINT8_MAX <= 255
  /\ UINT16_MAX \in Nat /\ 65535 <= UINT16_MAX
  BY DEF UINT8_MAX, UINT16_MAX

LEMMA PatternBytes == 170 \in Byte /\ 85 \in Byte /\ 0 \in Byte
  BY Limits DEF Byte

LEMMA LengthFromBytes ==
  ASSUME NEW a \in Byte, NEW b \in Byte
  PROVE  a \in 0 .. UINT16_MAX /\ a + 256 * b \in 0 .. UINT16_MAX
  BY Limits DEF Byte

LEMMA BytesFromLength ==
  ASSUME NEW n \in Nat, n <= 32767
  PROVE  n % 256 \in Byte /\ n \div 256 \in Byte
  BY Limits DEF Byte

LEMMA Sub16Type ==
  ASSUME NEW a \in 0 .. UINT16_MAX, NEW n \in Nat
  PROVE  (a - n) % (UINT16_MAX + 1) \in 0 .. UINT16_MAX
  BY Limits

(***************************************************************************)
(* The decoder keeps its invariant whatever byte it is given, and a byte   *)
(* brings it at most one byte nearer to the end of a frame, unless it goes *)
(* back to the start of a header.                                          *)
(***************************************************************************)
LEMMA DecodeKeepsInv ==
  ASSUME NEW h, HandleInv(h), NEW byte \in Byte
  PROVE  /\ HandleInv(FsmDecode(h, byte))
         /\ h.state # COMPLETE =>
              \/ FsmDecode(h, byte).state = WAIT_AA1
              \/ BytesToEnd(h) - 1 <= BytesToEnd(FsmDecode(h, byte))
<1> DEFINE g == FsmDecode(h, byte)
<1>0. /\ h.state \in HeaderStates \union FrameStates
      /\ h.len \in 0 .. UINT16_MAX /\ h.offset \in 0 .. MaxLen
  BY DEF HandleInv, Handle
<1>1. CASE h.state \in {COMPLETE, WAIT_AA1}
  <2>1. g = IF byte = 170 THEN Goto(h, WAIT_AA2) ELSE h
    BY <1>1 DEF FsmDecode
  <2>2. QED
    BY <1>0, <1>1, <2>1, LengthsAssumption
       DEF Goto, HandleInv, Handle, Stores, BytesToEnd
<1>2. CASE h.state \in {WAIT_AA2, WAIT_AA3, WAIT_AA4}
  <2>1. g = Goto(h, h.state - 1) \/ g = Goto(h, WAIT_AA1)
    BY <1>2 DEF FsmDecode, ExpectByte
  <2>2. QED
    BY <1>0, <1>2, <2>1, LengthsAssumption
       DEF Goto, HandleInv, Handle, Stores, BytesToEnd
<1>3. CASE h.state \in {WAIT_LEN_BYTE0, WAIT_LEN_BYTE1}
  <2>1. g = ReadLength(h, byte)
    BY <1>3 DEF FsmDecode
  <2>2. g.state = h.state - 1 /\ g.offset = h.offset /\ g.len \in 0 .. UINT16_MAX
    BY <1>0, <1>3, <2>1, LengthFromBytes DEF ReadLength, HandleInv
  <2>3. g.state = WAIT_LEN_BYTE1 => g.len = byte
    BY <1>3, <2>1 DEF ReadLength
  <2>4. g \in Handle
    BY <1>0, <1>3, <2>1, <2>2 DEF ReadLength, Handle
  <2>5. g.state \in HeaderStates /\ g.state \notin FrameStates
    BY <1>3, <2>2, LengthsAssumption
  <2>6. HandleInv(g)
    BY <2>3, <2>4, <2>5 DEF HandleInv, Stores
  <2>7. BytesToEnd(h) - 1 <= BytesToEnd(g)
    BY <1>3, <2>2, LengthsAssumption DEF BytesToEnd
  <2>8. QED
    BY <2>6, <2>7
<1>4. CASE h.state = WAIT_RSVD_BYTE1
  <2>1. g = Goto(h, WAIT_RSVD_BYTE2)
    BY <1>4 DEF FsmDecode
  <2>2. QED
    BY <1>0, <1>4, <2>1, LengthsAssumption
       DEF Goto, HandleInv, Handle, Stores, BytesToEnd
<1>5. CASE h.state = WAIT_RSVD_BYTE2
  <2>1. g = StartFrame(h)
    BY <1>5 DEF FsmDecode
  <2>2. QED
    BY <1>0, <1>5, <2>1, LengthsAssumption
       DEF StartFrame, Goto, HandleInv, Handle, Stores, BytesToEnd, ValidLen
<1>6. CASE h.state \in {WAIT_551, WAIT_552}
  <2>1. g = Goto(h, h.state - 1) \/ g = Goto(h, WAIT_AA1)
    BY <1>6 DEF FsmDecode, ExpectByte
  <2>2. QED
    BY <1>0, <1>6, <2>1, LengthsAssumption
       DEF Goto, HandleInv, Handle, Stores, BytesToEnd
<1>7. CASE Stores(h)
  <2>1. g = StoreByte(h)
    BY <1>0, <1>7, LengthsAssumption DEF FsmDecode, Stores
  <2>2. QED
    BY <1>0, <1>7, <2>1, LengthsAssumption
       DEF StoreByte, HandleInv, Handle, Stores, BytesToEnd, ValidLen
<1>8. QED
  BY <1>0, <1>1, <1>2, <1>3, <1>4, <1>5, <1>6, <1>7 DEF Stores

(***************************************************************************)
(* A chunk fits in the header or footer it is read for.                    *)
(***************************************************************************)
LEMMA ChunkFits ==
  ASSUME NEW h, HandleInv(h), GetAction(h) \in {"FIND_HEADER", "CHECK_FOOTER"}
  PROVE  /\ BytesRequired(h) \in 1 .. TOTAL_HEADER_LEN
         /\ BytesRequired(h) <= BytesToEnd(h)
<1>1. h.state \in HeaderStates \union {WAIT_551, WAIT_552}
  BY DEF GetAction
<1>2. QED
  BY <1>1, LengthsAssumption DEF HandleInv, Handle, BytesRequired, BytesToEnd

(***************************************************************************)
(* The sending side of the framing produces bytes.                         *)
(***************************************************************************)
LEMMA EncodeType ==
  ASSUME NEW f \in Frames
  PROVE  Encode(f) \in Seq(Byte)
<1>1. f \in Seq(Byte) /\ Len(f) \in Nat /\ Len(f) <= 32767
  <2>1. f \in Seq(Byte) /\ Len(f) <= MaxLen
    BY ReceiveAssumption DEF ValidLen
  <2>2. Len(f) \in Nat
    BY <2>1, LenProperties
  <2>3. QED
    BY <2>1, <2>2, LengthsAssumption
<1>2. Len(f) % 256 \in Byte /\ Len(f) \div 256 \in Byte
  BY <1>1, BytesFromLength
<1>3. CreateHeader(Len(f)) \in Seq(Byte) /\ CreateFooter \in Seq(Byte)
  BY <1>2, PatternBytes DEF CreateHeader, CreateFooter
<1>4. QED
  BY <1>1, <1>3, ConcatProperties DEF Encode

(***************************************************************************)
(* What a read returns, and what is left.                                  *)
(***************************************************************************)
LEMMA ReadType ==
  ASSUME NEW n \in Nat, stream \in Seq(Byte)
  PROVE  /\ Read(n) \in Seq(Byte) /\ Len(Read(n)) = n
         /\ \A i \in 1 .. n : Read(n)[i] \in Byte
         /\ SubSeq(stream, n + 1, Len(stream)) \in Seq(Byte)
<1>1. ASSUME NEW i \in 1 .. n PROVE Read(n)[i] \in Byte
  <2>1. Read(n)[i] = IF i <= Len(stream) THEN stream[i] ELSE Fill
    BY DEF Read
  <2>2. CASE i <= Len(stream)
    <3>1. stream[i] \in Byte
      BY <2>2, ElementOfSeq
    <3>2. QED
      BY <2>1, <2>2, <3>1
  <2>3. CASE ~(i <= Len(stream))
    BY <2>1, <2>3, ReceiveAssumption
  <2>4. QED
    BY <2>2, <2>3
<1>2. Read(n) \in [1 .. n -> Byte]
  BY <1>1, Zenon DEF Read
<1>3. Read(n) \in Seq(Byte) /\ Len(Read(n)) = n
  BY <1>2
<1>4. SubSeq(stream, n + 1, Len(stream)) \in Seq(Byte)
  <2>1. Len(stream) \in Nat /\ \A i \in 1 .. Len(stream) : stream[i] \in Byte
    BY LenProperties
  <2>2. \A i \in n + 1 .. Len(stream) : stream[i] \in Byte
    BY <2>1
  <2>3. QED
    BY <2>1, <2>2, SubSeqProperties
<1>5. QED
  BY <1>1, <1>3, <1>4
-----------------------------------------------------------------------------
LEMMA InitInv == Init => IInv
  BY LengthsAssumption, ReceiveAssumption
     DEF Init, IInv, TypeOK, HandleInv, ChunkInv, Handle, FsmInit, Stores

LEMMA NextInv == IInv /\ [Next]_vars => IInv'
<1> SUFFICES ASSUME IInv, [Next]_vars PROVE IInv'
  OBVIOUS
<1> USE DEF IInv
<1>1. ASSUME NEW f \in Frames, NEW w \in HwWords, ChipReceives(f, w)
      PROVE  IInv'
  <2>1. w \in Seq(Byte) /\ Encode(f) \in Seq(Byte)
    BY EncodeType, ReceiveAssumption
  <2>2. incoming' \in Seq(Byte)
    BY <1>1, <2>1 DEF ChipReceives, TypeOK
  <2>3. QED
    BY <1>1, <2>2 DEF ChipReceives, driver, TypeOK, ChunkInv
<1>2. CASE ChipMakesReadable
  BY <1>2 DEF ChipMakesReadable, driver, history, TypeOK, ChunkInv
<1>3. CASE ChipReboots
  <2>1. resets' \in 0 .. MaxResets
    BY <1>3, ReceiveAssumption DEF ChipReboots, TypeOK
  <2>2. incoming' = <<>> /\ stream' = <<>> /\ torn' = TRUE /\ UNCHANGED driver
    BY <1>3 DEF ChipReboots
  <2>3. QED
    BY <2>1, <2>2 DEF driver, TypeOK, ChunkInv
<1>4. CASE StartReceive
  <2>1. available' \in 0 .. UINT16_MAX
    <3>1. Len(stream) \in Nat
      BY LenProperties DEF TypeOK
    <3>2. QED
      BY <1>4, <3>1, Limits DEF StartReceive
  <2>2. rx_desc' \in BOOLEAN /\ torn' \in BOOLEAN /\ pc' = "loop"
    <3>1. rx_desc' \in BOOLEAN /\ pc' = "loop"
      BY <1>4 DEF StartReceive
    <3>2. torn' = (torn /\ ~CaughtUp)
      BY <1>4 DEF StartReceive
    <3>3. torn' \in BOOLEAN
      BY <3>2
    <3>4. QED
      BY <3>1, <3>3
  <2>3. UNCHANGED <<incoming, stream, lFrmHdl, rx_buffer, packet, resets>>
    BY <1>4 DEF StartReceive
  <2>4. QED
    BY <2>1, <2>2, <2>3 DEF TypeOK, ChunkInv
<1>5. CASE ReadHeaderOrFooter
  <2> DEFINE n == BytesRequired(lFrmHdl)
  <2>1. n \in 1 .. TOTAL_HEADER_LEN /\ n <= BytesToEnd(lFrmHdl)
    BY <1>5, ChunkFits DEF ReadHeaderOrFooter
  <2>2. rx_buffer' \in Seq(Byte) /\ Len(rx_buffer') = n /\ stream' \in Seq(Byte)
    <3>1. n \in Nat /\ stream \in Seq(Byte)
      BY <2>1 DEF TypeOK
    <3>2. rx_buffer' = Read(n) /\ stream' = SubSeq(stream, n + 1, Len(stream))
      BY <1>5 DEF ReadHeaderOrFooter, Consume
    <3>3. QED
      BY <3>1, <3>2, ReadType
  <2>3. available' \in 0 .. UINT16_MAX
    <3>1. available' = (available - n) % (UINT16_MAX + 1)
      BY <1>5 DEF ReadHeaderOrFooter, Consume
    <3>2. n \in Nat
      BY <2>1
    <3>3. QED
      BY <3>1, <3>2, Sub16Type DEF TypeOK
  <2>4. UNCHANGED <<incoming, lFrmHdl, packet, rx_desc, pc, history>>
    BY <1>5 DEF ReadHeaderOrFooter
  <2>5. TypeOK'
    BY <2>2, <2>3, <2>4 DEF history, TypeOK
  <2>6. HandleInv(lFrmHdl') /\ ChunkInv'
    BY <2>1, <2>2, <2>4 DEF ChunkInv
  <2>7. QED
    BY <2>5, <2>6
<1>6. CASE ProcessByte
  <2> DEFINE b == Head(rx_buffer)
  <2>1. /\ b \in Byte /\ rx_buffer' \in Seq(Byte)
        /\ Len(rx_buffer') = Len(rx_buffer) - 1 /\ Len(rx_buffer) \in Nat
    BY <1>6 DEF ProcessByte, TypeOK
  <2>2. /\ HandleInv(lFrmHdl')
        /\ lFrmHdl.state # COMPLETE =>
             \/ lFrmHdl'.state = WAIT_AA1
             \/ BytesToEnd(lFrmHdl) - 1 <= BytesToEnd(lFrmHdl')
    BY <1>6, <2>1, DecodeKeepsInv DEF ProcessByte
  <2>3. packet' \in [0 .. MaxLen - 1 -> Byte]
    BY <1>6, <2>1 DEF ProcessByte, TypeOK
  <2>4. TypeOK'
    BY <1>6, <2>1, <2>2, <2>3 DEF ProcessByte, history, TypeOK, HandleInv
  <2>5. ChunkInv'
    <3>1. lFrmHdl.state # COMPLETE /\ BytesToEnd(lFrmHdl) \in Nat
      <4>1. Len(rx_buffer) # 0 /\ Len(rx_buffer) <= BytesToEnd(lFrmHdl)
        BY <1>6, <2>1 DEF ProcessByte, ChunkInv
      <4>2. lFrmHdl.state \in HeaderStates \union FrameStates
        BY DEF HandleInv, Handle
      <4>3. lFrmHdl.state \in Int /\ BytesToEnd(lFrmHdl) \in Int
        BY <4>2, LengthsAssumption DEF BytesToEnd
      <4>4. 0 < BytesToEnd(lFrmHdl)
        BY <2>1, <4>1, <4>3
      <4>5. lFrmHdl.state # COMPLETE
        BY <4>4 DEF BytesToEnd
      <4>6. QED
        BY <4>3, <4>4, <4>5
    <3>2. BytesToEnd(lFrmHdl') \in Nat
      BY <2>2, LengthsAssumption DEF BytesToEnd, HandleInv, Handle
    <3>3. CASE lFrmHdl'.state = WAIT_AA1
      BY <3>3, <2>1, <1>6, LengthsAssumption
         DEF ProcessByte, ChunkInv, BytesToEnd
    <3>4. CASE BytesToEnd(lFrmHdl) - 1 <= BytesToEnd(lFrmHdl')
      BY <3>1, <3>2, <3>4, <2>1, <1>6 DEF ProcessByte, ChunkInv
    <3>5. QED
      BY <2>2, <3>1, <3>3, <3>4
  <2>6. QED
    BY <2>2, <2>4, <2>5
<1>7. CASE CopyFrame
  <2> DEFINE n == BurstLen(lFrmHdl)
  <2>1. Stores(lFrmHdl)
    BY <1>7 DEF CopyFrame, GetAction, Stores, HandleInv, Handle
  <2>2. n \in Nat /\ n = lFrmHdl.state - FOOTER_LEN
    BY <2>1, LengthsAssumption DEF BurstLen, HandleInv, Handle, Stores, ValidLen
  <2>3. lFrmHdl' = Goto(lFrmHdl, WAIT_551) /\ rx_buffer' = <<>>
    BY <1>7, <2>2 DEF CopyFrame, InLoop, HandleInv, Handle
  <2>4. HandleInv(lFrmHdl')
    BY <2>1, <2>3, LengthsAssumption
       DEF Goto, HandleInv, Handle, Stores
  <2>5. packet' \in [0 .. MaxLen - 1 -> Byte]
    <3>1. \A i \in 0 .. MaxLen - 1 :
            i \in lFrmHdl.offset .. lFrmHdl.offset + n - 1 =>
              Read(n)[i - lFrmHdl.offset + 1] \in Byte
      BY <2>2, ReadType DEF TypeOK, Handle
    <3>2. QED
      BY <1>7, <3>1 DEF CopyFrame, TypeOK
  <2>6. stream' \in Seq(Byte) /\ available' \in 0 .. UINT16_MAX
    <3>1. /\ stream' = SubSeq(stream, n + 1, Len(stream))
          /\ available' = (available - n) % (UINT16_MAX + 1)
      BY <1>7 DEF CopyFrame, Consume
    <3>2. QED
      BY <2>2, <3>1, ReadType, Sub16Type DEF TypeOK
  <2>7. QED
    BY <1>7, <2>3, <2>4, <2>5, <2>6
       DEF CopyFrame, history, TypeOK, ChunkInv, HandleInv
<1>8. CASE FrameComplete
  <2>1. lFrmHdl' = Goto(lFrmHdl, WAIT_AA1) /\ rx_buffer' = <<>>
    BY <1>8 DEF FrameComplete, InLoop, NextHeader
  <2>2. HandleInv(lFrmHdl')
    BY <2>1, LengthsAssumption DEF Goto, HandleInv, Handle, Stores
  <2>3. QED
    BY <1>8, <2>1, <2>2 DEF FrameComplete, TypeOK, ChunkInv, HandleInv
<1>9. CASE EndReceive
  BY <1>9 DEF EndReceive, history, TypeOK, ChunkInv
<1>10. CASE UNCHANGED vars
  BY <1>10 DEF vars, TypeOK, ChunkInv
<1>11. QED
  BY <1>1, <1>2, <1>3, <1>4, <1>5, <1>6, <1>7, <1>8, <1>9, <1>10
     DEF Next, Driver

(***************************************************************************)
(* The inductive invariant of the receive loop.                            *)
(***************************************************************************)
THEOREM ReceiveInvariant == Spec => []IInv
  BY InitInv, NextInv, PTL DEF Spec

(***************************************************************************)
(* Every variable of the receive loop keeps its type.                      *)
(***************************************************************************)
THEOREM ReceiveTypeCorrect == Spec => []TypeOK
<1>1. IInv => TypeOK
  BY DEF IInv
<1>2. QED
  BY <1>1, ReceiveInvariant, PTL

(***************************************************************************)
(* A DMA burst never writes behind the frame, nor behind the buffer.       *)
(***************************************************************************)
THEOREM CopyIsSafe == Spec => []CopyStaysInFrame
<1>1. IInv => CopyStaysInFrame
  BY DEF IInv, HandleInv, Handle, CopyStaysInFrame, GetAction, Stores
<1>2. QED
  BY <1>1, ReceiveInvariant, PTL

(***************************************************************************)
(* No finished frame is decoded over by the rest of its chunk.             *)
(***************************************************************************)
THEOREM ChunkIsSafe == Spec => []ChunkEndsWithFrame
<1>1. IInv => ChunkEndsWithFrame
  <2> SUFFICES ASSUME IInv, rx_buffer # <<>>, lFrmHdl.state = COMPLETE
               PROVE  FALSE
    BY DEF ChunkEndsWithFrame
  <2>1. Len(rx_buffer) \in Nat \ {0}
    BY DEF IInv, TypeOK
  <2>2. Len(rx_buffer) <= 0
    BY DEF IInv, ChunkInv, BytesToEnd
  <2>3. QED
    BY <2>1, <2>2
<1>2. QED
  BY <1>1, ReceiveInvariant, PTL

(***************************************************************************)
(* Both together.                                                          *)
(***************************************************************************)
THEOREM ReadsAreSafe == Spec => []ReadsStayInFrame
<1>1. CopyStaysInFrame /\ ChunkEndsWithFrame => ReadsStayInFrame
  BY DEF ReadsStayInFrame
<1>2. QED
  BY <1>1, CopyIsSafe, ChunkIsSafe, PTL
-----------------------------------------------------------------------------
(***************************************************************************)
(* Which frames come out.  The frames of the chip lie on the wire one      *)
(* after the other, each of Size(f) bytes.                                 *)
(***************************************************************************)
Size(f) == Len(f) + TOTAL_HEADER_LEN + FOOTER_LEN

\* What byte i of an encoded frame and its length word may be.
WireByte(f, i, b) ==
  /\ i = 4 => b # 170
  /\ i \in 5 .. 8 => b = 170
  /\ i = 9 => b = Len(f) % 256
  /\ i = 10 => b = Len(f) \div 256
  /\ i > 12 /\ i <= 12 + Len(f) => b = f[i - 12]
  /\ i > 12 + Len(f) => b = 85

(***************************************************************************)
(* The decoder has taken the first q bytes of frame f.  Before the header  *)
(* it may have counted bytes of the length word as its beginning, but no   *)
(* more of them than there are.                                            *)
(***************************************************************************)
Decoded(h, pk, f, q) ==
  /\ q \in 0 .. Size(f)
  /\ q <= 3 => WAIT_AA1 - q <= h.state /\ h.state <= WAIT_AA1
  /\ 4 <= q /\ q <= 11 => h.state = WAIT_AA1 - (q - 4)
  /\ q = 9 => h.len = Len(f) % 256
  /\ 10 <= q => h.len = Len(f)
  /\ 12 <= q => /\ h.state = Size(f) - q
                /\ \A i \in 0 .. Len(f) - 1 : i < q - 12 => pk[i] = f[i + 1]

(***************************************************************************)
(* All that the chip has sent since the driver last caught up with it, the *)
(* place p[j] where frame j begins in it, the c bytes that are decoded and *)
(* the k frames that are finished.                                         *)
(***************************************************************************)
OnWire(s, all, p, k) ==
  /\ all \in Seq(Byte) /\ p \in [Nat -> Nat] /\ k \in 0 .. Len(s)
  /\ p[Len(s) + 1] = Len(all)
  /\ \A j \in k + 1 .. Len(s) :
       /\ p[j + 1] = p[j] + Size(s[j]) /\ p[j + 1] <= Len(all)
       /\ \A i \in 1 .. Size(s[j]) : WireByte(s[j], i, all[p[j] + i])

Carried(rx, st, inc, all, c) ==
  /\ c \in Nat
  /\ c + Len(rx) + Len(st) + Len(inc) = Len(all)
  /\ \A i \in 1 .. Len(rx) : rx[i] = all[c + i]
  /\ \A i \in 1 .. Len(st) : st[i] = all[c + Len(rx) + i]
  /\ \A i \in 1 .. Len(inc) : inc[i] = all[c + Len(rx) + Len(st) + i]

Carries(all, c) == Carried(rx_buffer, stream, incoming, all, c)

At(p, c, k) ==
  /\ p[k + 1] <= c
  /\ k < Len(sent) => Decoded(lFrmHdl, packet, sent[k + 1], c - p[k + 1])
  /\ k = Len(sent) => lFrmHdl.state = WAIT_AA1

InStep(all, p, c, k) ==
  /\ OnWire(sent, all, p, k) /\ Carries(all, c) /\ At(p, c, k)
  /\ resets = 0 => k = Len(completed)

WireInv ==
  ~torn => /\ available <= Len(stream)
           /\ \E all, p, c, k : InStep(all, p, c, k)

Completions == [frame : Seq(Byte), intact : BOOLEAN]

DoneInv ==
  /\ sent \in Seq(Frames)
  /\ completed \in Seq(Completions)
  /\ pc = "idle" => rx_buffer = <<>>
  /\ resets = 0 =>
       /\ ~torn /\ Len(completed) <= Len(sent)
       /\ \A i \in 1 .. Len(completed) : completed[i].frame = sent[i]
  /\ \A i \in 1 .. Len(completed) :
       completed[i].intact =>
         \E j \in 1 .. Len(sent) : completed[i].frame = sent[j]

FlowInv == IInv /\ WireInv /\ DoneInv

(***************************************************************************)
(* The chip's length word has four bytes, of which the last is not taken   *)
(* for the start of a header.                                              *)
(***************************************************************************)
WordsAreNoise == \A w \in HwWords : Len(w) = 4 /\ w[4] # 170

(***************************************************************************)
(* One byte of the frame brings the decoder one byte further in it.        *)
(***************************************************************************)
LEMMA FrameLength ==
  ASSUME NEW f \in Frames
  PROVE  /\ f \in Seq(Byte) /\ Len(f) \in Nat
         /\ MinLen <= Len(f) /\ Len(f) <= MaxLen
  BY ReceiveAssumption, LenProperties DEF ValidLen

LEMMA LengthPutTogether ==
  ASSUME NEW n \in Nat PROVE (n % 256) + 256 * (n \div 256) = n
  OBVIOUS

LEMMA ByteDecoded ==
  ASSUME NEW h, NEW pk \in [0 .. MaxLen - 1 -> Byte], NEW f \in Frames,
         NEW q, NEW b \in Byte,
         HandleInv(h), Decoded(h, pk, f, q), q < Size(f),
         WireByte(f, q + 1, b)
  PROVE  Decoded(FsmDecode(h, b),
                 IF Stores(h) THEN [pk EXCEPT ![h.offset] = b] ELSE pk, f, q + 1)
<1> DEFINE g == FsmDecode(h, b)
           L == Len(f)
           pn == IF Stores(h) THEN [pk EXCEPT ![h.offset] = b] ELSE pk
<1>0. /\ L \in Nat /\ MinLen <= L /\ L <= MaxLen /\ Size(f) = L + 14
      /\ q \in Nat /\ q + 1 \in 0 .. Size(f)
  BY FrameLength DEF Decoded, Size
<1>l. MinLen \in Nat /\ 4 < MinLen /\ MaxLen \in Nat /\ MaxLen + 2 < 32757
  BY LengthsAssumption
<1>1. CASE q <= 2
  <2>1. h.state \in {WAIT_AA1, WAIT_AA2, WAIT_AA3}
    BY <1>0, <1>1 DEF Decoded, HandleInv, Handle
  <2>2. g.state = WAIT_AA1 \/ g.state = h.state - 1 \/ g.state = h.state
    BY <2>1 DEF FsmDecode, ExpectByte, Goto
  <2>3. g.state = h.state => h.state = WAIT_AA1
    BY <2>1 DEF FsmDecode, ExpectByte, Goto
  <2>4. WAIT_AA1 - q <= h.state
    BY <1>1 DEF Decoded
  <2>5. WAIT_AA1 - (q + 1) <= g.state /\ g.state <= WAIT_AA1
    BY <1>0, <1>1, <2>1, <2>2, <2>3, <2>4
  <2>6. QED
    BY <1>0, <1>1, <2>5 DEF Decoded
<1>2. CASE q = 3
  <2>1. h.state \in {WAIT_AA1, WAIT_AA2, WAIT_AA3, WAIT_AA4}
    BY <1>0, <1>2 DEF Decoded, HandleInv, Handle
  <2>2. b # 170
    BY <1>2 DEF WireByte
  <2>3. g.state = WAIT_AA1
    BY <2>1, <2>2 DEF FsmDecode, ExpectByte, Goto
  <2>4. QED
    BY <1>0, <1>2, <2>3 DEF Decoded
<1>3. CASE q \in {4, 5, 6, 7}
  <2>1. h.state = WAIT_AA1 - (q - 4)
    BY <1>0, <1>3 DEF Decoded
  <2>2. b = 170
    BY <1>3 DEF WireByte
  <2>3. g.state = h.state - 1
    BY <1>3, <2>1, <2>2 DEF FsmDecode, ExpectByte, Goto
  <2>4. QED
    BY <1>0, <1>3, <2>1, <2>3 DEF Decoded
<1>4. CASE q = 8
  <2>1. h.state = WAIT_LEN_BYTE0
    BY <1>0, <1>4 DEF Decoded
  <2>2. b = L % 256
    BY <1>4 DEF WireByte
  <2>3. g.state = WAIT_LEN_BYTE1 /\ g.len = b
    BY <2>1 DEF FsmDecode, ReadLength
  <2>4. QED
    BY <1>0, <1>4, <2>2, <2>3 DEF Decoded
<1>5. CASE q = 9
  <2>1. h.state = WAIT_LEN_BYTE1 /\ h.len = L % 256
    BY <1>0, <1>5 DEF Decoded
  <2>2. b = L \div 256
    BY <1>5 DEF WireByte
  <2>3. g.state = WAIT_RSVD_BYTE1 /\ g.len = h.len + 256 * b
    BY <2>1 DEF FsmDecode, ReadLength
  <2>4. g.len = L
    BY <1>0, <2>1, <2>2, <2>3, LengthPutTogether
  <2>5. QED
    BY <1>0, <1>5, <2>3, <2>4 DEF Decoded
<1>6. CASE q = 10
  <2>1. h.state = WAIT_RSVD_BYTE1 /\ h.len = L
    BY <1>0, <1>6 DEF Decoded
  <2>2. g.state = WAIT_RSVD_BYTE2 /\ g.len = L
    BY <2>1 DEF FsmDecode, Goto
  <2>3. QED
    BY <1>0, <1>6, <2>2 DEF Decoded
<1>7. CASE q = 11
  <2>1. h.state = WAIT_RSVD_BYTE2 /\ h.len = L
    BY <1>0, <1>7 DEF Decoded
  <2>2. g.state = L + 2 /\ g.len = L
    BY <1>0, <2>1 DEF FsmDecode, StartFrame, ValidLen
  <2>3. QED
    BY <1>0, <1>7, <2>2 DEF Decoded
<1>8. CASE 12 <= q
  <2>1. /\ h.state = L + 14 - q /\ h.len = L
        /\ \A i \in 0 .. L - 1 : i < q - 12 => pk[i] = f[i + 1]
    BY <1>0, <1>8 DEF Decoded
  <2>2. h.state \in 1 .. MaxLen + 2
    BY <1>0, <1>8, <2>1, <1>l
  <2>3. CASE h.state \in {WAIT_551, WAIT_552}
    <3>1. b = 85
      BY <1>0, <1>8, <2>1, <2>3 DEF WireByte
    <3>2. g.state = h.state - 1 /\ g.len = L
      BY <2>1, <2>3, <3>1 DEF FsmDecode, ExpectByte, Goto
    <3>3. pn = pk
      BY <2>3 DEF Stores
    <3>4. \A i \in 0 .. L - 1 : i < q + 1 - 12 => pn[i] = f[i + 1]
      BY <1>0, <1>8, <2>1, <2>3, <3>3
    <3>5. QED
      BY <1>0, <1>8, <2>1, <3>2, <3>4 DEF Decoded
  <2>4. CASE h.state \notin {WAIT_551, WAIT_552}
    <3>1. Stores(h) /\ h.offset = q - 12
      <4>1. Stores(h)
        BY <2>2, <2>4, <1>l DEF Stores
      <4>2. h.offset + (h.state - 2) = h.len /\ h.offset \in Nat
        BY <4>1 DEF HandleInv, Handle
      <4>3. QED
        BY <1>0, <2>1, <4>1, <4>2
    <3>2. b = f[q - 12 + 1]
      <4>1. q + 1 > 12 /\ q + 1 <= 12 + L
        BY <1>0, <1>8, <2>1, <2>2, <2>4
      <4>2. b = f[q + 1 - 12]
        BY <1>0, <4>1 DEF WireByte
      <4>3. q + 1 - 12 = q - 12 + 1
        BY <1>0
      <4>4. QED
        BY <4>2, <4>3
    <3>3. g.state = h.state - 1 /\ g.len = L
      <4>1. h.state \in 3 .. MaxLen + 2
        BY <1>0, <2>1, <2>2, <2>4
      <4>2. g = StoreByte(h)
        BY <4>1, <1>l DEF FsmDecode
      <4>3. QED
        BY <2>1, <4>2 DEF StoreByte
    <3>4. pn = [pk EXCEPT ![q - 12] = b]
      BY <3>1
    <3>5. ASSUME NEW i \in 0 .. L - 1, i < q + 1 - 12 PROVE pn[i] = f[i + 1]
      <4>1. i \in 0 .. MaxLen - 1
        BY <1>0, <1>l
      <4>2. CASE i = q - 12
        BY <3>2, <3>4, <4>1, <4>2
      <4>3. CASE i < q - 12
        BY <1>0, <2>1, <3>4, <4>1, <4>3
      <4>4. QED
        BY <1>0, <3>5, <4>2, <4>3
    <3>6. QED
      BY <1>0, <1>8, <2>1, <3>3, <3>5 DEF Decoded
  <2>5. QED
    BY <2>3, <2>4
<1>9. QED
  BY <1>0, <1>1, <1>2, <1>3, <1>4, <1>5, <1>6, <1>7, <1>8

LEMMA PayloadByte ==
  ASSUME NEW f, NEW u, NEW b, WireByte(f, u, b), u > 12, u <= 12 + Len(f)
  PROVE  b = f[u - 12]
  BY DEF WireByte

(***************************************************************************)
(* The burst takes the rest of the frame, from where the decoder stands.   *)
(***************************************************************************)
LEMMA BurstFits ==
  ASSUME NEW h, NEW pk, NEW f \in Frames, NEW q,
         HandleInv(h), Decoded(h, pk, f, q), GetAction(h) = "COPY_FRAME"
  PROVE  /\ q \in Nat /\ 12 <= q /\ h.state = Len(f) + 14 - q
         /\ h.len = Len(f) /\ h.offset = q - 12
         /\ BurstLen(h) = Len(f) + 12 - q /\ BurstLen(h) \in Nat
         /\ q + BurstLen(h) = Len(f) + 12 /\ q + BurstLen(h) <= Size(f)
         /\ BurstLen(h) = BytesRequired(h)
<1> DEFINE L == Len(f)
           n == BurstLen(h)
<1>0. /\ L \in Nat /\ MinLen <= L /\ L <= MaxLen /\ Size(f) = L + 14
      /\ q \in Nat /\ q <= L + 14
  BY FrameLength DEF Decoded, Size
<1>l. MinLen \in Nat /\ 4 < MinLen /\ MaxLen \in Nat /\ MaxLen + 2 < 32757
  BY LengthsAssumption
<1>1. h.state \in 3 .. MaxLen + 2 /\ Stores(h)
  <2>1. h.state \in HeaderStates \union FrameStates
    BY DEF HandleInv, Handle
  <2>2. h.state \notin HeaderStates /\ h.state \notin {0, 1, 2}
    BY DEF GetAction
  <2>3. h.state \in 3 .. MaxLen + 2
    BY <1>l, <2>1, <2>2
  <2>4. QED
    BY <1>l, <2>3 DEF Stores
<1>2. 12 <= q
  <2> SUFFICES ASSUME q <= 11 PROVE FALSE
    BY <1>0
  <2>1. CASE q <= 3
    BY <1>0, <1>1, <1>l, <2>1 DEF Decoded
  <2>2. CASE 4 <= q
    BY <1>0, <1>1, <1>l, <2>2 DEF Decoded
  <2>3. QED
    BY <1>0, <2>1, <2>2
<1>3. h.state = L + 14 - q /\ h.len = L
  BY <1>0, <1>2 DEF Decoded
<1>4. h.offset = q - 12
  <2>1. h.offset + (h.state - 2) = h.len /\ h.offset \in Nat
    BY <1>1 DEF HandleInv, Handle
  <2>2. QED
    BY <1>0, <1>3, <2>1
<1>5. n = L + 12 - q /\ n \in Nat /\ q + n = L + 12
  <2>1. n = h.len - h.offset
    BY DEF BurstLen
  <2>2. QED
    BY <1>0, <1>1, <1>3, <1>4, <2>1
<1>6. n = BytesRequired(h)
  <2>1. BytesRequired(h) = h.state - 2
    BY <1>1, <1>l DEF BytesRequired
  <2>2. QED
    BY <1>0, <1>3, <1>5, <2>1
<1>7. QED
  BY <1>0, <1>2, <1>3, <1>4, <1>5, <1>6

LEMMA BurstDecoded ==
  ASSUME NEW h, NEW pk \in [0 .. MaxLen - 1 -> Byte], NEW f \in Frames, NEW q,
         HandleInv(h), Decoded(h, pk, f, q), GetAction(h) = "COPY_FRAME",
         NEW r, \A i \in 1 .. BurstLen(h) : WireByte(f, q + i, r[i])
  PROVE  Decoded(Goto(h, h.state - BurstLen(h)),
                 [i \in 0 .. MaxLen - 1 |->
                    IF i \in h.offset .. h.offset + BurstLen(h) - 1
                      THEN r[i - h.offset + 1] ELSE pk[i]],
                 f, q + BurstLen(h))
<1> DEFINE L == Len(f)
           n == BurstLen(h)
           g == Goto(h, h.state - n)
           pn == [i \in 0 .. MaxLen - 1 |->
                    IF i \in h.offset .. h.offset + n - 1
                      THEN r[i - h.offset + 1] ELSE pk[i]]
<1>0. /\ L \in Nat /\ MinLen <= L /\ L <= MaxLen /\ Size(f) = L + 14
  BY FrameLength DEF Size
<1>l. MinLen \in Nat /\ 4 < MinLen /\ MaxLen \in Nat /\ MaxLen + 2 < 32757
  BY LengthsAssumption
<1>2. /\ q \in Nat /\ 12 <= q /\ h.state = L + 14 - q /\ h.len = L
      /\ h.offset = q - 12
      /\ n = L + 12 - q /\ n \in Nat /\ q + n = L + 12
  BY BurstFits
<1>3. \A i \in 0 .. L - 1 : i < q - 12 => pk[i] = f[i + 1]
  BY <1>2 DEF Decoded
<1>7. g.state = 2 /\ g.len = L
  BY <1>0, <1>2 DEF Goto
<1>8. ASSUME NEW i \in 0 .. L - 1 PROVE pn[i] = f[i + 1]
  <2>1. i \in 0 .. MaxLen - 1
    BY <1>0, <1>l
  <2>2. CASE i < q - 12
    <3>1. i \notin h.offset .. h.offset + n - 1
      BY <1>2, <2>2, <1>0
    <3>2. QED
      BY <1>3, <2>1, <2>2, <3>1
  <2>3. CASE q - 12 <= i
    <3>1. i \in h.offset .. h.offset + n - 1
      BY <1>0, <1>2, <2>3
    <3>2. pn[i] = r[i - h.offset + 1]
      BY <2>1, <3>1
    <3>3. /\ i - h.offset + 1 \in 1 .. n
          /\ (q + (i - h.offset + 1)) - 12 = i + 1
          /\ q + (i - h.offset + 1) > 12
          /\ q + (i - h.offset + 1) <= 12 + L
      BY <1>0, <1>2, <2>3
    <3>4. WireByte(f, q + (i - h.offset + 1), r[i - h.offset + 1])
      BY <3>3
    <3>5. r[i - h.offset + 1] = f[(q + (i - h.offset + 1)) - 12]
      <4>1. /\ q + (i - h.offset + 1) > 12
            /\ q + (i - h.offset + 1) <= 12 + Len(f)
        BY <3>3
      <4>2. QED
        BY <3>4, <4>1, PayloadByte, Zenon
    <3>6. QED
      BY <3>2, <3>3, <3>5
  <2>4. QED
    BY <1>0, <1>2, <2>2, <2>3
<1>9. Decoded(g, pn, f, q + n)
  BY <1>0, <1>2, <1>7, <1>8 DEF Decoded
<1>10. QED
  BY <1>9

(***************************************************************************)
(* Two sequences of bytes, one after the other.                            *)
(***************************************************************************)
LEMMA Joined ==
  ASSUME NEW s \in Seq(Byte), NEW t \in Seq(Byte)
  PROVE  /\ s \o t \in Seq(Byte) /\ Len(s \o t) = Len(s) + Len(t)
         /\ \A i \in 1 .. Len(s) : (s \o t)[i] = s[i]
         /\ \A i \in 1 .. Len(t) : (s \o t)[Len(s) + i] = t[i]
<1>1. s \o t \in Seq(Byte) /\ Len(s \o t) = Len(s) + Len(t)
  BY ConcatProperties
<1>2. Len(s) \in Nat /\ Len(t) \in Nat
  BY LenProperties
<1>3. \A i \in 1 .. Len(s) + Len(t) :
        (s \o t)[i] = IF i <= Len(s) THEN s[i] ELSE t[i - Len(s)]
  BY ConcatProperties
<1>4. QED
  BY <1>1, <1>2, <1>3

(***************************************************************************)
(* What the chip puts on the wire for a frame.                             *)
(***************************************************************************)
LEMMA EncodedBytes ==
  ASSUME NEW f \in Frames, NEW w \in Seq(Byte), Len(w) = 4, w[4] # 170
  PROVE  /\ Encode(f) \in Seq(Byte) /\ w \o Encode(f) \in Seq(Byte)
         /\ Len(w \o Encode(f)) = Size(f)
         /\ \A i \in 1 .. Size(f) : WireByte(f, i, (w \o Encode(f))[i])
<1> DEFINE L == Len(f)
           H == CreateHeader(L)
           e == H \o f \o CreateFooter
           s == w \o e
<1>0. L \in Nat /\ Size(f) = L + 14 /\ f \in Seq(Byte)
  BY FrameLength DEF Size
<1>1. e \in Seq(Byte) /\ e = Encode(f)
  BY EncodeType DEF Encode
<1>2. /\ Len(H) = 8 /\ H[1] = 170 /\ H[2] = 170 /\ H[3] = 170 /\ H[4] = 170
      /\ H[5] = L % 256 /\ H[6] = L \div 256
  BY DEF CreateHeader
<1>3. Len(CreateFooter) = 2 /\ CreateFooter[1] = 85 /\ CreateFooter[2] = 85
  BY DEF CreateFooter
<1>4. H \in Seq(Byte) /\ CreateFooter \in Seq(Byte)
  <2>1. L % 256 \in Byte /\ L \div 256 \in Byte
    <3>1. L <= 32767
      BY <1>0, FrameLength, LengthsAssumption
    <3>2. QED
      BY <1>0, <3>1, BytesFromLength
  <2>2. QED
    BY <2>1, PatternBytes DEF CreateHeader, CreateFooter
<1> DEFINE Hf == H \o f
<1>5. /\ Hf \in Seq(Byte) /\ Len(Hf) = 8 + L
      /\ \A i \in 1 .. 8 : Hf[i] = H[i]
      /\ \A i \in 1 .. L : Hf[8 + i] = f[i]
  <2> HIDE DEF H
  <2>1. /\ Hf \in Seq(Byte) /\ Len(Hf) = Len(H) + Len(f)
        /\ \A i \in 1 .. Len(H) : Hf[i] = H[i]
        /\ \A i \in 1 .. Len(f) : Hf[Len(H) + i] = f[i]
    BY <1>0, <1>4, Joined, Zenon
  <2> HIDE DEF Hf
  <2>2. QED
    BY <1>0, <1>2, <2>1
<1>6. /\ Len(e) = L + 10
      /\ \A i \in 1 .. 8 + L : e[i] = Hf[i]
      /\ \A i \in 1 .. 2 : e[8 + L + i] = CreateFooter[i]
  <2>1. e = Hf \o CreateFooter
    OBVIOUS
  <2> HIDE DEF Hf, e
  <2>2. /\ Len(e) = Len(Hf) + Len(CreateFooter)
        /\ \A i \in 1 .. Len(Hf) : e[i] = Hf[i]
        /\ \A i \in 1 .. Len(CreateFooter) : e[Len(Hf) + i] = CreateFooter[i]
    <3>1. /\ Len(Hf \o CreateFooter) = Len(Hf) + Len(CreateFooter)
          /\ \A i \in 1 .. Len(Hf) : (Hf \o CreateFooter)[i] = Hf[i]
          /\ \A i \in 1 .. Len(CreateFooter) :
               (Hf \o CreateFooter)[Len(Hf) + i] = CreateFooter[i]
      <4> DEFINE F == CreateFooter
      <4>1. Hf \in Seq(Byte) /\ F \in Seq(Byte)
        BY <1>4, <1>5
      <4> HIDE DEF F
      <4>2. /\ Hf \o F \in Seq(Byte) /\ Len(Hf \o F) = Len(Hf) + Len(F)
            /\ \A i \in 1 .. Len(Hf) : (Hf \o F)[i] = Hf[i]
            /\ \A i \in 1 .. Len(F) : (Hf \o F)[Len(Hf) + i] = F[i]
        BY <4>1, Joined, Zenon
      <4>3. QED
        BY <4>2 DEF F
    <3>2. QED
      BY <2>1, <3>1, Zenon
  <2>3. QED
    BY <1>0, <1>3, <1>5, <2>2
<1>7. /\ s \in Seq(Byte) /\ Len(s) = L + 14
      /\ s[4] = w[4]
      /\ \A i \in 1 .. L + 10 : s[4 + i] = e[i]
  <2> HIDE DEF e
  <2>1. /\ s \in Seq(Byte) /\ Len(s) = Len(w) + Len(e)
        /\ \A i \in 1 .. Len(w) : s[i] = w[i]
        /\ \A i \in 1 .. Len(e) : s[Len(w) + i] = e[i]
    BY <1>1, Joined, Zenon
  <2> HIDE DEF s
  <2>2. QED
    BY <1>0, <1>6, <2>1
<1> HIDE DEF s, e, H, Hf
<1>8. ASSUME NEW i \in 1 .. Size(f) PROVE WireByte(f, i, s[i])
  <2>1. i \in 5 .. 8 => s[i] = 170
    <3> SUFFICES ASSUME i \in 5 .. 8 PROVE s[i] = 170
      OBVIOUS
    <3>1. i - 4 \in 1 .. 4 /\ 4 + (i - 4) = i /\ i - 4 \in 1 .. L + 10
          /\ i - 4 \in 1 .. 8 /\ i - 4 \in 1 .. 8 + L
      BY <1>0
    <3>2. s[i] = e[i - 4]
      BY <1>7, <3>1
    <3>3. e[i - 4] = Hf[i - 4] /\ Hf[i - 4] = H[i - 4]
      BY <1>5, <1>6, <3>1
    <3>4. i - 4 = 1 \/ i - 4 = 2 \/ i - 4 = 3 \/ i - 4 = 4
      BY <3>1
    <3>5. QED
      BY <1>2, <3>2, <3>3, <3>4
  <2>2. s[9] = L % 256 /\ s[10] = L \div 256
    <3>1. 5 \in 1 .. L + 10 /\ 6 \in 1 .. L + 10 /\ 5 \in 1 .. 8 + L /\ 6 \in 1 .. 8 + L
      BY <1>0
    <3>2. s[4 + 5] = H[5] /\ s[4 + 6] = H[6]
      BY <1>5, <1>6, <1>7, <3>1
    <3>3. QED
      BY <1>2, <3>2
  <2>3. i > 12 /\ i <= 12 + L => s[i] = f[i - 12]
    <3> SUFFICES ASSUME i > 12, i <= 12 + L PROVE s[i] = f[i - 12]
      OBVIOUS
    <3>1. i - 4 \in 1 .. L + 10 /\ 4 + (i - 4) = i /\ i - 4 \in 1 .. 8 + L
          /\ i - 12 \in 1 .. L /\ 8 + (i - 12) = i - 4
      BY <1>0
    <3>2. s[i] = e[i - 4]
      BY <1>7, <3>1
    <3>3. e[i - 4] = Hf[i - 4]
      BY <1>6, <3>1
    <3>4. Hf[8 + (i - 12)] = f[i - 12]
      BY <1>5, <3>1
    <3>5. QED
      BY <3>1, <3>2, <3>3, <3>4
  <2>4. i > 12 + L => s[i] = 85
    <3> SUFFICES ASSUME i > 12 + L PROVE s[i] = 85
      OBVIOUS
    <3>1. i - 4 \in 1 .. L + 10 /\ 4 + (i - 4) = i
          /\ i - 12 - L \in 1 .. 2 /\ 8 + L + (i - 12 - L) = i - 4
      BY <1>0
    <3>2. s[i] = CreateFooter[i - 12 - L]
      BY <1>6, <1>7, <3>1
    <3>3. i - 12 - L = 1 \/ i - 12 - L = 2
      BY <1>0, <3>1
    <3>4. QED
      BY <1>3, <3>2, <3>3
  <2>5. QED
    BY <1>7, <2>1, <2>2, <2>3, <2>4 DEF WireByte
<1>9. QED
  BY <1>0, <1>1, <1>7, <1>8 DEF s
-----------------------------------------------------------------------------
(***************************************************************************)
(* The bytes on their way from the wire to the decoder: the chip adds some *)
(* at the end, and each part passes its first ones on.                     *)
(***************************************************************************)
LEMMA CarryIn ==
  ASSUME NEW rx \in Seq(Byte), NEW st \in Seq(Byte), NEW inc \in Seq(Byte),
         NEW all \in Seq(Byte), NEW c, NEW e \in Seq(Byte),
         Carried(rx, st, inc, all, c)
  PROVE  Carried(rx, st, inc \o e, all \o e, c)
<1> DEFINE new == inc \o e
           total == all \o e
           m == Len(rx)
           n == Len(st)
           k == Len(inc)
           a == Len(all)
           x == Len(e)
<1>0. m \in Nat /\ n \in Nat /\ k \in Nat /\ a \in Nat /\ x \in Nat /\ c \in Nat
  BY LenProperties DEF Carried
<1>1. /\ new \in Seq(Byte) /\ Len(new) = Len(inc) + Len(e)
      /\ \A i \in 1 .. Len(inc) : new[i] = inc[i]
      /\ \A i \in 1 .. Len(e) : new[Len(inc) + i] = e[i]
  BY Joined, Zenon
<1>2. /\ total \in Seq(Byte) /\ Len(total) = Len(all) + Len(e)
      /\ \A i \in 1 .. Len(all) : total[i] = all[i]
      /\ \A i \in 1 .. Len(e) : total[Len(all) + i] = e[i]
  BY Joined, Zenon
<1>3. /\ ((c + m) + n) + k = a
      /\ \A i \in 1 .. m : rx[i] = all[c + i]
      /\ \A i \in 1 .. n : st[i] = all[(c + m) + i]
      /\ \A i \in 1 .. k : inc[i] = all[((c + m) + n) + i]
  BY DEF Carried
<1>4. Len(new) = k + x /\ Len(total) = a + x
  BY <1>1, <1>2
<1> HIDE DEF new, total, m, n, k, a, x
<1>5. ASSUME NEW i \in 1 .. m PROVE rx[i] = total[c + i]
  <2>1. c + i \in 1 .. a
    BY <1>0, <1>3
  <2>2. QED
    BY <1>2, <1>3, <2>1 DEF a
<1>6. ASSUME NEW i \in 1 .. n PROVE st[i] = total[(c + m) + i]
  <2>1. (c + m) + i \in 1 .. a
    BY <1>0, <1>3
  <2>2. QED
    BY <1>2, <1>3, <2>1 DEF a
<1>7. ASSUME NEW i \in 1 .. k + x PROVE new[i] = total[((c + m) + n) + i]
  <2>1. CASE i <= k
    <3>1. i \in 1 .. k /\ ((c + m) + n) + i \in 1 .. a
      BY <1>0, <1>3, <2>1
    <3>2. QED
      BY <1>1, <1>2, <1>3, <3>1 DEF a, k
  <2>2. CASE k < i
    <3>1. i - k \in 1 .. x /\ k + (i - k) = i /\ ((c + m) + n) + i = a + (i - k)
      BY <1>0, <1>3, <2>2
    <3>2. new[i] = e[i - k]
      BY <1>1, <3>1 DEF k, x
    <3>3. total[a + (i - k)] = e[i - k]
      BY <1>2, <3>1 DEF a, x
    <3>4. QED
      BY <3>1, <3>2, <3>3
  <2>3. QED
    BY <1>0, <2>1, <2>2
<1>8. ((c + m) + n) + (k + x) = a + x
  <2>1. ((c + m) + n) + k = a
    BY <1>3
  <2>2. QED
    BY <1>0, <2>1
<1>9. QED
  BY <1>0, <1>4, <1>5, <1>6, <1>7, <1>8 DEF Carried, m, n, new, total

LEMMA CarryOver ==
  ASSUME NEW rx \in Seq(Byte), NEW st \in Seq(Byte), NEW inc \in Seq(Byte),
         NEW all \in Seq(Byte), NEW c,
         Carried(rx, st, inc, all, c), inc # <<>>
  PROVE  Carried(rx, Append(st, Head(inc)), Tail(inc), all, c)
<1> DEFINE st2 == Append(st, Head(inc))
           in2 == Tail(inc)
           m == Len(rx)
           n == Len(st)
           k == Len(inc)
           a == Len(all)
<1>0. m \in Nat /\ n \in Nat /\ k \in Nat /\ a \in Nat /\ c \in Nat /\ 0 < k
  BY LenProperties DEF Carried
<1>1. /\ ((c + m) + n) + k = a
      /\ \A i \in 1 .. m : rx[i] = all[c + i]
      /\ \A i \in 1 .. n : st[i] = all[(c + m) + i]
      /\ \A i \in 1 .. k : inc[i] = all[((c + m) + n) + i]
  BY DEF Carried
<1>2. Head(inc) \in Byte /\ Head(inc) = inc[1]
  BY HeadTailProperties
<1>3. /\ Len(in2) = k - 1
      /\ \A i \in 1 .. k - 1 : in2[i] = inc[i + 1]
  <2>1. /\ Len(Tail(inc)) = Len(inc) - 1
        /\ \A i \in 1 .. Len(Tail(inc)) : Tail(inc)[i] = inc[i + 1]
    BY HeadTailProperties
  <2>2. QED
    BY <2>1
<1>4. /\ Len(st2) = n + 1
      /\ \A i \in 1 .. n : st2[i] = st[i]
      /\ st2[n + 1] = inc[1]
  BY <1>2, AppendProperties
<1> HIDE DEF st2, in2, m, n, k, a
<1>5. ASSUME NEW i \in 1 .. n + 1 PROVE st2[i] = all[(c + m) + i]
  <2>1. CASE i <= n
    BY <1>0, <1>1, <1>4, <2>1
  <2>2. CASE i = n + 1
    <3>1. 1 \in 1 .. k /\ ((c + m) + n) + 1 = (c + m) + i
      BY <1>0, <2>2
    <3>2. QED
      BY <1>1, <1>4, <2>2, <3>1
  <2>3. QED
    BY <1>0, <2>1, <2>2
<1>6. ASSUME NEW i \in 1 .. k - 1 PROVE in2[i] = all[((c + m) + (n + 1)) + i]
  <2>1. i + 1 \in 1 .. k /\ ((c + m) + n) + (i + 1) = ((c + m) + (n + 1)) + i
    BY <1>0
  <2>2. QED
    BY <1>1, <1>3, <2>1
<1>7. ((c + m) + (n + 1)) + (k - 1) = a
  BY <1>0, <1>1
<1>8. QED
  BY <1>0, <1>1, <1>3, <1>4, <1>5, <1>6, <1>7 DEF Carried, m, a, st2, in2

LEMMA CarryChunk ==
  ASSUME NEW st \in Seq(Byte), NEW inc \in Seq(Byte), NEW all \in Seq(Byte),
         NEW c, Carried(<<>>, st, inc, all, c),
         NEW n \in Nat, n <= Len(st),
         NEW rx \in Seq(Byte), Len(rx) = n, \A i \in 1 .. n : rx[i] = st[i]
  PROVE  /\ Carried(rx, SubSeq(st, n + 1, Len(st)), inc, all, c)
         /\ Carried(<<>>, SubSeq(st, n + 1, Len(st)), inc, all, c + n)
         /\ \A i \in 1 .. n : rx[i] = all[c + i]
         /\ SubSeq(st, n + 1, Len(st)) \in Seq(Byte)
         /\ Len(SubSeq(st, n + 1, Len(st))) = Len(st) - n
<1> DEFINE st2 == SubSeq(st, n + 1, Len(st))
           s == Len(st)
           k == Len(inc)
           a == Len(all)
<1>0. s \in Nat /\ k \in Nat /\ a \in Nat /\ c \in Nat /\ n <= s
  BY LenProperties DEF Carried
<1>1. /\ (c + s) + k = a
      /\ \A i \in 1 .. s : st[i] = all[c + i]
      /\ \A i \in 1 .. k : inc[i] = all[(c + s) + i]
  <2>1. /\ c + 0 + s + k = a
        /\ \A i \in 1 .. s : st[i] = all[c + 0 + i]
        /\ \A i \in 1 .. k : inc[i] = all[c + 0 + s + i]
    BY DEF Carried
  <2>2. c + 0 = c
    BY <1>0
  <2>3. QED
    BY <2>1, <2>2
<1>2. /\ st2 \in Seq(Byte) /\ Len(st2) = s - n
      /\ \A i \in 1 .. s - n : st2[i] = st[n + i]
  <2>1. n + 1 \in Int /\ s \in Int /\ \A i \in n + 1 .. s : st[i] \in Byte
    <3>1. \A i \in 1 .. s : st[i] \in Byte
      BY LenProperties
    <3>2. \A i \in n + 1 .. s : i \in 1 .. s
      BY <1>0
    <3>3. QED
      BY <1>0, <3>1, <3>2
  <2>2. /\ SubSeq(st, n + 1, s) \in Seq(Byte)
        /\ Len(SubSeq(st, n + 1, s)) = IF n + 1 <= s THEN s - (n + 1) + 1 ELSE 0
        /\ \A i \in 1 .. s - (n + 1) + 1 :
             SubSeq(st, n + 1, s)[i] = st[(n + 1) + i - 1]
    BY <2>1, SubSeqProperties
  <2>3. /\ s - (n + 1) + 1 = s - n
        /\ \A i \in 1 .. s - n : (n + 1) + i - 1 = n + i
    BY <1>0
  <2>4. n + 1 <= s \/ s - n = 0
    BY <1>0
  <2>5. QED
    BY <1>0, <2>2, <2>3, <2>4
<1>3. ASSUME NEW i \in 1 .. n PROVE rx[i] = all[c + i]
  <2>1. i \in 1 .. s
    BY <1>0
  <2>2. rx[i] = st[i] /\ st[i] = all[c + i]
    BY <1>1, <2>1
  <2>3. QED
    BY <2>2
<1>4. Len(<<>>) = 0 /\ c + 0 = c /\ (c + n) + 0 = c + n
  BY <1>0
<1> HIDE DEF st2, s, k, a
<1>5. ASSUME NEW i \in 1 .. s - n PROVE st2[i] = all[(c + n) + i]
  <2>1. n + i \in 1 .. s /\ c + (n + i) = (c + n) + i
    BY <1>0
  <2>2. st2[i] = st[n + i] /\ st[n + i] = all[c + (n + i)]
    BY <1>1, <1>2, <2>1
  <2>3. QED
    BY <2>1, <2>2
<1>6. (c + n) + (s - n) = c + s
  BY <1>0
<1>7. Carried(rx, st2, inc, all, c)
  <2>1. /\ ((c + n) + (s - n)) + k = a
        /\ \A i \in 1 .. k : inc[i] = all[((c + n) + (s - n)) + i]
    BY <1>1, <1>6
  <2>2. QED
    BY <1>0, <1>2, <1>3, <1>5, <2>1 DEF Carried, k, a
<1>8. Carried(<<>>, st2, inc, all, c + n)
  <2>1. /\ (((c + n) + 0) + (s - n)) + k = a
        /\ \A i \in 1 .. s - n : st2[i] = all[((c + n) + 0) + i]
        /\ \A i \in 1 .. k : inc[i] = all[(((c + n) + 0) + (s - n)) + i]
    BY <1>1, <1>4, <1>5, <1>6
  <2>2. c + n \in Nat
    BY <1>0
  <2>3. \A i \in 1 .. 0 : <<>>[i] = all[(c + n) + i]
    OBVIOUS
  <2> DEFINE none == <<>>
  <2>4. Len(none) = 0 /\ \A i \in 1 .. 0 : none[i] = all[(c + n) + i]
    BY <1>4, <2>3
  <2> HIDE DEF none
  <2>5. Carried(none, st2, inc, all, c + n)
    BY <1>2, <2>1, <2>2, <2>4 DEF Carried, k, a
  <2>6. QED
    BY <2>5 DEF none
<1>9. QED
  BY <1>2, <1>3, <1>7, <1>8 DEF st2, s

LEMMA CarryByte ==
  ASSUME NEW rx \in Seq(Byte), NEW st \in Seq(Byte), NEW inc \in Seq(Byte),
         NEW all \in Seq(Byte), NEW c,
         Carried(rx, st, inc, all, c), rx # <<>>
  PROVE  /\ Carried(Tail(rx), st, inc, all, c + 1)
         /\ Head(rx) = all[c + 1] /\ c < Len(all)
<1> DEFINE rx2 == Tail(rx)
           m == Len(rx)
           n == Len(st)
           k == Len(inc)
           a == Len(all)
<1>0. m \in Nat /\ n \in Nat /\ k \in Nat /\ a \in Nat /\ c \in Nat /\ 0 < m
  BY LenProperties DEF Carried
<1>1. /\ ((c + m) + n) + k = a
      /\ \A i \in 1 .. m : rx[i] = all[c + i]
      /\ \A i \in 1 .. n : st[i] = all[(c + m) + i]
      /\ \A i \in 1 .. k : inc[i] = all[((c + m) + n) + i]
  BY DEF Carried
<1>2. Head(rx) = rx[1]
  BY HeadTailProperties
<1>3. /\ Len(rx2) = m - 1
      /\ \A i \in 1 .. m - 1 : rx2[i] = rx[i + 1]
  <2>1. /\ Len(Tail(rx)) = Len(rx) - 1
        /\ \A i \in 1 .. Len(Tail(rx)) : Tail(rx)[i] = rx[i + 1]
    BY HeadTailProperties
  <2>2. QED
    BY <2>1
<1> HIDE DEF rx2, m, n, k, a
<1>4. (c + 1) + (m - 1) = c + m /\ 1 \in 1 .. m /\ c + 1 \in Nat /\ c < a
  BY <1>0, <1>1
<1>5. \A i \in 1 .. m - 1 : rx2[i] = all[(c + 1) + i]
  <2>1. \A i \in 1 .. m - 1 : i + 1 \in 1 .. m /\ c + (i + 1) = (c + 1) + i
    BY <1>0
  <2>2. QED
    BY <1>1, <1>3, <2>1
<1>6. /\ (((c + 1) + (m - 1)) + n) + k = a
      /\ \A i \in 1 .. n : st[i] = all[((c + 1) + (m - 1)) + i]
      /\ \A i \in 1 .. k : inc[i] = all[(((c + 1) + (m - 1)) + n) + i]
  BY <1>1, <1>4
<1>7. Carried(rx2, st, inc, all, c + 1)
  BY <1>3, <1>4, <1>5, <1>6 DEF Carried, n, k, a
<1>8. QED
  BY <1>1, <1>2, <1>4, <1>7 DEF rx2, a
-----------------------------------------------------------------------------
LEMMA FlowFacts ==
  ASSUME FlowInv
  PROVE  /\ incoming \in Seq(Byte) /\ stream \in Seq(Byte)
         /\ rx_buffer \in Seq(Byte) /\ Len(stream) \in Nat
         /\ HandleInv(lFrmHdl) /\ packet \in [0 .. MaxLen - 1 -> Byte]
         /\ available \in 0 .. UINT16_MAX /\ available \in Nat
         /\ sent \in Seq(Frames) /\ Len(sent) \in Nat
         /\ \A j \in 1 .. Len(sent) : sent[j] \in Frames
         /\ completed \in Seq(Completions) /\ Len(completed) \in Nat
         /\ \A i \in 1 .. Len(completed) : completed[i] \in Completions
<1>1. /\ incoming \in Seq(Byte) /\ stream \in Seq(Byte)
      /\ rx_buffer \in Seq(Byte)
      /\ HandleInv(lFrmHdl) /\ packet \in [0 .. MaxLen - 1 -> Byte]
      /\ available \in 0 .. UINT16_MAX
  BY DEF FlowInv, IInv, TypeOK
<1>2. available \in Nat
  BY <1>1, Limits
<1>3. sent \in Seq(Frames) /\ completed \in Seq(Completions)
  BY DEF FlowInv, DoneInv
<1>4. /\ Len(stream) \in Nat /\ Len(sent) \in Nat /\ Len(completed) \in Nat
  BY <1>1, <1>3, LenProperties
<1>5. \A j \in 1 .. Len(sent) : sent[j] \in Frames
  BY <1>3, ElementOfSeq
<1>6. \A i \in 1 .. Len(completed) : completed[i] \in Completions
  BY <1>3, ElementOfSeq
<1>7. QED
  BY <1>1, <1>2, <1>3, <1>4, <1>5, <1>6

(***************************************************************************)
(* One more frame on the wire, behind those that lie there.                *)
(***************************************************************************)
LEMMA PlacesOnWire ==
  ASSUME NEW s \in Seq(Frames), NEW all, NEW p, NEW k, OnWire(s, all, p, k)
  PROVE  /\ all \in Seq(Byte) /\ Len(all) \in Nat /\ p \in [Nat -> Nat]
         /\ k \in Nat /\ Len(s) \in Nat /\ k <= Len(s)
         /\ p[Len(s) + 1] = Len(all)
<1>1. /\ all \in Seq(Byte) /\ p \in [Nat -> Nat] /\ k \in 0 .. Len(s)
      /\ p[Len(s) + 1] = Len(all)
  BY DEF OnWire
<1>2. Len(s) \in Nat /\ Len(all) \in Nat
  BY <1>1, LenProperties
<1>3. k \in Nat /\ k <= Len(s)
  <2>1. k \in 0 .. Len(s)
    BY <1>1
  <2>2. QED
    BY <1>2, <2>1
<1>4. QED
  BY <1>1, <1>2, <1>3, Zenon

LEMMA FrameOnWire ==
  ASSUME NEW s \in Seq(Frames), NEW all, NEW p, NEW k, OnWire(s, all, p, k),
         NEW j \in Nat, k < j, j <= Len(s)
  PROVE  /\ s[j] \in Frames /\ Size(s[j]) \in Nat
         /\ p[j] \in Nat /\ p[j + 1] \in Nat
         /\ p[j + 1] = p[j] + Size(s[j]) /\ p[j + 1] <= Len(all)
         /\ \A i \in 1 .. Size(s[j]) : WireByte(s[j], i, all[p[j] + i])
         /\ \A i \in 1 .. Size(s[j]) : p[j] + i \in 1 .. Len(all)
<1>1. k \in Nat /\ Len(s) \in Nat /\ Len(all) \in Nat /\ p \in [Nat -> Nat]
  BY PlacesOnWire, Zenon
<1>2. j \in k + 1 .. Len(s) /\ j \in 1 .. Len(s) /\ j + 1 \in Nat
  BY <1>1
<1>3. s[j] \in Frames
  BY <1>2, ElementOfSeq
<1>4. Len(s[j]) \in Nat
  BY <1>3, FrameLength
<1>5. Size(s[j]) \in Nat
  BY <1>4 DEF Size
<1>6. p[j] \in Nat /\ p[j + 1] \in Nat
  BY <1>1, <1>2
<1>7. /\ p[j + 1] = p[j] + Size(s[j]) /\ p[j + 1] <= Len(all)
      /\ \A i \in 1 .. Size(s[j]) : WireByte(s[j], i, all[p[j] + i])
  BY <1>2 DEF OnWire
<1>8. \A i \in 1 .. Size(s[j]) : p[j] + i \in 1 .. Len(all)
  <2> DEFINE z == Size(s[j])
             x == p[j]
             y == p[j + 1]
             a == Len(all)
  <2>1. x \in Nat /\ y \in Nat /\ z \in Nat /\ a \in Nat /\ y = x + z /\ y <= a
    BY <1>1, <1>5, <1>6, <1>7
  <2> HIDE DEF x, y, z, a
  <2>2. \A i \in 1 .. z : x + i \in 1 .. a
    BY <2>1
  <2>3. QED
    BY <2>2 DEF x, z, a
<1>9. QED
  BY <1>3, <1>5, <1>6, <1>7, <1>8

LEMMA EmptyWire ==
  ASSUME NEW s \in Seq(Frames)
  PROVE  \E p : OnWire(s, <<>>, p, Len(s)) /\ p[Len(s) + 1] = 0
<1> DEFINE p == [i \in Nat |-> 0]
<1>1. Len(s) \in Nat /\ Len(s) + 1 \in Nat
  BY LenProperties
<1>2. p \in [Nat -> Nat] /\ p[Len(s) + 1] = 0
  BY <1>1
<1>3. <<>> \in Seq(Byte) /\ Len(<<>>) = 0
  BY EmptySeq
<1>4. Len(s) \in 0 .. Len(s) /\ \A j \in Len(s) + 1 .. Len(s) : FALSE
  BY <1>1
<1> HIDE DEF p
<1>5. OnWire(s, <<>>, p, Len(s))
  BY <1>2, <1>3, <1>4 DEF OnWire
<1>6. QED
  BY <1>2, <1>5

LEMMA WireGrows ==
  ASSUME NEW s \in Seq(Frames), NEW all, NEW p, NEW k, OnWire(s, all, p, k),
         NEW f \in Frames, NEW e \in Seq(Byte), Len(e) = Size(f),
         \A i \in 1 .. Size(f) : WireByte(f, i, e[i])
  PROVE  \E q : /\ OnWire(Append(s, f), all \o e, q, k)
                /\ q[k + 1] = p[k + 1]
<1> DEFINE total == all \o e
           t == Append(s, f)
           n == Len(s)
           a == Len(all)
           z == Size(f)
           q == [p EXCEPT ![n + 2] = a + z]
<1>1. /\ all \in Seq(Byte) /\ a \in Nat /\ p \in [Nat -> Nat]
      /\ k \in Nat /\ n \in Nat /\ k <= n /\ p[n + 1] = a
  BY PlacesOnWire, Zenon
<1>2. z \in Nat
  BY FrameLength DEF Size
<1>3. /\ total \in Seq(Byte) /\ Len(total) = a + Len(e)
      /\ \A i \in 1 .. a : total[i] = all[i]
      /\ \A i \in 1 .. Len(e) : total[a + i] = e[i]
  BY <1>1, Joined, Zenon
<1>4. /\ t \in Seq(Frames) /\ Len(t) = n + 1
      /\ \A j \in 1 .. n : t[j] = s[j]
      /\ t[n + 1] = f
  BY AppendProperties
<1> HIDE DEF total, t, n, a, z
<1>5. n + 1 \in Nat /\ n + 2 \in Nat /\ a + z \in Nat
  BY <1>1, <1>2
<1>6. \A j \in Nat : j # n + 2 => q[j] = p[j]
  BY <1>1
<1>7. q \in [Nat -> Nat] /\ q[n + 2] = a + z
  BY <1>1, <1>5
<1> HIDE DEF q
<1>8. Len(total) = a + z /\ Len(t) + 1 = n + 2
      /\ \A i \in 1 .. z : total[a + i] = e[i]
  BY <1>1, <1>2, <1>3, <1>4 DEF z
<1>9. ASSUME NEW j \in k + 1 .. n + 1
      PROVE  /\ q[j + 1] = q[j] + Size(t[j]) /\ q[j + 1] <= a + z
             /\ \A i \in 1 .. Size(t[j]) : WireByte(t[j], i, total[q[j] + i])
  <2>0. j \in Nat /\ k < j /\ j <= n + 1 /\ 1 <= j
    BY <1>1
  <2>1. CASE j = n + 1
    <3>1. j + 1 = n + 2 /\ j # n + 2
      BY <1>1, <2>1
    <3>2. q[j] = a /\ q[j + 1] = a + z /\ t[j] = f
      BY <1>1, <1>4, <1>5, <1>6, <1>7, <2>1, <3>1
    <3>3. \A i \in 1 .. z : WireByte(f, i, total[a + i])
      BY <1>8 DEF z
    <3>4. q[j + 1] = q[j] + z /\ q[j + 1] <= a + z
      BY <1>1, <1>2, <3>2
    <3>5. QED
      BY <3>2, <3>3, <3>4 DEF z
  <2>2. CASE j <= n
    <3>1. j # n + 2 /\ j + 1 # n + 2 /\ j + 1 \in Nat /\ j \in 1 .. n
      BY <1>1, <2>0, <2>2
    <3>2. q[j] = p[j] /\ q[j + 1] = p[j + 1] /\ t[j] = s[j]
      BY <1>4, <1>6, <2>0, <3>1
    <3>3. /\ p[j] \in Nat /\ p[j + 1] \in Nat
          /\ p[j + 1] = p[j] + Size(s[j]) /\ p[j + 1] <= a
          /\ \A i \in 1 .. Size(s[j]) : WireByte(s[j], i, all[p[j] + i])
          /\ \A i \in 1 .. Size(s[j]) : p[j] + i \in 1 .. a
      <4>1. j <= Len(s)
        BY <2>2 DEF n
      <4>2. QED
        BY <2>0, <4>1, FrameOnWire DEF a
    <3>4. \A i \in 1 .. Size(s[j]) : total[p[j] + i] = all[p[j] + i]
      BY <1>3, <3>3, Zenon
    <3>5. \A i \in 1 .. Size(s[j]) : WireByte(s[j], i, total[p[j] + i])
      BY <3>3, <3>4, Zenon
    <3>6. p[j + 1] <= a + z
      BY <1>1, <1>2, <3>3
    <3>7. QED
      BY <3>2, <3>3, <3>5, <3>6, Zenon
  <2>3. QED
    BY <1>1, <2>0, <2>1, <2>2
<1>10. k \in 0 .. Len(t)
  BY <1>1, <1>4
<1>11. OnWire(t, total, q, k)
  BY <1>3, <1>4, <1>7, <1>8, <1>9, <1>10, Zenon DEF OnWire
<1>12. q[k + 1] = p[k + 1]
  <2>1. k + 1 \in Nat /\ k + 1 # n + 2
    BY <1>1
  <2>2. QED
    BY <1>6, <2>1
<1>13. QED
  BY <1>11, <1>12 DEF t, total

(***************************************************************************)
(* Where the decoder stands, and where the frame being decoded lies.       *)
(***************************************************************************)
LEMMA PlaceFacts ==
  ASSUME FlowInv, NEW all, NEW p, NEW c, NEW k, InStep(all, p, c, k)
  PROVE  /\ all \in Seq(Byte) /\ p \in [Nat -> Nat] /\ c \in Nat
         /\ k \in Nat /\ k <= Len(sent) /\ p[k + 1] \in Nat /\ p[k + 1] <= c
         /\ Len(all) \in Nat /\ p[Len(sent) + 1] = Len(all)
<1>1. /\ all \in Seq(Byte) /\ p \in [Nat -> Nat] /\ k \in 0 .. Len(sent)
      /\ p[Len(sent) + 1] = Len(all)
  BY DEF InStep, OnWire
<1>2. c \in Nat /\ p[k + 1] <= c
  BY DEF InStep, At, Carries, Carried
<1>3. k \in Nat /\ k <= Len(sent) /\ k + 1 \in Nat
  BY <1>1, FlowFacts
<1>4. p[k + 1] \in Nat /\ Len(all) \in Nat
  BY <1>1, <1>3, LenProperties
<1>5. QED
  BY <1>1, <1>2, <1>3, <1>4

LEMMA FrameBegun ==
  ASSUME FlowInv, NEW all, NEW p, NEW c, NEW k, InStep(all, p, c, k),
         k < Len(sent)
  PROVE  Decoded(lFrmHdl, packet, sent[k + 1], c - p[k + 1])
BY DEF InStep, At

LEMMA NothingBegun ==
  ASSUME FlowInv, NEW all, NEW p, NEW c, NEW k, InStep(all, p, c, k),
         k = Len(sent)
  PROVE  /\ lFrmHdl.state = WAIT_AA1 /\ c = p[k + 1] /\ c = Len(all)
         /\ rx_buffer = <<>> /\ stream = <<>> /\ incoming = <<>>
<1>1. lFrmHdl.state = WAIT_AA1
  BY DEF InStep, At
<1>2. p[k + 1] = Len(all) /\ c \in Nat /\ Len(all) \in Nat /\ p[k + 1] <= c
  BY PlaceFacts, Zenon
<1>3. c + Len(rx_buffer) + Len(stream) + Len(incoming) = Len(all)
  BY DEF InStep, Carries, Carried
<1>4. Len(rx_buffer) \in Nat /\ Len(stream) \in Nat /\ Len(incoming) \in Nat
  BY FlowFacts, LenProperties
<1>5. /\ c = Len(all) /\ Len(rx_buffer) = 0 /\ Len(stream) = 0
      /\ Len(incoming) = 0
  BY <1>2, <1>3, <1>4
<1>6. rx_buffer = <<>> /\ stream = <<>> /\ incoming = <<>>
  BY <1>5, FlowFacts, EmptySeq
<1>7. QED
  BY <1>1, <1>2, <1>5, <1>6

(***************************************************************************)
(* A step that leaves what was received and what was finished alone.       *)
(***************************************************************************)
LEMMA DoneStays ==
  ASSUME DoneInv, UNCHANGED <<sent, completed, resets>>,
         torn' => torn, pc' = "idle" => rx_buffer' = <<>>
  PROVE  DoneInv'
  BY DEF DoneInv

LEMMA ChipReceivesFlows ==
  ASSUME WordsAreNoise, FlowInv, NEW f \in Frames, NEW w \in HwWords,
         ChipReceives(f, w)
  PROVE  WireInv' /\ DoneInv'
<1> DEFINE e == w \o Encode(f)
           n == Len(sent)
<1>1. /\ w \in Seq(Byte) /\ Len(w) = 4 /\ w[4] # 170 /\ Encode(f) \in Seq(Byte)
  BY ReceiveAssumption, EncodeType DEF WordsAreNoise
<1>2. /\ e \in Seq(Byte) /\ Len(e) = Size(f) /\ Size(f) \in Nat
      /\ \A i \in 1 .. Size(f) : WireByte(f, i, e[i])
  <2>1. Size(f) \in Nat
    BY FrameLength DEF Size
  <2>2. QED
    BY <1>1, <2>1, EncodedBytes
<1>3. incoming' = incoming \o e
  <2>1. incoming' = (incoming \o w) \o Encode(f)
    BY DEF ChipReceives
  <2>2. QED
    <3>1. incoming \in Seq(Byte)
      BY FlowFacts
    <3>2. w \in Seq(Byte) /\ Encode(f) \in Seq(Byte)
      BY <1>1
    <3>3. (incoming \o w) \o Encode(f) = incoming \o (w \o Encode(f))
      BY <3>1, <3>2, ConcatAssociative
    <3>4. QED
      BY <2>1, <3>3
<1>4. /\ sent' = Append(sent, f)
      /\ UNCHANGED <<stream, driver, completed, resets, torn>>
  BY DEF ChipReceives
<1>5. /\ n \in Nat /\ sent' \in Seq(Frames) /\ Len(sent') = n + 1
      /\ \A j \in 1 .. n : sent'[j] = sent[j]
      /\ sent'[n + 1] = f
  BY <1>4, FlowFacts, AppendProperties
<1>6. DoneInv'
  <2>0. DoneInv
    BY DEF FlowInv
  <2>1. ASSUME resets = 0
        PROVE  /\ ~torn /\ Len(completed) <= n + 1
               /\ \A i \in 1 .. Len(completed) : completed[i].frame = sent'[i]
    <3>1. /\ ~torn /\ Len(completed) <= n
          /\ \A i \in 1 .. Len(completed) : completed[i].frame = sent[i]
      BY <2>0, <2>1 DEF DoneInv
    <3>2. ASSUME NEW i \in 1 .. Len(completed)
          PROVE  completed[i].frame = sent'[i]
      <4>1. i \in 1 .. n
        BY <1>5, <3>1, FlowFacts
      <4>2. QED
        BY <1>5, <3>1, <4>1
    <3>3. Len(completed) <= n + 1
      BY <1>5, <3>1, FlowFacts
    <3>4. QED
      BY <3>1, <3>2, <3>3
  <2>2. ASSUME NEW i \in 1 .. Len(completed), completed[i].intact
        PROVE  \E j \in 1 .. n + 1 : completed[i].frame = sent'[j]
    <3>1. PICK j \in 1 .. n : completed[i].frame = sent[j]
      BY <2>0, <2>2 DEF DoneInv
    <3>2. j \in 1 .. n + 1 /\ sent'[j] = sent[j]
      BY <1>5
    <3>3. QED
      BY <3>1, <3>2
  <2>3. QED
    BY <1>4, <1>5, <2>0, <2>1, <2>2 DEF DoneInv, driver
<1>7. WireInv'
  <2> SUFFICES ASSUME ~torn
               PROVE  /\ available <= Len(stream)
                      /\ \E all, p, c, k : InStep(all, p, c, k)'
    BY <1>4 DEF WireInv, driver
  <2>0. available <= Len(stream) /\ \E all, p, c, k : InStep(all, p, c, k)
    BY DEF FlowInv, WireInv
  <2>1. PICK all, p, c, k : InStep(all, p, c, k)
    BY <2>0
  <2>2. /\ all \in Seq(Byte) /\ p \in [Nat -> Nat] /\ c \in Nat
        /\ k \in Nat /\ k <= n /\ p[k + 1] \in Nat /\ p[k + 1] <= c
    BY <2>1, PlaceFacts, Zenon
  <2>3. OnWire(sent, all, p, k) /\ Carried(rx_buffer, stream, incoming, all, c)
        /\ (resets = 0 => k = Len(completed))
    BY <2>1 DEF InStep, Carries
  <2> HIDE DEF e, n
  <2>4. PICK q : OnWire(Append(sent, f), all \o e, q, k) /\ q[k + 1] = p[k + 1]
    <3>1. sent \in Seq(Frames)
      BY FlowFacts
    <3>2. QED
      BY <1>2, <2>3, <3>1, WireGrows
  <2>5. Carried(rx_buffer, stream, incoming \o e, all \o e, c)
    BY <1>2, <2>2, <2>3, FlowFacts, CarryIn, Zenon
  <2>6. At(q, c, k)'
    <3>1. k < n + 1 /\ k # n + 1
      <4>1. n \in Nat /\ k \in Nat /\ k <= n
        BY <1>5, <2>2
      <4>2. QED
        BY <4>1
    <3>2. CASE k < n
      <4>1. k + 1 \in 1 .. n
        BY <1>5, <2>2, <3>2
      <4>2. sent'[k + 1] = sent[k + 1]
        BY <1>5, <4>1
      <4>3. Decoded(lFrmHdl, packet, sent[k + 1], c - p[k + 1])
        BY <2>1, <3>2, FrameBegun, Zenon DEF n
      <4>4. QED
        BY <1>4, <1>5, <2>2, <2>4, <3>1, <4>2, <4>3 DEF At, driver
    <3>3. CASE k = n
      <4>1. lFrmHdl.state = WAIT_AA1 /\ c = p[k + 1]
        <5>1. k = Len(sent)
          BY <3>3 DEF n
        <5>2. QED
          BY <2>1, <5>1, NothingBegun
      <4>2. c - p[k + 1] = 0 /\ 0 \in 0 .. Size(f)
        BY <1>2, <2>2, <4>1
      <4>3. Decoded(lFrmHdl, packet, f, 0)
        BY <4>1, <4>2 DEF Decoded
      <4>4. sent'[k + 1] = f
        BY <1>5, <3>3
      <4>5. Decoded(lFrmHdl, packet, sent'[k + 1], c - q[k + 1])
        BY <2>4, <4>2, <4>3, <4>4
      <4>6. q[k + 1] <= c /\ Len(sent') # k
        BY <1>5, <2>2, <2>4, <3>1
      <4>7. lFrmHdl' = lFrmHdl /\ packet' = packet
        BY <1>4 DEF driver
      <4>8. QED
        BY <3>1, <4>5, <4>6, <4>7 DEF At
    <3>4. QED
      BY <1>5, <2>2, <3>2, <3>3
  <2>7. OnWire(sent, all \o e, q, k)' /\ Carries(all \o e, c)'
    BY <1>3, <1>4, <2>4, <2>5 DEF OnWire, Carries, driver
  <2>8. resets' = 0 => k = Len(completed')
    BY <1>4, <2>3
  <2>9. InStep(all \o e, q, c, k)'
    BY <2>6, <2>7, <2>8 DEF InStep
  <2>10. QED
    BY <2>0, <2>9
<1>8. QED
  BY <1>6, <1>7

(***************************************************************************)
(* A step that moves bytes along and decodes none of them.                 *)
(***************************************************************************)
LEMMA MovedInStep ==
  ASSUME NEW all, NEW p, NEW c, NEW k, InStep(all, p, c, k),
         UNCHANGED <<sent, lFrmHdl, packet, completed, resets>>,
         Carried(rx_buffer', stream', incoming', all, c)
  PROVE  InStep(all, p, c, k)'
<1>1. OnWire(sent, all, p, k)'
  BY DEF InStep, OnWire
<1>2. Carries(all, c)'
  BY DEF Carries
<1>3. At(p, c, k)'
  BY DEF InStep, At
<1>4. (resets = 0 => k = Len(completed))'
  BY DEF InStep
<1>5. QED
  BY <1>1, <1>2, <1>3, <1>4, Zenon DEF InStep

(***************************************************************************)
(* The driver's count is no larger than what is readable, so a read takes  *)
(* what is there.                                                          *)
(***************************************************************************)
LEMMA Low16 ==
  ASSUME NEW n \in Nat
  PROVE  /\ n % (UINT16_MAX + 1) \in Nat /\ n % (UINT16_MAX + 1) <= n
         /\ n <= UINT16_MAX => n % (UINT16_MAX + 1) = n
  BY DEF UINT16_MAX

LEMMA ReadWhatIsThere ==
  ASSUME FlowInv, available <= Len(stream), NEW n \in Nat, n <= available,
         Consume(n)
  PROVE  /\ n <= Len(stream)
         /\ Read(n) \in Seq(Byte) /\ Len(Read(n)) = n
         /\ \A i \in 1 .. n : Read(n)[i] = stream[i]
         /\ stream' = SubSeq(stream, n + 1, Len(stream))
         /\ Len(stream') = Len(stream) - n
         /\ available' = available - n /\ available' <= Len(stream')
<1>1. /\ Len(stream) \in Nat /\ stream \in Seq(Byte)
      /\ available \in 0 .. UINT16_MAX /\ available \in Nat
  BY FlowFacts
<1>2. n <= Len(stream)
  BY <1>1
<1>3. Read(n) \in Seq(Byte) /\ Len(Read(n)) = n
  BY <1>1, ReadType
<1>4. ASSUME NEW i \in 1 .. n PROVE Read(n)[i] = stream[i]
  <2>1. i <= Len(stream)
    BY <1>1, <1>2
  <2>2. QED
    BY <2>1 DEF Read
<1>5. /\ stream' = SubSeq(stream, n + 1, Len(stream))
      /\ available' = (available - n) % (UINT16_MAX + 1)
  BY DEF Consume
<1>6. available' = available - n
  <2>1. available - n \in Nat /\ available - n <= UINT16_MAX
    BY <1>1, Limits
  <2>2. (available - n) % (UINT16_MAX + 1) = available - n
    BY <2>1, Low16
  <2>3. QED
    BY <1>5, <2>2
<1>7. Len(stream') = Len(stream) - n
  <2>1. \A i \in n + 1 .. Len(stream) : stream[i] \in Byte
    <3>1. \A i \in 1 .. Len(stream) : stream[i] \in Byte
      BY <1>1, ElementOfSeq
    <3>2. QED
      BY <1>1, <3>1
  <2>2. Len(SubSeq(stream, n + 1, Len(stream))) =
          IF n + 1 <= Len(stream) THEN (Len(stream) - (n + 1)) + 1 ELSE 0
    BY <1>1, <2>1, SubSeqProperties
  <2>3. QED
    BY <1>1, <1>2, <1>5, <2>2
<1>8. available' <= Len(stream')
  BY <1>1, <1>2, <1>6, <1>7
<1>9. QED
  BY <1>2, <1>3, <1>4, <1>5, <1>6, <1>7, <1>8

LEMMA ChipMakesReadableFlows ==
  ASSUME FlowInv, ChipMakesReadable
  PROVE  WireInv' /\ DoneInv'
<1>1. /\ incoming # <<>> /\ stream' = Append(stream, Head(incoming))
      /\ incoming' = Tail(incoming)
      /\ UNCHANGED <<lFrmHdl, rx_buffer, packet, available, pc>>
      /\ UNCHANGED <<sent, completed, resets, torn>>
  BY DEF ChipMakesReadable, driver, history
<1>2. DoneInv'
  BY <1>1 DEF FlowInv, DoneInv
<1>3. WireInv'
  <2> SUFFICES ASSUME ~torn
               PROVE  /\ available' <= Len(stream')
                      /\ \E all, p, c, k : InStep(all, p, c, k)'
    BY <1>1 DEF WireInv
  <2>0. available <= Len(stream) /\ \E all, p, c, k : InStep(all, p, c, k)
    BY DEF FlowInv, WireInv
  <2>1. available' <= Len(stream')
    <3>1. Head(incoming) \in Byte
      BY <1>1, FlowFacts, HeadTailProperties
    <3>2. Len(stream') = Len(stream) + 1
      BY <1>1, <3>1, FlowFacts, AppendProperties
    <3>3. QED
      BY <1>1, <2>0, <3>2, FlowFacts
  <2>2. PICK all, p, c, k : InStep(all, p, c, k)
    BY <2>0
  <2>3. Carried(rx_buffer, stream, incoming, all, c) /\ all \in Seq(Byte)
    BY <2>2 DEF InStep, Carries, OnWire
  <2>4. Carried(rx_buffer', stream', incoming', all, c)
    <3>1. Carried(rx_buffer, Append(stream, Head(incoming)), Tail(incoming),
                  all, c)
      BY <1>1, <2>3, FlowFacts, CarryOver
    <3>2. QED
      BY <1>1, <3>1, Zenon
  <2>5. InStep(all, p, c, k)'
    BY <1>1, <2>2, <2>4, MovedInStep, Zenon
  <2>6. QED
    BY <2>1, <2>5
<1>4. QED
  BY <1>2, <1>3

LEMMA ChipRebootsFlows ==
  ASSUME FlowInv, ChipReboots
  PROVE  WireInv' /\ DoneInv'
<1>1. /\ resets' = resets + 1 /\ torn' = TRUE
      /\ UNCHANGED <<rx_buffer, pc, sent, completed>>
  BY DEF ChipReboots, driver
<1>2. resets' # 0
  <2>1. resets \in Nat
    BY ReceiveAssumption DEF FlowInv, IInv, TypeOK
  <2>2. QED
    BY <1>1, <2>1
<1>3. WireInv'
  BY <1>1 DEF WireInv
<1>4. DoneInv'
  BY <1>1, <1>2 DEF FlowInv, DoneInv
<1>5. QED
  BY <1>3, <1>4

(***************************************************************************)
(* Caught up with, the chip has sent nothing that is not decoded.          *)
(***************************************************************************)
LEMMA NothingOnWire ==
  ASSUME FlowInv, lFrmHdl.state = WAIT_AA1, rx_buffer = <<>>, stream = <<>>,
         incoming = <<>>, resets # 0
  PROVE  \E p : InStep(<<>>, p, 0, Len(sent))
<1>1. sent \in Seq(Frames) /\ Len(sent) \in Nat
  BY FlowFacts
<1>2. PICK p : OnWire(sent, <<>>, p, Len(sent)) /\ p[Len(sent) + 1] = 0
  BY <1>1, EmptyWire
<1>3. Carries(<<>>, 0)
  BY EmptySeq DEF Carries, Carried
<1>4. At(p, 0, Len(sent))
  BY <1>1, <1>2 DEF At
<1>5. InStep(<<>>, p, 0, Len(sent))
  BY <1>2, <1>3, <1>4 DEF InStep
<1>6. QED
  BY <1>5

LEMMA StartReceiveFlows ==
  ASSUME FlowInv, StartReceive
  PROVE  WireInv' /\ DoneInv'
<1>1. /\ pc = "idle" /\ pc' = "loop"
      /\ available' = Len(stream) % (UINT16_MAX + 1)
      /\ torn' = (torn /\ ~CaughtUp)
      /\ UNCHANGED <<incoming, stream, lFrmHdl, rx_buffer, packet,
                     sent, completed, resets>>
  BY DEF StartReceive
<1>2. rx_buffer = <<>>
  BY <1>1 DEF FlowInv, DoneInv
<1>3. torn' => torn
  BY <1>1
<1>4. DoneInv'
  BY <1>1, <1>3 DEF FlowInv, DoneInv
<1>5. available' <= Len(stream')
  <2>1. Len(stream) % (UINT16_MAX + 1) <= Len(stream)
    BY FlowFacts, Low16
  <2>2. QED
    BY <1>1, <2>1
<1>6. WireInv'
  <2>1. CASE ~torn
    <3>1. PICK all, p, c, k : InStep(all, p, c, k)
      BY <2>1 DEF FlowInv, WireInv
    <3>2. Carried(rx_buffer', stream', incoming', all, c)
      BY <1>1, <3>1 DEF InStep, Carries
    <3>3. InStep(all, p, c, k)'
      BY <1>1, <3>1, <3>2, MovedInStep, Zenon
    <3>4. QED
      BY <1>5, <3>3 DEF WireInv
  <2>2. CASE torn /\ ~CaughtUp
    BY <1>1, <2>2 DEF WireInv
  <2>3. CASE torn /\ CaughtUp
    <3>1. resets # 0
      BY <2>3 DEF FlowInv, DoneInv
    <3>2. lFrmHdl.state = WAIT_AA1 /\ stream = <<>> /\ incoming = <<>>
      BY <2>3 DEF CaughtUp
    <3>3. \E p : InStep(<<>>, p, 0, Len(sent))
      BY <1>2, <3>1, <3>2, NothingOnWire
    <3>4. PICK all, p, c, k : InStep(all, p, c, k)
      BY <3>3
    <3>5. Carried(rx_buffer', stream', incoming', all, c)
      BY <1>1, <3>4 DEF InStep, Carries
    <3>6. InStep(all, p, c, k)'
      BY <1>1, <3>4, <3>5, MovedInStep, Zenon
    <3>7. QED
      BY <1>5, <3>6 DEF WireInv
  <2>4. QED
    BY <2>1, <2>2, <2>3
<1>7. QED
  BY <1>4, <1>6

LEMMA ReadHeaderOrFooterFlows ==
  ASSUME FlowInv, ReadHeaderOrFooter
  PROVE  WireInv' /\ DoneInv'
<1> DEFINE n == BytesRequired(lFrmHdl)
<1>1. /\ pc = "loop" /\ rx_buffer = <<>> /\ n <= available
      /\ rx_buffer' = Read(n) /\ Consume(n)
      /\ UNCHANGED <<incoming, lFrmHdl, packet, pc>>
      /\ UNCHANGED <<sent, completed, resets, torn>>
  BY DEF ReadHeaderOrFooter, InLoop, MoreToRead, history
<1>2. n \in Nat
  <2>1. n \in 1 .. TOTAL_HEADER_LEN
    BY ChunkFits, FlowFacts DEF ReadHeaderOrFooter
  <2>2. QED
    BY <2>1
<1> HIDE DEF n
<1>3. DoneInv'
  BY <1>1 DEF FlowInv, DoneInv
<1>4. WireInv'
  <2> SUFFICES ASSUME ~torn
               PROVE  /\ available' <= Len(stream')
                      /\ \E all, p, c, k : InStep(all, p, c, k)'
    BY <1>1 DEF WireInv
  <2>0. available <= Len(stream) /\ \E all, p, c, k : InStep(all, p, c, k)
    BY DEF FlowInv, WireInv
  <2>1. /\ n <= Len(stream) /\ Read(n) \in Seq(Byte) /\ Len(Read(n)) = n
        /\ \A i \in 1 .. n : Read(n)[i] = stream[i]
        /\ stream' = SubSeq(stream, n + 1, Len(stream))
        /\ available' <= Len(stream')
    BY <1>1, <1>2, <2>0, ReadWhatIsThere, Zenon
  <2>2. PICK all, p, c, k : InStep(all, p, c, k)
    BY <2>0
  <2>3. Carried(<<>>, stream, incoming, all, c) /\ all \in Seq(Byte)
    BY <1>1, <2>2 DEF InStep, Carries, OnWire
  <2>4. Carried(rx_buffer', stream', incoming', all, c)
    <3>1. stream \in Seq(Byte) /\ incoming \in Seq(Byte)
      BY FlowFacts
    <3>2. Carried(Read(n), SubSeq(stream, n + 1, Len(stream)), incoming, all, c)
      BY <1>2, <2>1, <2>3, <3>1, CarryChunk, Zenon
    <3>3. QED
      BY <1>1, <2>1, <3>2, Zenon
  <2>5. InStep(all, p, c, k)'
    BY <1>1, <2>2, <2>4, MovedInStep, Zenon
  <2>6. QED
    BY <2>1, <2>5
<1>5. QED
  BY <1>3, <1>4

LEMMA EndReceiveFlows ==
  ASSUME FlowInv, EndReceive \/ UNCHANGED vars
  PROVE  WireInv' /\ DoneInv'
<1>1. /\ UNCHANGED <<incoming, stream, lFrmHdl, rx_buffer, packet, available>>
      /\ UNCHANGED <<sent, completed, resets, torn>>
      /\ pc' = "idle" => rx_buffer = <<>>
  BY DEF FlowInv, DoneInv, EndReceive, history, vars
<1>2. DoneInv'
  BY <1>1 DEF FlowInv, DoneInv
<1>3. WireInv'
  <2> SUFFICES ASSUME ~torn
               PROVE  /\ available' <= Len(stream')
                      /\ \E all, p, c, k : InStep(all, p, c, k)'
    BY <1>1 DEF WireInv
  <2>0. available <= Len(stream) /\ \E all, p, c, k : InStep(all, p, c, k)
    BY DEF FlowInv, WireInv
  <2>1. PICK all, p, c, k : InStep(all, p, c, k)
    BY <2>0
  <2>2. Carried(rx_buffer', stream', incoming', all, c)
    BY <1>1, <2>1 DEF InStep, Carries
  <2>3. InStep(all, p, c, k)'
    BY <1>1, <2>1, <2>2, MovedInStep, Zenon
  <2>4. QED
    BY <1>1, <2>0, <2>3
<1>4. QED
  BY <1>2, <1>3

(***************************************************************************)
(* A decoded byte, a burst and a finished frame bring the driver further.  *)
(***************************************************************************)
LEMMA Ahead ==
  ASSUME NEW x \in Nat, NEW c \in Nat, x <= c, NEW m \in Nat
  PROVE  /\ c - x \in Nat /\ x + (c - x) = c
         /\ (c + m) - x = (c - x) + m /\ x <= c + m /\ c + m \in Nat
         /\ \A i \in Nat : x + ((c - x) + i) = c + i
  OBVIOUS

LEMMA ProcessByteFlows ==
  ASSUME FlowInv, ProcessByte
  PROVE  WireInv' /\ DoneInv'
<1> DEFINE b == Head(rx_buffer)
<1>1. /\ rx_buffer # <<>> /\ rx_buffer' = Tail(rx_buffer)
      /\ lFrmHdl' = FsmDecode(lFrmHdl, b)
      /\ packet' = IF Stores(lFrmHdl) THEN [packet EXCEPT ![lFrmHdl.offset] = b]
                                      ELSE packet
      /\ UNCHANGED <<incoming, stream, available, pc>>
      /\ UNCHANGED <<sent, completed, resets, torn>>
  BY DEF ProcessByte, history
<1>2. b \in Byte
  BY <1>1, FlowFacts, HeadTailProperties
<1> HIDE DEF b
<1>3. DoneInv'
  BY <1>1 DEF FlowInv, DoneInv
<1>4. WireInv'
  <2> SUFFICES ASSUME ~torn
               PROVE  /\ available' <= Len(stream')
                      /\ \E all, p, c, k : InStep(all, p, c, k)'
    BY <1>1 DEF WireInv
  <2>0. available <= Len(stream) /\ \E all, p, c, k : InStep(all, p, c, k)
    BY DEF FlowInv, WireInv
  <2>1. PICK all, p, c, k : InStep(all, p, c, k)
    BY <2>0
  <2>2. /\ Carried(rx_buffer, stream, incoming, all, c)
        /\ OnWire(sent, all, p, k)
        /\ all \in Seq(Byte) /\ (resets = 0 => k = Len(completed))
    BY <2>1 DEF InStep, Carries, OnWire
  <2>3. /\ Carried(Tail(rx_buffer), stream, incoming, all, c + 1)
        /\ b = all[c + 1] /\ c < Len(all)
    <3>1. /\ stream \in Seq(Byte) /\ incoming \in Seq(Byte)
          /\ rx_buffer \in Seq(Byte)
      BY FlowFacts
    <3>2. QED
      BY <1>1, <2>2, <3>1, CarryByte DEF b
  <2>4. /\ c \in Nat /\ k \in Nat /\ k <= Len(sent) /\ p[k + 1] \in Nat
        /\ p[k + 1] <= c /\ p \in [Nat -> Nat] /\ Len(sent) \in Nat
    BY <2>1, PlaceFacts, FlowFacts
  <2>5. k < Len(sent)
    <3>1. k # Len(sent)
      BY <1>1, <2>1, NothingBegun
    <3>2. QED
      BY <2>4, <3>1
  <2> DEFINE f == sent[k + 1]
             q == c - p[k + 1]
  <2>6. /\ f \in Frames /\ Size(f) \in Nat
        /\ \A i \in 1 .. Size(f) : WireByte(f, i, all[p[k + 1] + i])
    <3>1. k + 1 \in Nat /\ k < k + 1 /\ k + 1 <= Len(sent)
      BY <2>4, <2>5
    <3>2. sent \in Seq(Frames)
      BY FlowFacts
    <3>3. QED
      BY <2>2, <3>1, <3>2, FrameOnWire
  <2>7. Decoded(lFrmHdl, packet, f, q)
    BY <2>1, <2>5, FrameBegun
  <2>8. q \in Nat /\ p[k + 1] + (q + 1) = c + 1 /\ (c + 1) - p[k + 1] = q + 1
        /\ p[k + 1] <= c + 1
    <3>1. PICK x : x = p[k + 1]
      OBVIOUS
    <3>2. x \in Nat /\ x <= c /\ c \in Nat
      BY <2>4, <3>1
    <3>3. /\ c - x \in Nat /\ x + ((c - x) + 1) = c + 1
          /\ (c + 1) - x = (c - x) + 1 /\ x <= c + 1
      BY <3>2
    <3>4. QED
      BY <3>1, <3>3
  <2> HIDE DEF f, q
  <2>9. q < Size(f)
    <3>1. lFrmHdl.state # 0
      <4>1. ChunkInv /\ Len(rx_buffer) \in Nat /\ Len(rx_buffer) # 0
        BY <1>1, FlowFacts, EmptySeq DEF FlowInv, IInv
      <4>2. QED
        BY <1>1, <4>1 DEF ChunkInv, BytesToEnd
    <3>2. q <= Size(f) /\ 12 <= Size(f)
      BY <2>6, <2>7, FrameLength DEF Decoded, Size
    <3>3. q = Size(f) => lFrmHdl.state = 0
      BY <2>6, <2>7, <3>2 DEF Decoded
    <3>4. QED
      BY <2>6, <2>8, <3>1, <3>2, <3>3
  <2>10. Decoded(lFrmHdl', packet', f, q + 1)
    <3>1. WireByte(f, q + 1, b)
      <4>1. q + 1 \in 1 .. Size(f)
        BY <2>6, <2>8, <2>9
      <4>2. WireByte(f, q + 1, all[p[k + 1] + (q + 1)])
        BY <2>6, <4>1
      <4>3. QED
        BY <2>3, <2>8, <4>2
    <3>2. HandleInv(lFrmHdl) /\ packet \in [0 .. MaxLen - 1 -> Byte]
      BY FlowFacts
    <3>3. QED
      BY <1>1, <1>2, <2>6, <2>7, <2>9, <3>1, <3>2, ByteDecoded
  <2>11. At(p, c + 1, k)'
    <3>1. Decoded(lFrmHdl', packet', sent'[k + 1], (c + 1) - p[k + 1])
      BY <1>1, <2>8, <2>10 DEF f
    <3>2. k # Len(sent')
      BY <1>1, <2>4, <2>5
    <3>3. QED
      BY <2>8, <3>1, <3>2 DEF At
  <2>12. Carries(all, c + 1)' /\ OnWire(sent, all, p, k)'
    BY <1>1, <2>2, <2>3 DEF Carries, OnWire
  <2>13. InStep(all, p, c + 1, k)'
    BY <1>1, <2>2, <2>11, <2>12 DEF InStep
  <2>14. QED
    BY <1>1, <2>0, <2>13
<1>5. QED
  BY <1>3, <1>4

LEMMA CopyFrameFlows ==
  ASSUME FlowInv, CopyFrame
  PROVE  WireInv' /\ DoneInv'
<1> DEFINE n == BurstLen(lFrmHdl)
<1>1. /\ rx_buffer = <<>> /\ rx_buffer' = rx_buffer
      /\ GetAction(lFrmHdl) = "COPY_FRAME"
      /\ BytesRequired(lFrmHdl) <= available
      /\ packet' = [i \in 0 .. MaxLen - 1 |->
                      IF i \in lFrmHdl.offset .. lFrmHdl.offset + n - 1
                        THEN Read(n)[i - lFrmHdl.offset + 1] ELSE packet[i]]
      /\ lFrmHdl' = Goto(lFrmHdl, lFrmHdl.state - n)
      /\ Consume(n)
      /\ UNCHANGED <<incoming, pc>>
      /\ UNCHANGED <<sent, completed, resets, torn>>
  BY DEF CopyFrame, InLoop, MoreToRead, history
<1>2. DoneInv'
  BY <1>1 DEF FlowInv, DoneInv
<1>3. WireInv'
  <2> SUFFICES ASSUME ~torn
               PROVE  /\ available' <= Len(stream')
                      /\ \E all, p, c, k : InStep(all, p, c, k)'
    BY <1>1 DEF WireInv
  <2>0. available <= Len(stream) /\ \E all, p, c, k : InStep(all, p, c, k)
    BY DEF FlowInv, WireInv
  <2>1. PICK all, p, c, k : InStep(all, p, c, k)
    BY <2>0
  <2>2. /\ Carried(<<>>, stream, incoming, all, c)
        /\ OnWire(sent, all, p, k)
        /\ all \in Seq(Byte) /\ (resets = 0 => k = Len(completed))
    BY <1>1, <2>1 DEF InStep, Carries, OnWire
  <2>3. /\ c \in Nat /\ k \in Nat /\ k <= Len(sent) /\ p[k + 1] \in Nat
        /\ p[k + 1] <= c /\ p \in [Nat -> Nat] /\ Len(sent) \in Nat
    BY <2>1, PlaceFacts, FlowFacts
  <2>4. k < Len(sent)
    <3>1. lFrmHdl.state # WAIT_AA1
      BY <1>1 DEF GetAction
    <3>2. k # Len(sent)
      BY <2>1, <3>1, NothingBegun
    <3>3. QED
      BY <2>3, <3>2
  <2> DEFINE f == sent[k + 1]
             q == c - p[k + 1]
  <2>5. /\ f \in Frames /\ Size(f) \in Nat
        /\ \A i \in 1 .. Size(f) : WireByte(f, i, all[p[k + 1] + i])
    <3>1. k + 1 \in Nat /\ k < k + 1 /\ k + 1 <= Len(sent)
      BY <2>3, <2>4
    <3>2. sent \in Seq(Frames)
      BY FlowFacts
    <3>3. QED
      BY <2>2, <3>1, <3>2, FrameOnWire
  <2>6. Decoded(lFrmHdl, packet, f, q)
    BY <2>1, <2>4, FrameBegun
  <2>7. q \in Nat /\ \A i \in Nat : p[k + 1] + (q + i) = c + i
    BY <2>3, Ahead, Zenon
  <2> HIDE DEF f, q
  <2>8. /\ n \in Nat /\ q + n <= Size(f) /\ n = BytesRequired(lFrmHdl)
    BY <1>1, <2>5, <2>6, FlowFacts, BurstFits
  <2> HIDE DEF n
  <2>d. PICK d : d = c + n
    OBVIOUS
  <2>9. /\ n <= Len(stream) /\ Read(n) \in Seq(Byte) /\ Len(Read(n)) = n
        /\ \A i \in 1 .. n : Read(n)[i] = stream[i]
        /\ stream' = SubSeq(stream, n + 1, Len(stream))
        /\ available' <= Len(stream')
    <3>1. n <= available
      BY <1>1, <2>8
    <3>2. QED
      BY <1>1, <2>0, <2>8, <3>1, ReadWhatIsThere, Zenon
  <2>10. /\ Carried(<<>>, stream', incoming, all, d)
         /\ \A i \in 1 .. n : Read(n)[i] = all[c + i]
    <3>1. stream \in Seq(Byte) /\ incoming \in Seq(Byte)
      BY FlowFacts
    <3> DEFINE rx == Read(n)
    <3>2. /\ rx \in Seq(Byte) /\ Len(rx) = n /\ n \in Nat /\ n <= Len(stream)
          /\ \A i \in 1 .. n : rx[i] = stream[i]
      BY <2>8, <2>9
    <3> HIDE DEF rx
    <3>3. Carried(<<>>, SubSeq(stream, n + 1, Len(stream)), incoming, all,
                  c + n)
      BY <2>2, <3>1, <3>2, CarryChunk
    <3>4. \A i \in 1 .. n : rx[i] = all[c + i]
      BY <2>2, <3>1, <3>2, CarryChunk
    <3>5. QED
      BY <2>9, <2>d, <3>3, <3>4 DEF rx
  <2>11. Decoded(lFrmHdl', packet', f, q + n)
    <3>1. ASSUME NEW i \in 1 .. n PROVE WireByte(f, q + i, Read(n)[i])
      <4>1. q + i \in 1 .. Size(f) /\ i \in Nat
        BY <2>5, <2>7, <2>8
      <4>2. p[k + 1] + (q + i) = c + i
        BY <2>7, <4>1
      <4>3. WireByte(f, q + i, all[p[k + 1] + (q + i)])
        BY <2>5, <4>1
      <4>4. QED
        BY <2>10, <4>2, <4>3
    <3>2. HandleInv(lFrmHdl) /\ packet \in [0 .. MaxLen - 1 -> Byte]
      BY FlowFacts
    <3>3. QED
      BY <1>1, <2>5, <2>6, <3>1, <3>2, BurstDecoded DEF n
  <2>12. At(p, d, k)'
    <3>1. d - p[k + 1] = q + n /\ p[k + 1] <= d
      <4>1. PICK x : x = p[k + 1]
        OBVIOUS
      <4>2. x \in Nat /\ x <= c /\ c \in Nat /\ n \in Nat
        BY <2>3, <2>8, <4>1
      <4>3. (c + n) - x = (c - x) + n /\ x <= c + n
        BY <4>2
      <4>4. QED
        BY <2>d, <4>1, <4>3 DEF q
    <3>2. Decoded(lFrmHdl', packet', sent'[k + 1], d - p[k + 1])
      BY <1>1, <2>11, <3>1 DEF f
    <3>3. k # Len(sent')
      BY <1>1, <2>3, <2>4
    <3>4. QED
      BY <3>1, <3>2, <3>3 DEF At
  <2>13. Carries(all, d)' /\ OnWire(sent, all, p, k)'
    BY <1>1, <2>2, <2>10 DEF Carries, OnWire
  <2>14. InStep(all, p, d, k)'
    BY <1>1, <2>2, <2>12, <2>13 DEF InStep
  <2>15. QED
    BY <2>9, <2>14
<1>4. QED
  BY <1>2, <1>3

(***************************************************************************)
(* What FrameComplete hands over is what lies in the buffer.               *)
(***************************************************************************)
HandedOver == [i \in 1 .. lFrmHdl.len |-> packet[i - 1]]

LEMMA HandedOverFacts ==
  ASSUME FlowInv, lFrmHdl.state = COMPLETE
  PROVE  HandedOver \in Seq(Byte)
<1>1. lFrmHdl.len \in Nat /\ lFrmHdl.len <= MaxLen
  <2>1. HandleInv(lFrmHdl)
    BY FlowFacts
  <2>2. lFrmHdl.state \in FrameStates
    BY LengthsAssumption
  <2>3. QED
    BY <2>1, <2>2, LengthsAssumption, Limits DEF HandleInv, Handle, ValidLen
<1>2. packet \in [0 .. MaxLen - 1 -> Byte]
  BY FlowFacts
<1>3. ASSUME NEW i \in 1 .. lFrmHdl.len PROVE packet[i - 1] \in Byte
  <2>1. i - 1 \in 0 .. MaxLen - 1
    BY <1>1, LengthsAssumption
  <2>2. QED
    BY <1>2, <2>1
<1>4. HandedOver \in [1 .. lFrmHdl.len -> Byte]
  BY <1>3, Zenon DEF HandedOver
<1>5. QED
  BY <1>1, <1>4

LEMMA HandedOverFrame ==
  ASSUME FlowInv, lFrmHdl.state = COMPLETE, NEW f \in Frames, NEW q,
         Decoded(lFrmHdl, packet, f, q)
  PROVE  q = Size(f) /\ HandedOver = f
<1> DEFINE L == Len(f)
<1>1. L \in Nat /\ Size(f) = L + 14 /\ f \in Seq(Byte)
  BY FrameLength DEF Size
<1>2. q \in 0 .. L + 14
  BY <1>1 DEF Decoded
<1>3. 12 <= q
  <2> SUFFICES ASSUME q <= 11 PROVE FALSE
    BY <1>1, <1>2
  <2>1. CASE q <= 3
    BY <1>1, <1>2, <2>1 DEF Decoded
  <2>2. CASE 4 <= q
    BY <1>1, <1>2, <2>2 DEF Decoded
  <2>3. QED
    BY <1>1, <1>2, <2>1, <2>2
<1>4. /\ lFrmHdl.state = Size(f) - q /\ lFrmHdl.len = L
      /\ \A i \in 0 .. L - 1 : i < q - 12 => packet[i] = f[i + 1]
  BY <1>1, <1>2, <1>3 DEF Decoded
<1>5. q = Size(f)
  BY <1>1, <1>2, <1>4
<1>6. ASSUME NEW i \in 1 .. L PROVE packet[i - 1] = f[i]
  <2>1. i - 1 \in 0 .. L - 1 /\ i - 1 < q - 12 /\ (i - 1) + 1 = i
    BY <1>1, <1>5
  <2>2. QED
    BY <1>4, <2>1
<1>7. HandedOver = [i \in 1 .. L |-> f[i]]
  BY <1>4, <1>6, Zenon DEF HandedOver
<1>8. f = [i \in 1 .. L |-> f[i]]
  BY <1>1
<1>9. QED
  BY <1>5, <1>7, <1>8

LEMMA FrameCompleteFlows ==
  ASSUME FlowInv, FrameComplete
  PROVE  WireInv' /\ DoneInv'
<1> DEFINE n == Len(completed)
           done == [frame |-> HandedOver, intact |-> ~torn]
<1>1. /\ lFrmHdl.state = COMPLETE /\ rx_buffer = <<>>
      /\ completed' = Append(completed, done)
      /\ lFrmHdl' = Goto(lFrmHdl, WAIT_AA1)
      /\ UNCHANGED <<incoming, stream, rx_buffer, packet, available, pc,
                     sent, resets, torn>>
  BY DEF FrameComplete, InLoop, GetAction, NextHeader, HandedOver
<1>2. lFrmHdl'.state = WAIT_AA1
  BY <1>1 DEF Goto
<1>3. done \in Completions /\ done.frame = HandedOver /\ done.intact = ~torn
  <2>1. torn \in BOOLEAN
    BY DEF FlowInv, IInv, TypeOK
  <2>2. HandedOver \in Seq(Byte) /\ (~torn) \in BOOLEAN
    BY <1>1, HandedOverFacts
  <2>3. QED
    BY <2>1, <2>2, Zenon DEF Completions
<1> HIDE DEF done
<1>4. /\ completed' \in Seq(Completions) /\ n \in Nat /\ Len(completed') = n + 1
      /\ \A i \in 1 .. n : completed'[i] = completed[i]
      /\ completed'[n + 1] = done
  BY <1>1, <1>3, FlowFacts, AppendProperties
<1>5. /\ DoneInv /\ Len(sent) \in Nat
  BY FlowFacts DEF FlowInv
<1>6. ASSUME ~torn,
             NEW all, NEW p, NEW c, NEW k, InStep(all, p, c, k)
      PROVE  /\ k \in Nat /\ k + 1 \in 1 .. Len(sent)
             /\ HandedOver = sent[k + 1]
             /\ p[(k + 1) + 1] = c
             /\ OnWire(sent, all, p, k + 1)
  <2>1. k \in Nat /\ k < Len(sent)
    <3>1. k \in Nat /\ k <= Len(sent)
      BY <1>6, PlaceFacts
    <3>2. k # Len(sent)
      BY <1>1, <1>6, NothingBegun
    <3>3. QED
      BY <1>5, <3>1, <3>2
  <2>2. k + 1 \in 1 .. Len(sent) /\ k + 1 \in Nat /\ k < k + 1
        /\ k + 1 <= Len(sent) /\ k + 1 \in 0 .. Len(sent)
    BY <1>5, <2>1
  <2>3. OnWire(sent, all, p, k) /\ sent \in Seq(Frames)
    BY <1>6, FlowFacts DEF InStep
  <2>4. /\ sent[k + 1] \in Frames /\ Size(sent[k + 1]) \in Nat
        /\ p[(k + 1) + 1] = p[k + 1] + Size(sent[k + 1])
    BY <2>2, <2>3, FrameOnWire
  <2>5. Decoded(lFrmHdl, packet, sent[k + 1], c - p[k + 1])
    BY <1>6, <2>1, FrameBegun
  <2>6. c - p[k + 1] = Size(sent[k + 1]) /\ HandedOver = sent[k + 1]
    BY <1>1, <2>4, <2>5, HandedOverFrame
  <2>7. p[(k + 1) + 1] = c
    <3>1. PICK x, z : x = p[k + 1] /\ z = Size(sent[k + 1])
      OBVIOUS
    <3>2. x \in Nat /\ c \in Nat /\ z \in Nat /\ c - x = z
      BY <1>6, <2>4, <2>6, <3>1, PlaceFacts
    <3>3. x + z = c
      BY <3>2
    <3>4. QED
      BY <2>4, <3>1, <3>3
  <2>8. OnWire(sent, all, p, k + 1)
    <3>1. \A j \in (k + 1) + 1 .. Len(sent) : j \in k + 1 .. Len(sent)
      BY <1>5, <2>1
    <3>2. QED
      BY <2>2, <2>3, <3>1 DEF OnWire
  <2>9. QED
    BY <2>1, <2>2, <2>6, <2>7, <2>8
<1>7. ~torn => \E j \in 1 .. Len(sent) : HandedOver = sent[j]
  <2> SUFFICES ASSUME ~torn PROVE \E j \in 1 .. Len(sent) : HandedOver = sent[j]
    OBVIOUS
  <2>1. PICK all, p, c, k : InStep(all, p, c, k)
    BY DEF FlowInv, WireInv
  <2>2. QED
    BY <1>6, <2>1
<1>8. ASSUME resets = 0
      PROVE  /\ ~torn /\ n + 1 <= Len(sent) /\ HandedOver = sent[n + 1]
             /\ \A i \in 1 .. n : completed[i].frame = sent[i]
  <2>1. ~torn /\ \A i \in 1 .. n : completed[i].frame = sent[i]
    BY <1>5, <1>8 DEF DoneInv
  <2>2. PICK all, p, c, k : InStep(all, p, c, k)
    BY <2>1 DEF FlowInv, WireInv
  <2>3. k = n
    BY <1>8, <2>2 DEF InStep
  <2>4. n + 1 \in 1 .. Len(sent) /\ HandedOver = sent[n + 1]
    BY <1>6, <2>1, <2>2, <2>3
  <2>5. QED
    BY <1>5, <2>1, <2>4
<1>9. DoneInv'
  <2>1. ASSUME resets' = 0
        PROVE  /\ ~torn' /\ Len(completed') <= Len(sent')
               /\ \A i \in 1 .. Len(completed') : completed'[i].frame = sent'[i]
    <3>0. resets = 0
      BY <1>1, <2>1
    <3>1. ~torn' /\ Len(completed') <= Len(sent')
      BY <1>1, <1>4, <1>8, <3>0
    <3>2. ASSUME NEW i \in 1 .. n + 1 PROVE completed'[i].frame = sent[i]
      <4>1. CASE i = n + 1
        BY <1>3, <1>4, <1>8, <3>0, <4>1
      <4>2. CASE i # n + 1
        <5>1. i \in 1 .. n
          BY <1>4, <4>2
        <5>2. QED
          BY <1>4, <1>8, <3>0, <5>1
      <4>3. QED
        BY <4>1, <4>2
    <3>3. QED
      BY <1>1, <1>4, <3>1, <3>2
  <2>2. ASSUME NEW i \in 1 .. n + 1, completed'[i].intact
        PROVE  \E j \in 1 .. Len(sent) : completed'[i].frame = sent[j]
    <3>1. CASE i = n + 1
      BY <1>3, <1>4, <1>7, <2>2, <3>1
    <3>2. CASE i # n + 1
      <4>1. i \in 1 .. n
        BY <1>4, <3>2
      <4>2. completed'[i] = completed[i]
        BY <1>4, <4>1
      <4>3. QED
        BY <1>5, <2>2, <4>1, <4>2 DEF DoneInv
    <3>3. QED
      BY <3>1, <3>2
  <2>3. /\ sent' \in Seq(Frames) /\ (pc' = "idle" => rx_buffer' = <<>>)
    BY <1>1, <1>5 DEF DoneInv
  <2>4. QED
    BY <1>1, <1>4, <2>1, <2>2, <2>3 DEF DoneInv
<1>10. WireInv'
  <2> SUFFICES ASSUME ~torn
               PROVE  /\ available' <= Len(stream')
                      /\ \E all, p, c, k : InStep(all, p, c, k)'
    BY <1>1 DEF WireInv
  <2>0. available <= Len(stream) /\ \E all, p, c, k : InStep(all, p, c, k)
    BY DEF FlowInv, WireInv
  <2>1. PICK all, p, c, k : InStep(all, p, c, k)
    BY <2>0
  <2>2. /\ k \in Nat /\ k + 1 \in 1 .. Len(sent)
        /\ p[(k + 1) + 1] = c
        /\ OnWire(sent, all, p, k + 1)
    BY <1>6, <2>1
  <2>3. c \in Nat
    BY <2>1, PlaceFacts
  <2>4. OnWire(sent, all, p, k + 1)' /\ Carries(all, c)'
    <3>1. sent' = sent
      BY <1>1
    <3>2. OnWire(sent', all, p, k + 1)
      BY <2>2, <3>1, Zenon
    <3>3. Carries(all, c)'
      BY <1>1, <2>1 DEF InStep, Carries
    <3>4. QED
      BY <3>2, <3>3, Zenon DEF OnWire
  <2>5. At(p, c, k + 1)'
    <3>1. ASSUME k + 1 < Len(sent)
          PROVE  Decoded(lFrmHdl', packet', sent[(k + 1) + 1], 0)
      <4> DEFINE f == sent[(k + 1) + 1]
      <4>1. (k + 1) + 1 \in 1 .. Len(sent)
        BY <1>5, <2>2, <3>1
      <4>2. f \in Frames
        BY <4>1, FlowFacts
      <4>3. 0 \in 0 .. Size(f)
        BY <4>2, FrameLength DEF Size
      <4> HIDE DEF f
      <4>4. Decoded(lFrmHdl', packet', f, 0)
        BY <1>2, <4>3 DEF Decoded
      <4>5. QED
        BY <4>4 DEF f
    <3>2. c - c = 0 /\ c <= c
      BY <2>3
    <3>3. sent' = sent
      BY <1>1
    <3>4. QED
      BY <1>2, <2>2, <3>1, <3>2, <3>3 DEF At
  <2>6. (resets = 0 => k + 1 = Len(completed))'
    <3>1. resets = 0 => k = n
      BY <2>1 DEF InStep
    <3>2. QED
      BY <1>1, <1>4, <3>1
  <2>7. InStep(all, p, c, k + 1)'
    BY <2>4, <2>5, <2>6 DEF InStep
  <2>8. QED
    BY <1>1, <2>0, <2>7
<1>11. QED
  BY <1>9, <1>10
-----------------------------------------------------------------------------
LEMMA FlowInit == Init => FlowInv
<1> SUFFICES ASSUME Init PROVE FlowInv
  OBVIOUS
<1>1. IInv
  BY InitInv
<1>2. /\ incoming = <<>> /\ stream = <<>> /\ rx_buffer = <<>>
      /\ lFrmHdl.state = WAIT_AA1 /\ available = 0
      /\ sent = <<>> /\ completed = <<>> /\ resets = 0 /\ ~torn
  BY DEF Init, FsmInit
<1>3. /\ Len(<<>>) = 0 /\ <<>> \in Seq(Byte) /\ <<>> \in Seq(Frames)
      /\ <<>> \in Seq(Completions)
  BY EmptySeq
<1>4. DoneInv
  BY <1>2, <1>3 DEF DoneInv
<1>5. WireInv
  <2>1. sent \in Seq(Frames) /\ Len(sent) = 0
    BY <1>2, <1>3
  <2>2. PICK p : OnWire(sent, <<>>, p, 0) /\ p[0 + 1] = 0
    BY <2>1, EmptyWire
  <2>3. Carries(<<>>, 0)
    BY <1>2, <1>3 DEF Carries, Carried
  <2>4. At(p, 0, 0)
    BY <1>2, <1>3, <2>2 DEF At
  <2>5. InStep(<<>>, p, 0, 0)
    BY <1>2, <1>3, <2>2, <2>3, <2>4 DEF InStep
  <2>6. available <= Len(stream)
    BY <1>2, <1>3
  <2>7. QED
    BY <2>5, <2>6 DEF WireInv
<1>6. QED
  BY <1>1, <1>4, <1>5 DEF FlowInv

LEMMA FlowNext ==
  ASSUME WordsAreNoise, FlowInv, [Next]_vars
  PROVE  FlowInv'
<1>1. IInv'
  BY NextInv DEF FlowInv
<1>2. WireInv' /\ DoneInv'
  <2>1. CASE \E f \in Frames, w \in HwWords : ChipReceives(f, w)
    BY <2>1, ChipReceivesFlows
  <2>2. CASE ChipMakesReadable
    BY <2>2, ChipMakesReadableFlows
  <2>3. CASE ChipReboots
    BY <2>3, ChipRebootsFlows
  <2>4. CASE StartReceive
    BY <2>4, StartReceiveFlows
  <2>5. CASE ReadHeaderOrFooter
    BY <2>5, ReadHeaderOrFooterFlows
  <2>6. CASE ProcessByte
    BY <2>6, ProcessByteFlows
  <2>7. CASE CopyFrame
    BY <2>7, CopyFrameFlows
  <2>8. CASE FrameComplete
    BY <2>8, FrameCompleteFlows
  <2>9. CASE EndReceive \/ UNCHANGED vars
    BY <2>9, EndReceiveFlows
  <2>10. QED
    BY <2>1, <2>2, <2>3, <2>4, <2>5, <2>6, <2>7, <2>8, <2>9 DEF Next, Driver
<1>3. QED
  BY <1>1, <1>2 DEF FlowInv

(***************************************************************************)
(* The driver stays in step with the chip's stream of bytes, as long as    *)
(* no reboot tore it, for every set of frames and every length word that   *)
(* does not look like the start of a header.                               *)
(***************************************************************************)
THEOREM StaysInStep == WordsAreNoise => (Spec => []FlowInv)
<1>1. SUFFICES ASSUME WordsAreNoise PROVE Spec => []FlowInv
  OBVIOUS
<1>2. FlowInv /\ [Next]_vars => FlowInv'
  BY <1>1, FlowNext
<1>3. QED
  BY <1>2, FlowInit, PTL DEF Spec

(***************************************************************************)
(* Without a reboot the driver completes the chip's frames, unchanged and  *)
(* in order, for every bound on the number of frames.                      *)
(***************************************************************************)
THEOREM FramesInOrder == WordsAreNoise => (Spec => []InOrderIntact)
<1>1. SUFFICES ASSUME WordsAreNoise PROVE Spec => []InOrderIntact
  OBVIOUS
<1>2. FlowInv => InOrderIntact
  <2> SUFFICES ASSUME FlowInv, resets = 0
               PROVE  IsPrefix([i \in DOMAIN completed |-> completed[i].frame],
                               sent)
    BY DEF InOrderIntact
  <2> DEFINE n == Len(completed)
             g == [i \in DOMAIN completed |-> completed[i].frame]
             t == SubSeq(sent, 1, n)
  <2>1. /\ n \in Nat /\ Len(sent) \in Nat /\ n <= Len(sent)
        /\ \A i \in 1 .. n : completed[i].frame = sent[i]
    BY FlowFacts DEF FlowInv, DoneInv
  <2>2. DOMAIN completed = 1 .. n
    BY FlowFacts
  <2>3. g = [i \in 1 .. n |-> sent[i]]
    BY <2>1, <2>2, Zenon
  <2>4. Len(g) = n
    BY <2>1, <2>3
  <2>5. t = [i \in 1 .. n |-> sent[i]]
    <3>1. t \in Seq(Frames) /\ Len(t) = n /\ \A i \in 1 .. n : t[i] = sent[i]
      <4>1. sent \in Seq(Frames) /\ \A i \in 1 .. n : sent[i] \in Frames
        BY <2>1, FlowFacts
      <4>2. QED
        BY <2>1, <4>1, SubSeqProperties
    <3> HIDE DEF t
    <3>2. t = [i \in 1 .. n |-> t[i]]
      BY <2>1, <3>1
    <3>3. QED
      BY <3>1, <3>2, Zenon
  <2>6. QED
    BY <2>1, <2>3, <2>4, <2>5 DEF IsPrefix
<1>3. QED
  BY <1>1, <1>2, StaysInStep, PTL

(***************************************************************************)
(* With reboots, what the driver completes once it has caught up with the  *)
(* chip is a frame of the chip.                                            *)
(***************************************************************************)
THEOREM FramesIntact == WordsAreNoise => (Spec => []IntactAfterResync)
<1>1. SUFFICES ASSUME WordsAreNoise PROVE Spec => []IntactAfterResync
  OBVIOUS
<1>2. FlowInv => IntactAfterResync
  <2> SUFFICES ASSUME FlowInv, NEW i \in DOMAIN completed, completed[i].intact
               PROVE  completed[i].frame \in Range(sent)
    BY DEF IntactAfterResync
  <2>1. i \in 1 .. Len(completed)
    BY FlowFacts
  <2>2. PICK j \in 1 .. Len(sent) : completed[i].frame = sent[j]
    BY <2>1 DEF FlowInv, DoneInv
  <2>3. j \in DOMAIN sent
    BY <2>2, FlowFacts
  <2>4. QED
    BY <2>2, <2>3 DEF Range
<1>3. QED
  BY <1>1, <1>2, StaysInStep, PTL
=============================================================================
