----------------------------- MODULE QcaFraming -----------------------------
(***************************************************************************)
(* The frame decoder of the QCA7000 SPI driver (qca_framing.c).            *)
(*                                                                         *)
(* The chip hands its received frames over as one byte stream.  A frame    *)
(* travels as                                                              *)
(*                                                                         *)
(*   4 bytes  length word of the chip, which the decoder takes for noise   *)
(*   4 bytes  0xAA                                                         *)
(*   2 bytes  frame length, low byte first                                 *)
(*   2 bytes  reserved                                                     *)
(*   n bytes  Ethernet frame, MinLen <= n <= MaxLen                        *)
(*   2 bytes  0x55                                                         *)
(*                                                                         *)
(* A decoder handle is a record [state, len, offset], like QcaFrmHdl; the  *)
(* states are the numbers of the enumeration QcaFrmState, because the code *)
(* computes with them: while the Ethernet frame itself is read, the state  *)
(* is the number of bytes to the end of the frame, footer included.        *)
(***************************************************************************)
EXTENDS Integers, Sequences

CONSTANTS MinLen,   \* QCAFRM_ETHMINLEN, 60
          MaxLen    \* QCAFRM_ETHMAXLEN, 1518

WAIT_AA1        == 32764
WAIT_AA2        == WAIT_AA1 - 1
WAIT_AA3        == WAIT_AA1 - 2
WAIT_AA4        == WAIT_AA1 - 3
WAIT_LEN_BYTE0  == WAIT_AA1 - 4
WAIT_LEN_BYTE1  == WAIT_AA1 - 5
WAIT_RSVD_BYTE1 == WAIT_AA1 - 6
WAIT_RSVD_BYTE2 == WAIT_AA1 - 7
WAIT_551        == 2
WAIT_552        == 1
COMPLETE        == 0

HEADER_LEN       == 8
FOOTER_LEN       == 2
TOTAL_HEADER_LEN == 12

(***************************************************************************)
(* A frame is no shorter than the bytes a header read may take of it, and  *)
(* no frame state is a header state (60 and 1518 in the code).             *)
(***************************************************************************)
ASSUME LengthsAssumption ==
  /\ MinLen \in Nat /\ MaxLen \in Nat
  /\ TOTAL_HEADER_LEN - HEADER_LEN < MinLen
  /\ MinLen <= MaxLen
  /\ MaxLen + FOOTER_LEN < WAIT_RSVD_BYTE2

UINT8_MAX  == 255
UINT16_MAX == 65535

Byte == 0 .. UINT8_MAX

HeaderStates == WAIT_RSVD_BYTE2 .. WAIT_AA1
FrameStates  == COMPLETE .. MaxLen + FOOTER_LEN

Handle == [state  : HeaderStates \union FrameStates,
           len    : 0 .. UINT16_MAX,
           offset : 0 .. MaxLen]

FsmInit == [state |-> WAIT_AA1, len |-> 0, offset |-> 0]

(***************************************************************************)
(* What the driver does next with the stream, and the bytes it wants for   *)
(* it: whole headers, the rest of a frame or of a footer, never more.      *)
(***************************************************************************)
GetAction(h) ==
  IF h.state \in HeaderStates              THEN "FIND_HEADER"
  ELSE IF h.state \in {WAIT_551, WAIT_552} THEN "CHECK_FOOTER"
  ELSE IF h.state = COMPLETE               THEN "FRAME_COMPLETE"
  ELSE "COPY_FRAME"

\* Mutant: the first read takes in the longest frame whole.
MutBytesRequiredWholeFrame(h) ==
  IF h.state = WAIT_AA1 THEN TOTAL_HEADER_LEN + MaxLen + FOOTER_LEN
  ELSE IF h.state \in HeaderStates THEN h.state - (WAIT_RSVD_BYTE2 - 1)
  ELSE IF h.state \in {COMPLETE, WAIT_551, WAIT_552} THEN h.state
  ELSE h.state - FOOTER_LEN

BytesRequired(h) ==
  IF h.state = WAIT_AA1           THEN TOTAL_HEADER_LEN
  ELSE IF h.state \in HeaderStates THEN h.state - (WAIT_RSVD_BYTE2 - 1)
  ELSE IF h.state \in {COMPLETE, WAIT_551, WAIT_552} THEN h.state
  ELSE h.state - FOOTER_LEN

(***************************************************************************)
(* The handle after one byte.  Stores(h) says that the byte belongs to the *)
(* Ethernet frame and is stored at buffer[offset].                         *)
(***************************************************************************)
Goto(h, s) == [state |-> s, len |-> h.len, offset |-> h.offset]

ExpectByte(h, byte, pattern, next) ==
  Goto(h, IF byte = pattern THEN next ELSE WAIT_AA1)

ReadLength(h, byte) ==
  [state  |-> h.state - 1,
   len    |-> IF h.state = WAIT_LEN_BYTE0 THEN byte ELSE h.len + 256 * byte,
   offset |-> h.offset]

ValidLen(len) == MinLen <= len /\ len <= MaxLen

StartFrame(h) ==
  IF ValidLen(h.len)
    THEN [state |-> h.len + FOOTER_LEN, len |-> h.len, offset |-> 0]
    ELSE Goto(h, WAIT_AA1)

StoreByte(h) ==
  [state |-> h.state - 1, len |-> h.len, offset |-> h.offset + 1]

Stores(h) == h.state \in FrameStates \ {COMPLETE, WAIT_551, WAIT_552}

FsmDecode(h, byte) ==
  IF h.state \in {COMPLETE, WAIT_AA1}
    THEN IF byte = 170 THEN Goto(h, WAIT_AA2) ELSE h
  ELSE IF h.state \in {WAIT_AA2, WAIT_AA3, WAIT_AA4}
    THEN ExpectByte(h, byte, 170, h.state - 1)
  ELSE IF h.state \in {WAIT_LEN_BYTE0, WAIT_LEN_BYTE1}
    THEN ReadLength(h, byte)
  ELSE IF h.state = WAIT_RSVD_BYTE1 THEN Goto(h, WAIT_RSVD_BYTE2)
  ELSE IF h.state = WAIT_RSVD_BYTE2 THEN StartFrame(h)
  ELSE IF h.state \in {WAIT_551, WAIT_552}
    THEN ExpectByte(h, byte, 85, h.state - 1)
  ELSE StoreByte(h)
-----------------------------------------------------------------------------
(***************************************************************************)
(* The same framing on the sending side: QcaFrmCreateHeader (version 0)    *)
(* and QcaFrmCreateFooter around an Ethernet frame.                        *)
(***************************************************************************)
CreateHeader(len) == <<170, 170, 170, 170, len % 256, len \div 256, 0, 0>>

CreateFooter == <<85, 85>>

Encode(frame) == CreateHeader(Len(frame)) \o frame \o CreateFooter
=============================================================================
