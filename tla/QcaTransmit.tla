---------------------------- MODULE QcaTransmit ----------------------------
(***************************************************************************)
(* qcaspi_transmit() of qca_spi.c: the SPI thread reads once how much room *)
(* the chip's write buffer has and then writes frames from its queue as    *)
(* long as they fit, counting the room down by itself, in 16 bits.  The    *)
(* chip empties its buffer meanwhile; the IP task and the bridge go on     *)
(* queueing frames.  A frame is represented by its xDataLength, which for  *)
(* an ARP packet (42) or a bare acknowledgement (54) is less than what is  *)
(* written.  A chip whose buffer was overfilled reports no room; that it   *)
(* then raises an error is in QcaSpi.                                      *)
(***************************************************************************)
EXTENDS QcaFraming

CONSTANTS BufLen,      \* QCASPI_HW_BUF_LEN, 0xC5B
          Lengths,     \* the frame lengths that are sent
          Levels,      \* the fill levels the chip may drain its buffer to
          QueueLength, \* ipconfigNUM_NETWORK_BUFFER_DESCRIPTORS, 20
          MaxQueued    \* bound on the frames queued

OVERHEAD == 10         \* QCAFRM_FRAME_OVERHEAD

ASSUME TransmitAssumption ==
  /\ BufLen \in 0 .. UINT16_MAX
  /\ Lengths \subseteq Nat
  /\ Levels \subseteq 0 .. BufLen
  /\ QueueLength \in Nat /\ MaxQueued \in Nat

VARIABLES
  txQueue,   \* the lengths of the queued frames
  fill,      \* the bytes in the chip's write buffer
  room,      \* the driver's count of the room that is left
  txPc,      \* "idle", or inside qcaspi_transmit's loop
  queued,    \* how many frames have been queued
  shortfall  \* history: since room was read, a short frame fitted and its
             \* padding did not

transmitVars == <<txQueue, fill, room, txPc, queued, shortfall>>

TransmitInit ==
  /\ txQueue = <<>>
  /\ fill = 0
  /\ room = 0
  /\ txPc = "idle"
  /\ queued = 0
  /\ shortfall = FALSE

Padded(len) == IF len < MinLen THEN MinLen ELSE len

QueueHasRoom == Len(txQueue) < QueueLength

(***************************************************************************)
(* xQCA7000_NetworkInterfaceOutput; with a full queue it returns pdFAIL.   *)
(***************************************************************************)
Output(len) ==
  /\ queued < MaxQueued
  /\ QueueHasRoom
  /\ txQueue' = Append(txQueue, len)
  /\ queued' = queued + 1
  /\ UNCHANGED <<fill, room, txPc, shortfall>>

\* What the chip reports in SPI_REG_WRBUF_SPC_AVA.
Free == IF fill <= BufLen THEN BufLen - fill ELSE 0

StartTransmit ==
  /\ txPc = "idle" /\ txQueue # <<>>
  /\ txPc' = "loop"
  /\ room' = Free
  /\ shortfall' = FALSE
  /\ UNCHANGED <<txQueue, fill, queued>>

\* Mutant: room is asked for the frame alone.
MutFitsFrameAlone(len) == len <= room

\* Mutant: room is asked for a whole QCASPI_BURST_LEN.
MutFitsBurst(len) == BufLen + 4 <= room

Fits(len) == len + OVERHEAD <= room

Taken(len) == Padded(len) + OVERHEAD

PaddingDoesNotFit(len) == len < MinLen /\ room < Taken(len)

(***************************************************************************)
(* qcaspi_tx_frame pads a short frame, so that it takes more room than the *)
(* loop's check asked for.                                                 *)
(***************************************************************************)
TransmitFrame ==
  /\ txPc = "loop" /\ txQueue # <<>>
  /\ Fits(Head(txQueue))
  /\ txQueue' = Tail(txQueue)
  /\ fill' = fill + Padded(Head(txQueue)) + OVERHEAD
  /\ room' = (room - Taken(Head(txQueue))) % (UINT16_MAX + 1)
  /\ shortfall' = (shortfall \/ PaddingDoesNotFit(Head(txQueue)))
  /\ UNCHANGED <<txPc, queued>>

EndTransmit ==
  /\ txPc = "loop"
  /\ txQueue # <<>> => ~Fits(Head(txQueue))
  /\ txPc' = "idle"
  /\ UNCHANGED <<txQueue, fill, room, queued, shortfall>>

(***************************************************************************)
(* qcaspi_flush_txq: without sync, the frames are given back to the pool.  *)
(***************************************************************************)
Flush ==
  /\ txPc = "idle" /\ txQueue # <<>>
  /\ txQueue' = <<>>
  /\ UNCHANGED <<fill, room, txPc, queued, shortfall>>

ChipDrains ==
  /\ \E level \in Levels : level < fill /\ fill' = level
  /\ UNCHANGED <<txQueue, room, txPc, queued, shortfall>>

TransmitNext ==
  \/ \E len \in Lengths : Output(len)
  \/ StartTransmit \/ TransmitFrame \/ EndTransmit \/ Flush
  \/ ChipDrains

(***************************************************************************)
(* The thread comes back to a queue that is not empty: on the watermark    *)
(* interrupt it asked for, and at the latest when its wait times out.      *)
(***************************************************************************)
TransmitFairness == /\ WF_transmitVars(StartTransmit) /\ WF_transmitVars(TransmitFrame)
            /\ WF_transmitVars(EndTransmit) /\ WF_transmitVars(ChipDrains)

TransmitSpec == TransmitInit /\ [][TransmitNext]_transmitVars /\ TransmitFairness
-----------------------------------------------------------------------------
TransmitTypeOK ==
  /\ txQueue \in Seq(Lengths) /\ Len(txQueue) <= QueueLength
  /\ fill \in Nat
  /\ room \in 0 .. UINT16_MAX
  /\ txPc \in {"idle", "loop"}
  /\ queued \in 0 .. MaxQueued
  /\ shortfall \in BOOLEAN

(***************************************************************************)
(* "Check whether there is enough space in the QCA7k buffer to hold the    *)
(* next packet" (qca_spi.c:304): that check is made before the padding.    *)
(* The padding is the only way in which the driver writes more than the    *)
(* chip has room for: of the frames it writes for one reading of the room, *)
(* none does before a short one that was found to fit and was then padded, *)
(* and that one goes too far by no more than its padding.  Those after it  *)
(* may: the count has wrapped.                                             *)
(***************************************************************************)
OverfilledByPadding ==
  [][fill' > fill /\ fill' > BufLen =>
       /\ shortfall'
       /\ ~shortfall => fill' <= BufLen + (MinLen - Head(txQueue))]_transmitVars

(***************************************************************************)
(* Until then the room the driver counts by itself never exceeds the real  *)
(* room: the chip can only have drained more.                              *)
(***************************************************************************)
CountedRoomIsThere == txPc = "loop" /\ ~shortfall => room <= Free

(***************************************************************************)
(* A frame at the head of the queue does not block it for ever, however    *)
(* full the chip is when the thread looks.                                 *)
(***************************************************************************)
QueueDrains == txQueue # <<>> ~> txQueue = <<>>
=============================================================================
