----------------------------- MODULE QcaReceive -----------------------------
(***************************************************************************)
(* qcaspi_receive() and qcaspi_process_rx_buffer() of qca_spi.c: the SPI   *)
(* thread empties the chip's read buffer through the frame decoder, while  *)
(* the chip keeps putting frames into it and may reboot at any point.      *)
(*                                                                         *)
(* Each iteration of either loop is one action; what the bridge, the MME   *)
(* filter and the pool do with a finished frame is left open here (whether *)
(* the driver still holds, or gets, a buffer): those parts have modules of *)
(* their own.                                                              *)
(***************************************************************************)
EXTENDS QcaFraming, SequencesExt

CONSTANTS Frames,     \* the Ethernet frames the chip can receive
          HwWords,    \* the length words the chip can put before a frame
          Fill,       \* the byte read from a chip that has nothing to send
          MaxFrames,  \* bound on the frames received
          MaxResets   \* bound on the chip's reboots

ASSUME ReceiveAssumption ==
  /\ Frames \subseteq {f \in Seq(Byte) : ValidLen(Len(f))}
  /\ HwWords \subseteq Seq(Byte)
  /\ Fill \in Byte
  /\ MaxFrames \in Nat /\ MaxResets \in Nat

VARIABLES
  incoming,   \* encoded frames on their way into the chip's read buffer
  stream,     \* the bytes in the chip's read buffer
  lFrmHdl,    \* the decoder handle
  rx_buffer,  \* what qcaspi_process_rx_buffer has yet to decode
  packet,     \* the contents of rx_desc's Ethernet buffer
  rx_desc,    \* whether the driver holds a buffer
  available,  \* the driver's count of readable bytes, 16 bits wide
  pc,         \* "idle", or inside qcaspi_receive's loop
  sent, completed, resets, torn   \* history: frames in and out, reboots

vars == <<incoming, stream, lFrmHdl, rx_buffer, packet, rx_desc, available, pc,
          sent, completed, resets, torn>>

driver  == <<lFrmHdl, rx_buffer, packet, rx_desc, available, pc>>
history == <<sent, completed, resets, torn>>

Init ==
  /\ incoming = <<>> /\ stream = <<>>
  /\ lFrmHdl = FsmInit
  /\ rx_buffer = <<>>
  /\ packet = [i \in 0 .. MaxLen - 1 |-> 0]
  /\ rx_desc = FALSE
  /\ available = 0
  /\ pc = "idle"
  /\ sent = <<>> /\ completed = <<>> /\ resets = 0 /\ torn = FALSE
-----------------------------------------------------------------------------
(* The chip. *)

ChipReceives(frame, word) ==
  /\ Len(sent) < MaxFrames
  /\ incoming' = incoming \o word \o Encode(frame)
  /\ sent' = Append(sent, frame)
  /\ UNCHANGED <<stream, driver, completed, resets, torn>>

ChipMakesReadable ==
  /\ incoming # <<>>
  /\ stream' = Append(stream, Head(incoming))
  /\ incoming' = Tail(incoming)
  /\ UNCHANGED <<driver, history>>

(***************************************************************************)
(* A reboot empties the read buffer under a driver that may be anywhere in *)
(* a frame and may still believe bytes to be available: the driver learns  *)
(* of it by the CPU_ON interrupt only, and that resets no decoder state.   *)
(***************************************************************************)
ChipReboots ==
  /\ resets < MaxResets
  /\ resets' = resets + 1
  /\ incoming' = <<>> /\ stream' = <<>>
  /\ torn' = TRUE
  /\ UNCHANGED <<driver, sent, completed>>

Read(n) == [i \in 1 .. n |-> IF i <= Len(stream) THEN stream[i] ELSE Fill]

\* Mutant: what was read is not taken off the count.
MutConsumeUncounted(n) ==
  stream' = SubSeq(stream, n + 1, Len(stream)) /\ UNCHANGED available

Consume(n) ==
  /\ stream' = SubSeq(stream, n + 1, Len(stream))
  /\ available' = (available - n) % (UINT16_MAX + 1)
-----------------------------------------------------------------------------
(* The driver. *)

(***************************************************************************)
(* Nothing of what the chip sent before is left, neither in the chip nor   *)
(* in the decoder: the only point where it cannot be in the middle of a    *)
(* frame whose payload happens to look like a frame.                       *)
(***************************************************************************)
CaughtUp == lFrmHdl.state = WAIT_AA1 /\ stream = <<>> /\ incoming = <<>>

StartReceive ==
  /\ pc = "idle"
  /\ pc' = "loop"
  /\ rx_desc' \in BOOLEAN /\ (rx_desc => rx_desc')
  /\ available' = Len(stream) % (UINT16_MAX + 1)
  /\ torn' = (torn /\ ~CaughtUp)
  /\ UNCHANGED <<incoming, stream, lFrmHdl, rx_buffer, packet,
                 sent, completed, resets>>

\* Mutant: off by one, a read waits for one byte more than it needs.
MutMoreToReadStrict == rx_desc /\ BytesRequired(lFrmHdl) < available

MoreToRead == rx_desc /\ BytesRequired(lFrmHdl) <= available

InLoop == pc = "loop" /\ rx_buffer = <<>> /\ MoreToRead

ReadHeaderOrFooter ==
  /\ InLoop
  /\ GetAction(lFrmHdl) \in {"FIND_HEADER", "CHECK_FOOTER"}
  /\ rx_buffer' = Read(BytesRequired(lFrmHdl))
  /\ Consume(BytesRequired(lFrmHdl))
  /\ UNCHANGED <<incoming, lFrmHdl, packet, rx_desc, pc, history>>

ProcessByte ==
  /\ rx_buffer # <<>>
  /\ lFrmHdl' = FsmDecode(lFrmHdl, Head(rx_buffer))
  /\ packet' = IF Stores(lFrmHdl)
                 THEN [packet EXCEPT ![lFrmHdl.offset] = Head(rx_buffer)]
                 ELSE packet
  /\ rx_buffer' = Tail(rx_buffer)
  /\ UNCHANGED <<incoming, stream, rx_desc, available, pc, history>>

BurstLen(h) == h.len - h.offset

CopyFrame ==
  /\ InLoop
  /\ GetAction(lFrmHdl) = "COPY_FRAME"
  /\ LET n == BurstLen(lFrmHdl)
     IN  /\ packet' = [i \in 0 .. MaxLen - 1 |->
                         IF i \in lFrmHdl.offset .. lFrmHdl.offset + n - 1
                           THEN Read(n)[i - lFrmHdl.offset + 1]
                           ELSE packet[i]]
         /\ lFrmHdl' = Goto(lFrmHdl, lFrmHdl.state - n)
         /\ Consume(n)
  /\ UNCHANGED <<incoming, rx_buffer, rx_desc, pc, history>>

\* Mutant: the handle is left where it is.
MutNextHeaderForgotten(h) == h

NextHeader(h) == Goto(h, WAIT_AA1)

(***************************************************************************)
(* The frame goes to the bridge or the MME filter; the handle is set back  *)
(* to the start of a header.  The driver ends with the old buffer (nobody  *)
(* took it), a new one, or none.                                           *)
(***************************************************************************)
FrameComplete ==
  /\ InLoop
  /\ GetAction(lFrmHdl) = "FRAME_COMPLETE"
  /\ completed' = Append(completed,
                    [frame  |-> [i \in 1 .. lFrmHdl.len |-> packet[i - 1]],
                     intact |-> ~torn])
  /\ lFrmHdl' = NextHeader(lFrmHdl)
  /\ rx_desc' \in BOOLEAN
  /\ UNCHANGED <<incoming, stream, rx_buffer, packet, available, pc,
                 sent, resets, torn>>

EndReceive ==
  /\ pc = "loop" /\ rx_buffer = <<>> /\ ~MoreToRead
  /\ pc' = "idle"
  /\ UNCHANGED <<incoming, stream, lFrmHdl, rx_buffer, packet, rx_desc,
                 available, history>>

Driver == \/ StartReceive \/ ReadHeaderOrFooter \/ ProcessByte \/ CopyFrame
          \/ FrameComplete \/ EndReceive

Next == \/ \E f \in Frames, w \in HwWords : ChipReceives(f, w)
        \/ ChipMakesReadable
        \/ ChipReboots
        \/ Driver

(***************************************************************************)
(* The SPI thread keeps calling qcaspi_receive while frames are left (its  *)
(* own "available" flag and the one second retry), and the pool gives it a *)
(* buffer again and again: whoever takes a frame releases it.              *)
(***************************************************************************)
Fairness ==
  /\ WF_vars(ChipMakesReadable)
  /\ WF_vars(Driver)
  /\ SF_vars(StartReceive /\ rx_desc')
  /\ SF_vars(FrameComplete /\ rx_desc')

Spec == Init /\ [][Next]_vars /\ Fairness
-----------------------------------------------------------------------------
TypeOK ==
  /\ incoming \in Seq(Byte) /\ stream \in Seq(Byte)
  /\ lFrmHdl \in Handle
  /\ rx_buffer \in Seq(Byte)
  /\ packet \in [0 .. MaxLen - 1 -> Byte]
  /\ rx_desc \in BOOLEAN
  /\ available \in 0 .. UINT16_MAX
  /\ pc \in {"idle", "loop"}
  /\ torn \in BOOLEAN /\ resets \in 0 .. MaxResets

(***************************************************************************)
(* Whatever bytes arrive and wherever the chip reboots, a DMA burst writes *)
(* the missing part of a frame of legal length and nothing behind it: the  *)
(* length the burst asks for, len - offset, is what the state still counts.*)
(***************************************************************************)
CopyStaysInFrame ==
  GetAction(lFrmHdl) = "COPY_FRAME" =>
    /\ ValidLen(lFrmHdl.len)
    /\ lFrmHdl.offset + (lFrmHdl.state - FOOTER_LEN) = lFrmHdl.len

(***************************************************************************)
(* A chunk read for a header or a footer never runs past the end of the    *)
(* frame it may start, so no finished frame is overwritten by the rest of  *)
(* its own chunk before the loop hands it over.                            *)
(***************************************************************************)
ChunkEndsWithFrame == rx_buffer # <<>> => lFrmHdl.state # COMPLETE

(***************************************************************************)
(* Neither kind of read leaves the frame it is for.                        *)
(***************************************************************************)
ReadsStayInFrame == CopyStaysInFrame /\ ChunkEndsWithFrame

(***************************************************************************)
(* Without a reboot, the frames the driver completes are the frames the    *)
(* chip received: same contents, same order, none skipped.                 *)
(***************************************************************************)
InOrderIntact ==
  resets = 0 => IsPrefix([i \in DOMAIN completed |-> completed[i].frame], sent)

(***************************************************************************)
(* A reboot may tear the frame that was being read, but once the decoder   *)
(* is back at the start of a header and the driver has caught up with the  *)
(* chip, every frame it completes is one that the chip received.           *)
(***************************************************************************)
IntactAfterResync ==
  \A i \in DOMAIN completed :
    completed[i].intact => completed[i].frame \in Range(sent)

(***************************************************************************)
(* Without a reboot, each frame the chip received is completed.            *)
(***************************************************************************)
EveryFrameCompleted ==
  \A k \in 1 .. MaxFrames :
    (Len(sent) >= k) ~> (Len(completed) >= k \/ resets > 0)
=============================================================================
