------------------------------- MODULE QcaSpi -------------------------------
(***************************************************************************)
(* The SPI thread of the QCA7000 driver (qcaspi_spi_thread, qca_spi.c):    *)
(* how it waits for interrupts and for frames to send, acknowledges what   *)
(* the chip reports, keeps in sync with a chip that may reboot, and resets *)
(* it when that fails.  What happens inside qcaspi_receive and             *)
(* qcaspi_transmit is the matter of QcaReceive and QcaTransmit; here a     *)
(* frame is one step, and the chip's buffers are counters.                 *)
(*                                                                         *)
(* Each access to the chip or to shared state is one step of the thread.   *)
(* The chip, the interrupt and the tasks that send go on between them.     *)
(***************************************************************************)
EXTENDS Integers, FiniteSets

CONSTANTS QueueLength,  \* the frames that can wait in txQueue
          ReadCapacity, \* the frames that fit into the chip's read buffer
          MaxCrashes,   \* bound on the chip's own reboots
          MaxErrors,    \* bound on its buffer errors
          MaxIgnored,   \* bound on the soft resets that it ignores
          MaxRefusals,  \* bound on the times the pool is too low
          BootTimeouts  \* how many timeouts a boot outlasts

ASSUME SpiAssumption ==
  /\ QueueLength \in Nat \ {0} /\ ReadCapacity \in Nat \ {0}
  /\ MaxCrashes \in Nat /\ MaxErrors \in Nat /\ MaxIgnored \in Nat
  /\ MaxRefusals \in Nat /\ BootTimeouts \in Nat

\* The bits of SPI_REG_INTR_CAUSE; BUF_ERR stands for both buffer errors.
Causes == {"CPU_ON", "PKT_AVLBL", "BUF_ERR", "WRBUF_BELOW_WM"}

History == [crashes : 0 .. MaxCrashes, errors : 0 .. MaxErrors,
           ignored : 0 .. MaxIgnored, refusals : 0 .. MaxRefusals,
           missed : BOOLEAN]

VARIABLES
  chip,       \* "up" (the signature is good) or "booting"
  cause, enable, \* its interrupt registers
  frames,     \* the frames in its read buffer
  wrbuf,      \* its write buffer: 0 empty, 1 room for more, 2 full
  bootLeft,   \* the timeouts its boot still outlasts
  registered, \* whether the GPIO interrupt is registered
  notified,   \* the notification bits of the thread
  sync, available, txQueue,
  pc,         \* where the thread is
  intr_cause, intr_enable, \* its copies of the registers
  toRead,     \* the frames it counted when it began to receive
  room,       \* the room it counted when it began to transmit
  history     \* what is left of the bounds, and whether a boot ended
              \* between the thread's look at the interrupt cause and the
              \* end of its handling (missed)

chipVars   == <<chip, frames, wrbuf, bootLeft>>
irqVars    == <<cause, enable, registered, notified>>
copies     == <<intr_cause, intr_enable>>
counts     == <<toRead, room>>
threadVars == <<sync, available, pc, copies, counts>>
vars       == <<chipVars, irqVars, threadVars, txQueue, history>>

Init ==
  /\ chip = "booting" /\ cause = {} /\ enable = {}
  /\ frames = 0 /\ wrbuf = 0 /\ bootLeft = BootTimeouts
  /\ registered = TRUE /\ notified = {}
  /\ sync = "UNKNOWN" /\ available = FALSE /\ txQueue = 0
  /\ pc = "wait" /\ intr_cause = {} /\ intr_enable = {}
  /\ toRead = 0 /\ room = 0
  /\ history = [crashes |-> MaxCrashes, errors |-> MaxErrors,
             ignored |-> MaxIgnored, refusals |-> MaxRefusals, missed |-> FALSE]

Use(what) == history[what] > 0 /\ history' = [history EXCEPT ![what] = @ - 1]
-----------------------------------------------------------------------------
(***************************************************************************)
(* The interrupt line and GreenPHY_GPIO_IRQHandler: both edges interrupt   *)
(* as long as the handler is registered, and it unregisters itself.        *)
(***************************************************************************)
Active(c, e) == c \intersect e # {}

Line == Active(cause, enable)

\* Mutant: the handler leaves the thread alone.
MutWakeNobody == notified

Wake == notified \union {"INT"}

Registers(c, e) ==
  /\ cause' = c /\ enable' = e
  /\ IF registered /\ Active(c, e) # Line
       THEN registered' = FALSE /\ notified' = Wake
       ELSE UNCHANGED <<registered, notified>>

(***************************************************************************)
(* The chip.  It comes up with the CPU_ON interrupt and with that one      *)
(* enabled, and it latches a cause whether it is enabled or not.           *)
(***************************************************************************)
Reboot ==
  /\ chip' = "booting" /\ frames' = 0 /\ wrbuf' = 0
  /\ bootLeft' = BootTimeouts

Handling == {"register", "handle", "error", "ack", "enable"}

ChipBoots ==
  /\ chip = "booting" /\ bootLeft = 0
  /\ history' = [history EXCEPT !.missed = @ \/ pc \in Handling]
  /\ chip' = "up"
  /\ Registers({"CPU_ON"}, {"CPU_ON"})
  /\ UNCHANGED <<frames, wrbuf, bootLeft, threadVars, txQueue>>

ChipCrashes ==
  /\ chip = "up"
  /\ Use("crashes")
  /\ Reboot
  /\ Registers({}, {})
  /\ UNCHANGED <<threadVars, txQueue>>

ChipReceives ==
  /\ chip = "up" /\ frames < ReadCapacity
  /\ frames' = frames + 1
  /\ Registers(cause \union {"PKT_AVLBL"}, enable)
  /\ UNCHANGED <<chip, wrbuf, bootLeft, threadVars, txQueue, history>>

ChipReportsError ==
  /\ chip = "up"
  /\ Use("errors")
  /\ Registers(cause \union {"BUF_ERR"}, enable)
  /\ UNCHANGED <<chipVars, threadVars, txQueue>>

ChipDrains ==
  /\ wrbuf > 0
  /\ wrbuf' = wrbuf - 1
  /\ Registers(IF wrbuf = 2 THEN cause \union {"WRBUF_BELOW_WM"} ELSE cause,
               enable)
  /\ UNCHANGED <<chip, frames, bootLeft, threadVars, txQueue, history>>

QueueHasRoom == txQueue < QueueLength

(***************************************************************************)
(* xQCA7000_NetworkInterfaceOutput, called by the IP task and the bridge.  *)
(* The queue is as long as the pool, so a task that finds it full has no   *)
(* buffer to send.                                                         *)
(***************************************************************************)
Output ==
  /\ QueueHasRoom
  /\ txQueue' = txQueue + 1
  /\ notified' = notified \union {"TX"}
  /\ UNCHANGED <<chipVars, cause, enable, registered, threadVars, history>>
-----------------------------------------------------------------------------
(***************************************************************************)
(* qcaspi_qca7k_sync: what it does to the chip when it is entered with     *)
(* state s.  In WAIT_RESET its loop does not return: it counts up to       *)
(* QCASPI_RESET_TIMEOUT at once and goes on with RESET.                    *)
(***************************************************************************)
Decide(s) ==
  IF chip # "up" THEN "hard"
  ELSE IF s = "READY" \/ (s = "CPUON" /\ wrbuf = 0) THEN "ready"
  ELSE "soft"

Synchronise(s) == IF Decide(s) = "ready" THEN "READY" ELSE "WAIT_RESET"

ResetChip(s) ==
  IF Decide(s) = "ready"
    THEN UNCHANGED <<chipVars, irqVars, history>>
    ELSE \/ Reboot /\ Registers({}, {}) /\ UNCHANGED history
         \/ /\ Decide(s) = "soft"
            /\ Use("ignored")
            /\ UNCHANGED <<chipVars, irqVars>>
-----------------------------------------------------------------------------
(* The thread. *)

\* Mutant: frames are only sent after frames were received.
MutWorkReceiveOnly(s, avail) ==
  IF s # "READY" \/ ~avail THEN "wait" ELSE "receive"

Work(s, avail) ==
  IF s # "READY" THEN "wait" ELSE IF avail THEN "receive" ELSE "transmit"

TakeNotification ==
  /\ pc = "wait" /\ notified # {}
  /\ notified' = {}
  /\ pc' = IF "INT" \in notified THEN "disable" ELSE Work(sync, available)
  /\ UNCHANGED <<chipVars, cause, enable, registered, sync, available, copies,
                 counts, txQueue, history>>

\* A second passes: a boot that has outlasted its timeouts is over by now.
Elapse ==
  /\ pc = "wait" /\ notified = {}
  /\ chip = "booting" => bootLeft > 0

TimeoutWithFrames ==
  /\ Elapse /\ available
  /\ pc' = Work(sync, available)
  /\ bootLeft' = IF chip = "booting" THEN bootLeft - 1 ELSE bootLeft
  /\ UNCHANGED <<chip, frames, wrbuf, irqVars, sync, available, copies, counts,
                 txQueue, history>>

(***************************************************************************)
(* With nothing to receive, a timeout checks the sync state; out of sync,  *)
(* the frames to send are given back to the pool.                          *)
(***************************************************************************)
Timeout ==
  /\ Elapse /\ ~available
  /\ sync' = Synchronise(sync)
  /\ ResetChip(sync)
  /\ IF sync' = "READY"
       THEN pc' = Work(sync', available) /\ UNCHANGED txQueue
       ELSE pc' = "wait" /\ txQueue' = 0
  /\ UNCHANGED <<available, copies, counts>>

DisableInterrupts ==
  /\ pc = "disable"
  /\ intr_enable' = enable
  /\ Registers(cause, {})
  /\ pc' = "cause"
  /\ UNCHANGED <<chipVars, sync, available, intr_cause, counts, txQueue,
                 history>>

\* A chip that is not up may return anything.
ReadCause ==
  /\ pc = "cause"
  /\ intr_cause' \in IF chip = "up" THEN {cause} ELSE {{}, Causes}
  /\ pc' = "register"
  /\ UNCHANGED <<chipVars, irqVars, sync, available, intr_enable, counts,
                 txQueue, history>>

\* Mutant: the interrupt is not registered again.
MutAgainRegistered == registered

AgainRegistered == TRUE

RegisterInterrupt ==
  /\ pc = "register"
  /\ registered' = AgainRegistered
  /\ pc' = "handle"
  /\ UNCHANGED <<chipVars, cause, enable, notified, sync, available, copies,
                 counts, txQueue, history>>

(***************************************************************************)
(* The handling of the cause, up to its acknowledgement: a reset ends it   *)
(* early and leaves the interrupts disabled, for the chip to enable again. *)
(***************************************************************************)
HandleCpuOn ==
  /\ pc = "handle" /\ "CPU_ON" \in intr_cause
  /\ sync' = Synchronise("CPUON")
  /\ ResetChip("CPUON")
  /\ IF sync' = "READY"
       THEN /\ pc' = "error"
            /\ intr_enable' = {"CPU_ON", "PKT_AVLBL", "BUF_ERR"}
       ELSE pc' = "wait" /\ UNCHANGED intr_enable
  /\ UNCHANGED <<available, intr_cause, counts, txQueue>>

HandleNoCpuOn ==
  /\ pc = "handle" /\ "CPU_ON" \notin intr_cause
  /\ pc' = "error"
  /\ UNCHANGED <<chipVars, irqVars, sync, available, copies, counts, txQueue,
                 history>>

HandleError ==
  /\ pc = "error" /\ "BUF_ERR" \in intr_cause
  /\ sync' = Synchronise("RESET")
  /\ ResetChip("RESET")
  /\ pc' = "wait"
  /\ UNCHANGED <<available, copies, counts, txQueue>>

HandlePackets ==
  /\ pc = "error" /\ "BUF_ERR" \notin intr_cause
  /\ available' = (available \/ "PKT_AVLBL" \in intr_cause)
  /\ intr_enable' = IF "WRBUF_BELOW_WM" \in intr_cause
                      THEN intr_enable \ {"WRBUF_BELOW_WM"}
                      ELSE intr_enable
  /\ pc' = "ack"
  /\ UNCHANGED <<chipVars, irqVars, sync, intr_cause, counts, txQueue, history>>

\* Mutant: every cause is acknowledged, those not read included.
MutAcknowledgedAll == {}

Acknowledged == cause \ intr_cause

Acknowledge ==
  /\ pc = "ack"
  /\ Registers(Acknowledged, enable)
  /\ pc' = "enable"
  /\ UNCHANGED <<chipVars, sync, available, copies, counts, txQueue, history>>

EnableInterrupts ==
  /\ pc = "enable"
  /\ Registers(cause, IF chip = "up" THEN intr_enable ELSE {})
  /\ pc' = Work(sync, available)
  /\ UNCHANGED <<chipVars, sync, available, copies, counts, txQueue, history>>

(***************************************************************************)
(* qcaspi_receive: it reads how much there is once, then frame by frame.   *)
(* With the pool too low it stops early and reports -1.                    *)
(***************************************************************************)
StartReceive ==
  /\ pc = "receive"
  /\ toRead' \in IF chip = "up" THEN {frames} ELSE {0, ReadCapacity}
  /\ pc' = "reading"
  /\ UNCHANGED <<chipVars, irqVars, sync, available, copies, room, txQueue,
                 history>>

ReadFrame ==
  /\ pc = "reading" /\ toRead > 0
  /\ toRead' = toRead - 1
  /\ frames' = IF frames > 0 THEN frames - 1 ELSE 0
  /\ UNCHANGED <<chip, wrbuf, bootLeft, irqVars, sync, available, pc, copies,
                 room, txQueue, history>>

RefuseFrame ==
  /\ pc = "reading" /\ toRead > 0
  /\ Use("refusals")
  /\ pc' = "transmit"
  /\ UNCHANGED <<chipVars, irqVars, sync, available, copies, counts, txQueue>>

EndReceive ==
  /\ pc = "reading" /\ toRead = 0
  /\ available' = FALSE
  /\ pc' = "transmit"
  /\ UNCHANGED <<chipVars, irqVars, sync, copies, counts, txQueue, history>>

(***************************************************************************)
(* qcaspi_transmit: it reads how much room there is once, then frame by    *)
(* frame; when there is none for the next one, the thread asks for the     *)
(* watermark interrupt.                                                    *)
(***************************************************************************)
StartTransmit ==
  /\ pc = "transmit"
  /\ room' \in IF chip = "up" THEN {2 - wrbuf} ELSE {0, 2}
  /\ pc' = "sending"
  /\ UNCHANGED <<chipVars, irqVars, sync, available, copies, toRead, txQueue,
                 history>>

TransmitFrame ==
  /\ pc = "sending" /\ txQueue > 0 /\ room > 0
  /\ txQueue' = txQueue - 1
  /\ room' = room - 1
  /\ wrbuf' = IF chip = "up" /\ wrbuf < 2 THEN wrbuf + 1 ELSE wrbuf
  /\ UNCHANGED <<chip, frames, bootLeft, irqVars, sync, available, pc, copies,
                 toRead, history>>

EndTransmit ==
  /\ pc = "sending"
  /\ txQueue > 0 => room = 0
  /\ pc' = IF txQueue > 0 THEN "watermark" ELSE "wait"
  /\ UNCHANGED <<chipVars, irqVars, sync, available, copies, counts, txQueue,
                 history>>

WithWatermark == enable \union {"WRBUF_BELOW_WM"}

EnableWatermark ==
  /\ pc = "watermark"
  /\ Registers(cause, IF chip = "up" THEN WithWatermark ELSE {})
  /\ pc' = "wait"
  /\ UNCHANGED <<chipVars, sync, available, copies, counts, txQueue, history>>

Thread ==
  \/ TakeNotification \/ TimeoutWithFrames \/ Timeout
  \/ DisableInterrupts \/ ReadCause \/ RegisterInterrupt
  \/ HandleCpuOn \/ HandleNoCpuOn \/ HandleError \/ HandlePackets
  \/ Acknowledge \/ EnableInterrupts
  \/ StartReceive \/ ReadFrame \/ RefuseFrame \/ EndReceive
  \/ StartTransmit \/ TransmitFrame \/ EndTransmit \/ EnableWatermark

Chip == \/ ChipBoots \/ ChipCrashes \/ ChipReceives \/ ChipReportsError
        \/ ChipDrains

Next == Chip \/ Output \/ Thread

(***************************************************************************)
(* The thread has the highest priority in the system and its wait times    *)
(* out; the chip boots and sends what it was given, and its boots do not   *)
(* end in the middle of the thread's handling for ever.                    *)
(***************************************************************************)
Fairness == /\ WF_vars(Thread) /\ WF_vars(ChipDrains)
            /\ WF_vars(ChipBoots) /\ SF_vars(ChipBoots /\ pc = "wait")

Spec == Init /\ [][Next]_vars /\ Fairness
-----------------------------------------------------------------------------
TypeOK ==
  /\ chip \in {"up", "booting"}
  /\ cause \subseteq Causes /\ enable \subseteq Causes
  /\ frames \in 0 .. ReadCapacity /\ wrbuf \in 0 .. 2
  /\ bootLeft \in 0 .. BootTimeouts
  /\ registered \in BOOLEAN /\ notified \subseteq {"INT", "TX"}
  /\ sync \in {"UNKNOWN", "READY", "WAIT_RESET"}
  /\ available \in BOOLEAN /\ txQueue \in 0 .. QueueLength
  /\ pc \in {"wait", "disable", "cause", "register", "handle", "error", "ack",
             "enable", "receive", "reading", "transmit", "sending", "watermark"}
  /\ intr_cause \subseteq Causes /\ intr_enable \subseteq Causes
  /\ toRead \in 0 .. ReadCapacity /\ room \in 0 .. 2
  /\ history \in History

(***************************************************************************)
(* The thread never goes to sleep over an interrupt: in sync and with no   *)
(* notification pending, the handler is registered and the line is idle,   *)
(* so that whatever the chip reports next makes an edge.  The one way out: *)
(* a chip that ended a boot in the middle of the handling.                 *)
(***************************************************************************)
AsleepMeansArmed ==
  pc = "wait" /\ "INT" \notin notified /\ sync = "READY"
    => (registered /\ ~Line) \/ history.missed

(***************************************************************************)
(* The one case the driver gives up: the thread still counts on frames     *)
(* that it had no buffer for, so no timeout looks at the sync, and the     *)
(* chip ignored the reset, or ended its boot unseen.                       *)
(***************************************************************************)
Abandoned == /\ sync = "WAIT_RESET" /\ available
             /\ history.refusals < MaxRefusals
             /\ history.ignored < MaxIgnored \/ history.missed

(***************************************************************************)
(* Frames in the chip's read buffer are read, or the chip loses them       *)
(* itself: no order of arrivals, interrupts and acknowledgements strands   *)
(* them, but for the two exceptions above.                                 *)
(***************************************************************************)
FramesAreRead ==
  frames > 0 ~>
    \/ (pc = "reading" /\ toRead > 0) \/ frames = 0
    \/ history.missed \/ Abandoned

(***************************************************************************)
(* Frames that wait to be sent are sent, or given back to the pool: the    *)
(* watermark interrupt or the timeout brings the thread back to them,      *)
(* wherever a boot ends.                                                   *)
(***************************************************************************)
QueueMoves ==
  txQueue > 0 ~> (pc = "sending" /\ room > 0) \/ txQueue = 0 \/ Abandoned

(***************************************************************************)
(* When "reset did not seem to take place, try again": whatever went       *)
(* wrong, the driver is in sync with the chip again and again, wherever a  *)
(* boot ends.                                                              *)
(***************************************************************************)
Recovers == []<>((sync = "READY" /\ chip = "up") \/ Abandoned)
=============================================================================
