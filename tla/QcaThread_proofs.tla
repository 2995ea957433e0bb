-------------------------- MODULE QcaThread_proofs --------------------------
(***************************************************************************)
(* The two parts that the interrupts drive: the SPI thread with its sync and*)
(* its interrupt (QcaSpi), and the burst with the DMA dispatcher (QcaBurst).*)
(***************************************************************************)
EXTENDS QcaSpi, QcaBurst, SequenceTheorems, TLAPS

(***************************************************************************)
(* The SPI thread never goes to sleep over an interrupt, for every length  *)
(* of the queue and of the read buffer, and every number of crashes,       *)
(* errors, ignored resets and refusals.                                    *)
(***************************************************************************)
\* Where the thread is when it is not handling an interrupt.
Outside == {"wait", "receive", "reading", "transmit", "sending", "watermark"}

\* The next edge is not lost: it was reported, or it will be.
Armed == "INT" \in notified \/ (registered /\ ~Line)

(***************************************************************************)
(* A chip that boots has its interrupts disabled.                          *)
(***************************************************************************)
BootsDisabled == chip = "booting" => enable = {}

(***************************************************************************)
(* From DisableInterrupts on, only a boot enables an interrupt, and then   *)
(* only CPU_ON; unless the boot was missed, the thread reads that cause.   *)
(***************************************************************************)
OnlyCpuOnIn(e, c) == e = {} \/ (e = {"CPU_ON"} /\ "CPU_ON" \in c)

CauseInv == pc = "cause" => OnlyCpuOnIn(enable, cause)

HandlingInv ==
  /\ pc \in {"register", "handle", "error", "ack"}
       => OnlyCpuOnIn(enable, intr_cause)
  /\ pc \in {"handle", "error", "ack"} => registered \/ "INT" \in notified

(***************************************************************************)
(* Once the causes read are acknowledged the line is idle or its edge was  *)
(* reported, and this stays so until the next interrupt is handled.        *)
(***************************************************************************)
ArmedInv ==
  /\ pc = "enable" => Armed
  /\ pc \in Outside /\ sync = "READY" => Armed

IrqInv == history.missed \/ (CauseInv /\ HandlingInv /\ ArmedInv)

IInv == TypeOK /\ BootsDisabled /\ IrqInv

(***************************************************************************)
(* What a write of the chip's interrupt registers does to the line.        *)
(***************************************************************************)
LEMMA RegistersType ==
  ASSUME TypeOK, NEW c \in SUBSET Causes, NEW e \in SUBSET Causes,
         Registers(c, e)
  PROVE  /\ cause' \subseteq Causes /\ enable' \subseteq Causes
         /\ registered' \in BOOLEAN /\ notified' \subseteq {"INT", "TX"}
         /\ cause' = c /\ enable' = e
  BY DEF Registers, TypeOK, Wake

LEMMA RegistersKeepArmed ==
  ASSUME TypeOK, NEW c, NEW e, Registers(c, e)
  PROVE  /\ Armed => Armed'
         /\ registered \/ "INT" \in notified => registered' \/ "INT" \in notified'
         /\ "INT" \in notified => "INT" \in notified'
         /\ (registered \/ "INT" \in notified) /\ ~Active(c, e) => Armed'
<1>1. Line' = Active(c, e)
  BY DEF Registers, Line
<1>2. registered \in BOOLEAN
  BY DEF TypeOK
<1>3. CASE registered /\ Active(c, e) # Line
  BY <1>1, <1>3 DEF Registers, Wake, Armed
<1>4. CASE ~(registered /\ Active(c, e) # Line)
  <2>1. registered' = registered /\ notified' = notified
    BY <1>4 DEF Registers
  <2>2. registered => Active(c, e) = Line
    BY <1>4
  <2>3. QED
    BY <1>1, <1>2, <2>1, <2>2 DEF Armed
<1>5. QED
  BY <1>3, <1>4

(***************************************************************************)
(* A decision for a sync state: only READY, or a CPUON with an empty write *)
(* buffer, leaves the driver in sync.                                      *)
(***************************************************************************)
LEMMA SyncReady ==
  ASSUME NEW s, Synchronise(s) = "READY"
  PROVE  Decide(s) = "ready" /\ chip = "up" /\ s \in {"READY", "CPUON"}
  BY DEF Synchronise, Decide

LEMMA ResetType ==
  ASSUME TypeOK, BootsDisabled, NEW s, ResetChip(s)
  PROVE  /\ chip' \in {"up", "booting"}
         /\ cause' \subseteq Causes /\ enable' \subseteq Causes
         /\ frames' \in 0 .. ReadCapacity /\ wrbuf' \in 0 .. 2
         /\ bootLeft' \in 0 .. BootTimeouts
         /\ registered' \in BOOLEAN /\ notified' \subseteq {"INT", "TX"}
         /\ history' \in History /\ history'.missed = history.missed
         /\ BootsDisabled'
         /\ Decide(s) = "ready" => UNCHANGED <<chipVars, irqVars, history>>
<1>1. CASE UNCHANGED <<chipVars, irqVars, history>>
  BY <1>1 DEF chipVars, irqVars, TypeOK, BootsDisabled
<1>2. CASE Decide(s) # "ready" /\ Reboot /\ Registers({}, {}) /\ UNCHANGED history
  <2>1. /\ chip' = "booting" /\ frames' \in 0 .. ReadCapacity
        /\ wrbuf' \in 0 .. 2 /\ bootLeft' \in 0 .. BootTimeouts
    BY <1>2, SpiAssumption DEF Reboot
  <2>2. /\ cause' = {} /\ enable' = {}
        /\ registered' \in BOOLEAN /\ notified' \subseteq {"INT", "TX"}
    BY <1>2, RegistersType
  <2>3. QED
    BY <1>2, <2>1, <2>2 DEF TypeOK, BootsDisabled
<1>3. CASE /\ Decide(s) = "soft" /\ Use("ignored")
           /\ UNCHANGED <<chipVars, irqVars>>
  <2>1. history' \in History /\ history'.missed = history.missed
    BY <1>3, SpiAssumption DEF Use, TypeOK, History
  <2>2. QED
    BY <1>3, <2>1 DEF chipVars, irqVars, TypeOK, BootsDisabled
<1>4. QED
  BY <1>1, <1>2, <1>3 DEF ResetChip

LEMMA SyncType ==
  ASSUME NEW s PROVE Synchronise(s) \in {"READY", "WAIT_RESET"}
  BY DEF Synchronise

LEMMA WorkOutside ==
  ASSUME NEW s, NEW avail
  PROVE  Work(s, avail) \in {"wait", "receive", "transmit"}
  BY DEF Work
-----------------------------------------------------------------------------
LEMMA InitEstablishes == Init => IInv
<1> SUFFICES ASSUME Init PROVE IInv
  OBVIOUS
<1>1. history \in History
  BY SpiAssumption DEF Init, History
<1>2. /\ 0 \in 0 .. ReadCapacity /\ 0 \in 0 .. QueueLength
      /\ BootTimeouts \in 0 .. BootTimeouts
  BY SpiAssumption
<1>3. TypeOK
  <2>1. /\ chip = "booting" /\ cause = {} /\ enable = {} /\ frames = 0
        /\ wrbuf = 0 /\ bootLeft = BootTimeouts
        /\ registered = TRUE /\ notified = {}
    BY DEF Init
  <2>2. /\ sync = "UNKNOWN" /\ available = FALSE /\ txQueue = 0 /\ pc = "wait"
        /\ intr_cause = {} /\ intr_enable = {} /\ toRead = 0 /\ room = 0
    BY DEF Init
  <2>3. /\ chip \in {"up", "booting"}
        /\ cause \subseteq Causes /\ enable \subseteq Causes
        /\ frames \in 0 .. ReadCapacity /\ wrbuf \in 0 .. 2
        /\ bootLeft \in 0 .. BootTimeouts
        /\ registered \in BOOLEAN /\ notified \subseteq {"INT", "TX"}
    BY <1>2, <2>1
  <2>4. /\ sync \in {"UNKNOWN", "READY", "WAIT_RESET"}
        /\ available \in BOOLEAN
        /\ intr_cause \subseteq Causes /\ intr_enable \subseteq Causes
    BY <2>2
  <2>5. /\ txQueue \in 0 .. QueueLength
        /\ toRead \in 0 .. ReadCapacity /\ room \in 0 .. 2
    BY <1>2, <2>2
  <2>6. QED
    BY <1>1, <2>2, <2>3, <2>4, <2>5 DEF TypeOK
<1>4. BootsDisabled /\ IrqInv
  BY DEF Init, BootsDisabled, IrqInv, CauseInv, HandlingInv, ArmedInv, Armed,
         Line, Active
<1>5. QED
  BY <1>3, <1>4 DEF IInv

(***************************************************************************)
(* The chip: it changes its registers under a thread that stands still.    *)
(***************************************************************************)
LEMMA ChipKeeps ==
  ASSUME IInv, NEW c \in SUBSET Causes, Registers(c, enable),
         UNCHANGED <<threadVars, chip>>, cause \subseteq c,
         history'.missed = history.missed
  PROVE  BootsDisabled' /\ IrqInv'
<1>1. /\ cause' = c /\ enable' = enable /\ chip' = chip
      /\ pc' = pc /\ sync' = sync /\ intr_cause' = intr_cause
  BY DEF Registers, threadVars, copies
<1>2. /\ Armed => Armed'
      /\ registered \/ "INT" \in notified => registered' \/ "INT" \in notified'
  BY RegistersKeepArmed DEF IInv
<1>3. QED
  BY <1>1, <1>2
     DEF IInv, BootsDisabled, IrqInv, CauseInv, HandlingInv, ArmedInv,
         OnlyCpuOnIn

LEMMA ChipBootsKeeps == IInv /\ ChipBoots => IInv'
<1> SUFFICES ASSUME IInv, ChipBoots PROVE IInv'
  OBVIOUS
<1>0. TypeOK /\ BootsDisabled /\ IrqInv
  BY DEF IInv
<1>1. /\ Registers({"CPU_ON"}, {"CPU_ON"}) /\ chip' = "up"
      /\ UNCHANGED <<frames, wrbuf, bootLeft, threadVars, txQueue>>
      /\ history' = [history EXCEPT !.missed = @ \/ pc \in Handling]
  BY DEF ChipBoots
<1>2. /\ cause' = {"CPU_ON"} /\ enable' = {"CPU_ON"}
      /\ registered' \in BOOLEAN /\ notified' \subseteq {"INT", "TX"}
      /\ cause' \subseteq Causes /\ enable' \subseteq Causes
  BY <1>0, <1>1, RegistersType DEF Causes
<1>3. /\ Armed => Armed'
      /\ registered \/ "INT" \in notified => registered' \/ "INT" \in notified'
  BY <1>0, <1>1, RegistersKeepArmed
<1>4. history' \in History /\ history'.missed = (history.missed \/ pc \in Handling)
  BY <1>0, <1>1 DEF TypeOK, History
<1>5. TypeOK'
  BY <1>0, <1>1, <1>2, <1>4 DEF TypeOK, threadVars, copies, counts
<1>6. BootsDisabled'
  BY <1>1 DEF BootsDisabled
<1>7. pc' = pc /\ sync' = sync
  BY <1>1 DEF threadVars
<1>8. IrqInv'
  <2>1. CASE history.missed \/ pc \in Handling
    BY <1>4, <2>1 DEF IrqInv
  <2>2. CASE ~history.missed /\ pc \notin Handling
    BY <1>0, <1>2, <1>3, <1>7, <2>2
       DEF IrqInv, CauseInv, HandlingInv, ArmedInv, OnlyCpuOnIn, Handling
  <2>3. QED
    BY <2>1, <2>2
<1>9. QED
  BY <1>5, <1>6, <1>8 DEF IInv

LEMMA ChipCrashesKeeps == IInv /\ ChipCrashes => IInv'
<1> SUFFICES ASSUME IInv, ChipCrashes PROVE IInv'
  OBVIOUS
<1>0. TypeOK /\ BootsDisabled /\ IrqInv
  BY DEF IInv
<1>1. /\ Reboot /\ Registers({}, {}) /\ Use("crashes")
      /\ UNCHANGED <<threadVars, txQueue>>
  BY DEF ChipCrashes
<1>2. /\ cause' = {} /\ enable' = {}
      /\ registered' \in BOOLEAN /\ notified' \subseteq {"INT", "TX"}
  BY <1>0, <1>1, RegistersType
<1>3. /\ Armed => Armed'
      /\ registered \/ "INT" \in notified => registered' \/ "INT" \in notified'
  BY <1>0, <1>1, RegistersKeepArmed
<1>4. history' \in History /\ history'.missed = history.missed
  BY <1>0, <1>1, SpiAssumption DEF TypeOK, History, Use
<1>5. /\ chip' = "booting" /\ frames' \in 0 .. ReadCapacity
      /\ wrbuf' \in 0 .. 2 /\ bootLeft' \in 0 .. BootTimeouts
  BY <1>1, SpiAssumption DEF Reboot
<1>6. TypeOK'
  BY <1>0, <1>1, <1>2, <1>4, <1>5 DEF TypeOK, threadVars, copies, counts
<1>7. BootsDisabled'
  BY <1>2 DEF BootsDisabled
<1>8. pc' = pc /\ sync' = sync
  BY <1>1 DEF threadVars
<1>9. IrqInv'
  BY <1>0, <1>2, <1>3, <1>4, <1>8
     DEF IrqInv, CauseInv, HandlingInv, ArmedInv, OnlyCpuOnIn
<1>10. QED
  BY <1>6, <1>7, <1>9 DEF IInv

LEMMA ChipReceivesKeeps == IInv /\ ChipReceives => IInv'
<1> SUFFICES ASSUME IInv, ChipReceives PROVE IInv'
  OBVIOUS
<1> DEFINE c == cause \union {"PKT_AVLBL"}
<1>0. TypeOK
  BY DEF IInv
<1>1. c \in SUBSET Causes /\ enable \in SUBSET Causes /\ Registers(c, enable)
  BY <1>0 DEF ChipReceives, TypeOK, Causes
<1>2. frames' \in 0 .. ReadCapacity
  BY <1>0, SpiAssumption DEF ChipReceives, TypeOK
<1>3. UNCHANGED <<chip, wrbuf, bootLeft, threadVars, txQueue, history>>
  BY DEF ChipReceives
<1>4. TypeOK'
  BY <1>0, <1>1, <1>2, <1>3, RegistersType DEF TypeOK, threadVars, copies, counts
<1>5. BootsDisabled' /\ IrqInv'
  BY <1>1, <1>3, ChipKeeps
<1>6. QED
  BY <1>4, <1>5 DEF IInv

LEMMA ChipReportsErrorKeeps == IInv /\ ChipReportsError => IInv'
<1> SUFFICES ASSUME IInv, ChipReportsError PROVE IInv'
  OBVIOUS
<1> DEFINE c == cause \union {"BUF_ERR"}
<1>0. TypeOK
  BY DEF IInv
<1>1. c \in SUBSET Causes /\ enable \in SUBSET Causes /\ Registers(c, enable)
  BY <1>0 DEF ChipReportsError, TypeOK, Causes
<1>2. history' \in History /\ history'.missed = history.missed
  BY <1>0, SpiAssumption DEF ChipReportsError, TypeOK, History, Use
<1>3. UNCHANGED <<chipVars, threadVars, txQueue>>
  BY DEF ChipReportsError
<1>4. TypeOK'
  BY <1>0, <1>1, <1>2, <1>3, RegistersType
     DEF TypeOK, chipVars, threadVars, copies, counts
<1>5. BootsDisabled' /\ IrqInv'
  BY <1>1, <1>2, <1>3, ChipKeeps DEF chipVars
<1>6. QED
  BY <1>4, <1>5 DEF IInv

LEMMA ChipDrainsKeeps == IInv /\ ChipDrains => IInv'
<1> SUFFICES ASSUME IInv, ChipDrains PROVE IInv'
  OBVIOUS
<1> DEFINE c == IF wrbuf = 2 THEN cause \union {"WRBUF_BELOW_WM"} ELSE cause
<1>0. TypeOK
  BY DEF IInv
<1>1. c \in SUBSET Causes /\ enable \in SUBSET Causes /\ Registers(c, enable)
  BY <1>0 DEF ChipDrains, TypeOK, Causes
<1>2. wrbuf' \in 0 .. 2
  BY <1>0 DEF ChipDrains, TypeOK
<1>3. UNCHANGED <<chip, frames, bootLeft, threadVars, txQueue, history>>
  BY DEF ChipDrains
<1>4. TypeOK'
  BY <1>0, <1>1, <1>2, <1>3, RegistersType DEF TypeOK, threadVars, copies, counts
<1>5. BootsDisabled' /\ IrqInv'
  BY <1>1, <1>3, ChipKeeps
<1>6. QED
  BY <1>4, <1>5 DEF IInv

(***************************************************************************)
(* A step that leaves the interrupts alone and stays outside the handling. *)
(***************************************************************************)
LEMMA QuietKeeps ==
  ASSUME BootsDisabled, IrqInv, pc \in Outside, pc' \in Outside,
         UNCHANGED <<cause, enable, registered, sync, chip>>,
         "INT" \in notified => "INT" \in notified',
         history'.missed = history.missed
  PROVE  BootsDisabled' /\ IrqInv'
<1>1. Armed => Armed'
  BY DEF Armed, Line
<1>2. QED
  BY <1>1 DEF BootsDisabled, IrqInv, CauseInv, HandlingInv, ArmedInv, Outside

LEMMA OutputKeeps == IInv /\ Output => IInv'
<1> SUFFICES ASSUME IInv, Output PROVE IInv'
  OBVIOUS
<1>0. TypeOK /\ BootsDisabled /\ IrqInv
  BY DEF IInv
<1>1. txQueue' \in 0 .. QueueLength
  BY <1>0, SpiAssumption DEF Output, QueueHasRoom, TypeOK
<1>2. /\ notified' = notified \union {"TX"}
      /\ UNCHANGED <<chipVars, cause, enable, registered, threadVars, history>>
  BY DEF Output
<1>3. TypeOK'
  BY <1>0, <1>1, <1>2 DEF TypeOK, chipVars, threadVars, copies, counts
<1>4. Armed => Armed'
  BY <1>2 DEF Armed, Line
<1>5. BootsDisabled' /\ IrqInv'
  BY <1>0, <1>2, <1>4
     DEF BootsDisabled, IrqInv, CauseInv, HandlingInv, ArmedInv, chipVars,
         threadVars, copies
<1>6. QED
  BY <1>3, <1>5 DEF IInv
-----------------------------------------------------------------------------
(* The thread waits. *)

LEMMA TakeNotificationKeeps == IInv /\ TakeNotification => IInv'
<1> SUFFICES ASSUME IInv, TakeNotification PROVE IInv'
  OBVIOUS
<1>0. TypeOK /\ BootsDisabled /\ IrqInv
  BY DEF IInv
<1>1. /\ pc = "wait" /\ notified' = {}
      /\ pc' = IF "INT" \in notified THEN "disable" ELSE Work(sync, available)
      /\ UNCHANGED <<chipVars, cause, enable, registered, sync, available,
                     copies, counts, txQueue, history>>
  BY DEF TakeNotification
<1>2. pc' = "disable" \/ pc' \in {"wait", "receive", "transmit"}
  BY <1>1, WorkOutside
<1>3. TypeOK'
  BY <1>0, <1>1, <1>2 DEF TypeOK, chipVars, copies, counts
<1>4. BootsDisabled' /\ IrqInv'
  <2>1. CASE "INT" \in notified
    BY <1>0, <1>1, <2>1
       DEF BootsDisabled, IrqInv, CauseInv, HandlingInv, ArmedInv, Outside,
           chipVars
  <2>2. CASE "INT" \notin notified
    <3>1. pc \in Outside /\ pc' \in Outside
      BY <1>1, <2>2, WorkOutside DEF Outside
    <3>2. QED
      BY <1>0, <1>1, <2>2, <3>1, QuietKeeps DEF chipVars
  <2>3. QED
    BY <2>1, <2>2
<1>5. QED
  BY <1>3, <1>4 DEF IInv

LEMMA TimeoutWithFramesKeeps == IInv /\ TimeoutWithFrames => IInv'
<1> SUFFICES ASSUME IInv, TimeoutWithFrames PROVE IInv'
  OBVIOUS
<1>0. TypeOK /\ BootsDisabled /\ IrqInv
  BY DEF IInv
<1>1. /\ pc = "wait" /\ pc' = Work(sync, available)
      /\ UNCHANGED <<chip, frames, wrbuf, irqVars, sync, available, copies,
                     counts, txQueue, history>>
  BY DEF TimeoutWithFrames, Elapse
<1>2. bootLeft' \in 0 .. BootTimeouts
  BY <1>0, SpiAssumption DEF TimeoutWithFrames, Elapse, TypeOK
<1>3. pc' \in {"wait", "receive", "transmit"}
  BY <1>1, WorkOutside
<1>4. TypeOK'
  BY <1>0, <1>1, <1>2, <1>3 DEF TypeOK, irqVars, copies, counts
<1>5. BootsDisabled' /\ IrqInv'
  BY <1>0, <1>1, <1>3, QuietKeeps DEF irqVars, Outside
<1>6. QED
  BY <1>4, <1>5 DEF IInv

LEMMA TimeoutKeeps == IInv /\ Timeout => IInv'
<1> SUFFICES ASSUME IInv, Timeout PROVE IInv'
  OBVIOUS
<1>0. TypeOK /\ BootsDisabled /\ IrqInv
  BY DEF IInv
<1>1. /\ pc = "wait" /\ sync' = Synchronise(sync) /\ ResetChip(sync)
      /\ UNCHANGED <<available, copies, counts>>
  BY DEF Timeout, Elapse
<1>2. pc' \in {"wait", "receive", "transmit"}
  BY WorkOutside DEF Timeout
<1>3. txQueue' \in 0 .. QueueLength
  BY <1>0, SpiAssumption DEF Timeout, TypeOK
<1>4. TypeOK'
  BY <1>0, <1>1, <1>2, <1>3, ResetType, SyncType DEF TypeOK, copies, counts
<1>5. BootsDisabled' /\ history'.missed = history.missed
  BY <1>0, <1>1, ResetType
<1>6. IrqInv'
  <2>1. CASE sync' = "READY"
    <3>1. Decide(sync) = "ready" /\ sync = "READY"
      BY <1>0, <1>1, <2>1, SyncReady DEF TypeOK
    <3>2. UNCHANGED <<chipVars, irqVars, history>>
      BY <1>1, <3>1 DEF ResetChip
    <3>3. QED
      BY <1>0, <1>1, <1>2, <2>1, <3>1, <3>2, QuietKeeps
         DEF chipVars, irqVars, Outside
  <2>2. CASE sync' # "READY"
    BY <1>0, <1>2, <1>5, <2>2
       DEF IrqInv, CauseInv, HandlingInv, ArmedInv, Outside
  <2>3. QED
    BY <2>1, <2>2
<1>7. QED
  BY <1>4, <1>5, <1>6 DEF IInv
-----------------------------------------------------------------------------
(* The thread handles an interrupt. *)

LEMMA DisableInterruptsKeeps == IInv /\ DisableInterrupts => IInv'
<1> SUFFICES ASSUME IInv, DisableInterrupts PROVE IInv'
  OBVIOUS
<1>0. TypeOK /\ BootsDisabled /\ IrqInv
  BY DEF IInv
<1>1. /\ Registers(cause, {}) /\ intr_enable' = enable /\ pc' = "cause"
      /\ UNCHANGED <<chipVars, sync, available, intr_cause, counts, txQueue,
                     history>>
  BY DEF DisableInterrupts
<1>2. /\ cause' \subseteq Causes /\ enable' = {}
      /\ registered' \in BOOLEAN /\ notified' \subseteq {"INT", "TX"}
  BY <1>0, <1>1, RegistersType DEF TypeOK
<1>3. TypeOK'
  BY <1>0, <1>1, <1>2 DEF TypeOK, chipVars, counts
<1>4. BootsDisabled' /\ IrqInv'
  BY <1>1, <1>2
     DEF BootsDisabled, IrqInv, CauseInv, HandlingInv, ArmedInv, OnlyCpuOnIn,
         Outside
<1>5. QED
  BY <1>3, <1>4 DEF IInv

LEMMA ReadCauseKeeps == IInv /\ ReadCause => IInv'
<1> SUFFICES ASSUME IInv, ReadCause PROVE IInv'
  OBVIOUS
<1>0. TypeOK /\ BootsDisabled /\ IrqInv
  BY DEF IInv
<1>1. /\ pc = "cause" /\ pc' = "register"
      /\ UNCHANGED <<chipVars, irqVars, sync, available, intr_enable, counts,
                     txQueue, history>>
  BY DEF ReadCause
<1>2. intr_cause' \subseteq Causes /\ (chip = "up" => intr_cause' = cause)
  BY <1>0 DEF ReadCause, TypeOK
<1>3. TypeOK'
  BY <1>0, <1>1, <1>2 DEF TypeOK, chipVars, irqVars, counts
<1>4. OnlyCpuOnIn(enable, cause) \/ history.missed
  BY <1>0, <1>1 DEF IrqInv, CauseInv
<1>5. OnlyCpuOnIn(enable, intr_cause') \/ history.missed
  <2>1. CASE chip = "up"
    BY <1>2, <1>4, <2>1
  <2>2. CASE chip = "booting"
    BY <1>0, <2>2 DEF BootsDisabled, OnlyCpuOnIn
  <2>3. QED
    BY <1>0, <2>1, <2>2 DEF TypeOK
<1>6. BootsDisabled' /\ IrqInv'
  BY <1>0, <1>1, <1>5
     DEF BootsDisabled, IrqInv, CauseInv, HandlingInv, ArmedInv, OnlyCpuOnIn,
         Outside, chipVars, irqVars
<1>7. QED
  BY <1>3, <1>6 DEF IInv

LEMMA RegisterInterruptKeeps == IInv /\ RegisterInterrupt => IInv'
<1> SUFFICES ASSUME IInv, RegisterInterrupt PROVE IInv'
  OBVIOUS
<1>0. TypeOK /\ BootsDisabled /\ IrqInv
  BY DEF IInv
<1>1. /\ pc = "register" /\ pc' = "handle" /\ registered' = TRUE
      /\ UNCHANGED <<chipVars, cause, enable, notified, sync, available, copies,
                     counts, txQueue, history>>
  BY DEF RegisterInterrupt, AgainRegistered
<1>2. TypeOK'
  BY <1>0, <1>1 DEF TypeOK, chipVars, copies, counts
<1>3. BootsDisabled' /\ IrqInv'
  BY <1>0, <1>1
     DEF BootsDisabled, IrqInv, CauseInv, HandlingInv, ArmedInv, OnlyCpuOnIn,
         Outside, chipVars, copies
<1>4. QED
  BY <1>2, <1>3 DEF IInv

LEMMA HandleCpuOnKeeps == IInv /\ HandleCpuOn => IInv'
<1> SUFFICES ASSUME IInv, HandleCpuOn PROVE IInv'
  OBVIOUS
<1>0. TypeOK /\ BootsDisabled /\ IrqInv
  BY DEF IInv
<1>1. /\ pc = "handle" /\ sync' = Synchronise("CPUON") /\ ResetChip("CPUON")
      /\ UNCHANGED <<available, intr_cause, counts, txQueue>>
  BY DEF HandleCpuOn
<1>2. /\ intr_enable' \subseteq Causes
      /\ pc' = IF sync' = "READY" THEN "error" ELSE "wait"
  BY <1>0 DEF HandleCpuOn, TypeOK, Causes
<1>3. TypeOK'
  BY <1>0, <1>1, <1>2, ResetType, SyncType DEF TypeOK, counts
<1>4. BootsDisabled' /\ history'.missed = history.missed
  BY <1>0, <1>1, ResetType
<1>5. IrqInv'
  <2>1. CASE sync' = "READY"
    <3>1. UNCHANGED <<chipVars, irqVars, history>>
      BY <1>1, <2>1, SyncReady DEF ResetChip
    <3>2. QED
      BY <1>0, <1>1, <1>2, <2>1, <3>1
         DEF IrqInv, CauseInv, HandlingInv, ArmedInv, OnlyCpuOnIn, Outside,
             irqVars
  <2>2. CASE sync' # "READY"
    BY <1>0, <1>2, <1>4, <2>2
       DEF IrqInv, CauseInv, HandlingInv, ArmedInv, Outside
  <2>3. QED
    BY <2>1, <2>2
<1>6. QED
  BY <1>3, <1>4, <1>5 DEF IInv

LEMMA HandleNoCpuOnKeeps == IInv /\ HandleNoCpuOn => IInv'
<1> SUFFICES ASSUME IInv, HandleNoCpuOn PROVE IInv'
  OBVIOUS
<1>1. /\ pc = "handle" /\ pc' = "error"
      /\ UNCHANGED <<chipVars, irqVars, sync, available, copies, counts,
                     txQueue, history>>
  BY DEF HandleNoCpuOn
<1>2. TypeOK'
  BY <1>1 DEF IInv, TypeOK, chipVars, irqVars, copies, counts
<1>3. BootsDisabled' /\ IrqInv'
  BY <1>1
     DEF IInv, BootsDisabled, IrqInv, CauseInv, HandlingInv, ArmedInv,
         OnlyCpuOnIn, Outside, chipVars, irqVars, copies
<1>4. QED
  BY <1>2, <1>3 DEF IInv

LEMMA HandleErrorKeeps == IInv /\ HandleError => IInv'
<1> SUFFICES ASSUME IInv, HandleError PROVE IInv'
  OBVIOUS
<1>0. TypeOK /\ BootsDisabled /\ IrqInv
  BY DEF IInv
<1>1. /\ pc' = "wait" /\ sync' = Synchronise("RESET") /\ ResetChip("RESET")
      /\ UNCHANGED <<available, copies, counts, txQueue>>
  BY DEF HandleError
<1>2. TypeOK'
  BY <1>0, <1>1, ResetType, SyncType DEF TypeOK, copies, counts
<1>3. BootsDisabled' /\ history'.missed = history.missed
  BY <1>0, <1>1, ResetType
<1>4. sync' # "READY"
  BY <1>1, SyncReady
<1>5. IrqInv'
  BY <1>0, <1>1, <1>3, <1>4
     DEF IrqInv, CauseInv, HandlingInv, ArmedInv, Outside
<1>6. QED
  BY <1>2, <1>3, <1>5 DEF IInv

LEMMA HandlePacketsKeeps == IInv /\ HandlePackets => IInv'
<1> SUFFICES ASSUME IInv, HandlePackets PROVE IInv'
  OBVIOUS
<1>0. TypeOK
  BY DEF IInv
<1>1. /\ pc = "error" /\ pc' = "ack"
      /\ UNCHANGED <<chipVars, irqVars, sync, intr_cause, counts, txQueue,
                     history>>
  BY DEF HandlePackets
<1>2. available' \in BOOLEAN
  <2>1. available' = (available \/ "PKT_AVLBL" \in intr_cause)
    BY DEF HandlePackets
  <2>2. QED
    BY <2>1
<1>3. intr_enable' \subseteq Causes
  BY <1>0 DEF HandlePackets, TypeOK
<1>4. TypeOK'
  BY <1>0, <1>1, <1>2, <1>3 DEF TypeOK, chipVars, irqVars, counts
<1>5. BootsDisabled' /\ IrqInv'
  BY <1>1
     DEF IInv, BootsDisabled, IrqInv, CauseInv, HandlingInv, ArmedInv,
         OnlyCpuOnIn, Outside, chipVars, irqVars
<1>6. QED
  BY <1>4, <1>5 DEF IInv

LEMMA AcknowledgeKeeps == IInv /\ Acknowledge => IInv'
<1> SUFFICES ASSUME IInv, Acknowledge PROVE IInv'
  OBVIOUS
<1>0. TypeOK /\ BootsDisabled /\ IrqInv
  BY DEF IInv
<1>1. /\ pc = "ack" /\ pc' = "enable" /\ Registers(Acknowledged, enable)
      /\ UNCHANGED <<chipVars, sync, available, copies, counts, txQueue, history>>
  BY DEF Acknowledge
<1>2. Acknowledged \in SUBSET Causes /\ enable \in SUBSET Causes
  BY <1>0 DEF Acknowledged, TypeOK
<1>3. /\ cause' \subseteq Causes /\ enable' = enable /\ enable' \subseteq Causes
      /\ registered' \in BOOLEAN /\ notified' \subseteq {"INT", "TX"}
  BY <1>0, <1>1, <1>2, RegistersType
<1>4. TypeOK'
  BY <1>0, <1>1, <1>3 DEF TypeOK, chipVars, copies, counts
<1>5. history.missed \/ Armed'
  <2> SUFFICES ASSUME ~history.missed PROVE Armed'
    OBVIOUS
  <2>1. /\ OnlyCpuOnIn(enable, intr_cause)
        /\ registered \/ "INT" \in notified
    BY <1>0, <1>1 DEF IrqInv, HandlingInv
  <2>2. ~Active(Acknowledged, enable)
    BY <2>1 DEF OnlyCpuOnIn, Active, Acknowledged
  <2>3. QED
    BY <1>0, <1>1, <2>1, <2>2, RegistersKeepArmed
<1>6. BootsDisabled' /\ IrqInv'
  BY <1>0, <1>1, <1>3, <1>5
     DEF BootsDisabled, IrqInv, CauseInv, HandlingInv, ArmedInv, Outside,
         chipVars
<1>7. QED
  BY <1>4, <1>6 DEF IInv

LEMMA EnableInterruptsKeeps == IInv /\ EnableInterrupts => IInv'
<1> SUFFICES ASSUME IInv, EnableInterrupts PROVE IInv'
  OBVIOUS
<1> DEFINE e == IF chip = "up" THEN intr_enable ELSE {}
<1>0. TypeOK /\ BootsDisabled /\ IrqInv
  BY DEF IInv
<1>1. /\ pc = "enable" /\ pc' = Work(sync, available) /\ Registers(cause, e)
      /\ UNCHANGED <<chipVars, sync, available, copies, counts, txQueue, history>>
  BY DEF EnableInterrupts
<1>2. cause \in SUBSET Causes /\ e \in SUBSET Causes
  BY <1>0 DEF TypeOK
<1>3. /\ cause' \subseteq Causes /\ enable' = e /\ enable' \subseteq Causes
      /\ registered' \in BOOLEAN /\ notified' \subseteq {"INT", "TX"}
  BY <1>0, <1>1, <1>2, RegistersType
<1>4. pc' \in {"wait", "receive", "transmit"}
  BY <1>1, WorkOutside
<1>5. TypeOK'
  BY <1>0, <1>1, <1>3, <1>4 DEF TypeOK, chipVars, copies, counts
<1>6. history.missed \/ Armed'
  BY <1>0, <1>1, RegistersKeepArmed DEF IrqInv, ArmedInv
<1>7. BootsDisabled'
  BY <1>0, <1>1, <1>3 DEF BootsDisabled, chipVars
<1>8. IrqInv'
  BY <1>1, <1>4, <1>6
     DEF IrqInv, CauseInv, HandlingInv, ArmedInv, Outside
<1>9. QED
  BY <1>5, <1>7, <1>8 DEF IInv
-----------------------------------------------------------------------------
(* The thread receives and transmits. *)

LEMMA StartReceiveKeeps == IInv /\ StartReceive => IInv'
<1> SUFFICES ASSUME IInv, StartReceive PROVE IInv'
  OBVIOUS
<1>0. TypeOK /\ BootsDisabled /\ IrqInv
  BY DEF IInv
<1>1. /\ pc = "receive" /\ pc' = "reading"
      /\ UNCHANGED <<chipVars, irqVars, sync, available, copies, room, txQueue,
                     history>>
  BY DEF StartReceive
<1>2. toRead' \in 0 .. ReadCapacity
  BY <1>0, SpiAssumption DEF StartReceive, TypeOK
<1>3. TypeOK'
  BY <1>0, <1>1, <1>2 DEF TypeOK, chipVars, irqVars, copies
<1>4. BootsDisabled' /\ IrqInv'
  BY <1>0, <1>1, QuietKeeps DEF chipVars, irqVars, Outside
<1>5. QED
  BY <1>3, <1>4 DEF IInv

LEMMA ReadFrameKeeps == IInv /\ ReadFrame => IInv'
<1> SUFFICES ASSUME IInv, ReadFrame PROVE IInv'
  OBVIOUS
<1>0. TypeOK /\ BootsDisabled /\ IrqInv
  BY DEF IInv
<1>1. /\ pc = "reading"
      /\ UNCHANGED <<chip, wrbuf, bootLeft, irqVars, sync, available, pc, copies,
                     room, txQueue, history>>
  BY DEF ReadFrame
<1>2. toRead' \in 0 .. ReadCapacity /\ frames' \in 0 .. ReadCapacity
  BY <1>0, SpiAssumption DEF ReadFrame, TypeOK
<1>3. TypeOK'
  BY <1>0, <1>1, <1>2 DEF TypeOK, irqVars, copies
<1>4. BootsDisabled' /\ IrqInv'
  BY <1>0, <1>1, QuietKeeps DEF irqVars, Outside
<1>5. QED
  BY <1>3, <1>4 DEF IInv

LEMMA RefuseFrameKeeps == IInv /\ RefuseFrame => IInv'
<1> SUFFICES ASSUME IInv, RefuseFrame PROVE IInv'
  OBVIOUS
<1>0. TypeOK /\ BootsDisabled /\ IrqInv
  BY DEF IInv
<1>1. /\ pc = "reading" /\ pc' = "transmit"
      /\ UNCHANGED <<chipVars, irqVars, sync, available, copies, counts, txQueue>>
  BY DEF RefuseFrame
<1>2. history' \in History /\ history'.missed = history.missed
  BY <1>0, SpiAssumption DEF RefuseFrame, TypeOK, History, Use
<1>3. TypeOK'
  BY <1>0, <1>1, <1>2 DEF TypeOK, chipVars, irqVars, copies, counts
<1>4. BootsDisabled' /\ IrqInv'
  BY <1>0, <1>1, <1>2, QuietKeeps DEF chipVars, irqVars, Outside
<1>5. QED
  BY <1>3, <1>4 DEF IInv

LEMMA EndReceiveKeeps == IInv /\ EndReceive => IInv'
<1> SUFFICES ASSUME IInv, EndReceive PROVE IInv'
  OBVIOUS
<1>0. TypeOK /\ BootsDisabled /\ IrqInv
  BY DEF IInv
<1>1. /\ pc = "reading" /\ pc' = "transmit" /\ available' = FALSE
      /\ UNCHANGED <<chipVars, irqVars, sync, copies, counts, txQueue, history>>
  BY DEF EndReceive
<1>2. TypeOK'
  BY <1>0, <1>1 DEF TypeOK, chipVars, irqVars, copies, counts
<1>3. BootsDisabled' /\ IrqInv'
  BY <1>0, <1>1, QuietKeeps DEF chipVars, irqVars, Outside
<1>4. QED
  BY <1>2, <1>3 DEF IInv

LEMMA StartTransmitKeeps == IInv /\ StartTransmit => IInv'
<1> SUFFICES ASSUME IInv, StartTransmit PROVE IInv'
  OBVIOUS
<1>0. TypeOK /\ BootsDisabled /\ IrqInv
  BY DEF IInv
<1>1. /\ pc = "transmit" /\ pc' = "sending"
      /\ UNCHANGED <<chipVars, irqVars, sync, available, copies, toRead, txQueue,
                     history>>
  BY DEF StartTransmit
<1>2. room' \in 0 .. 2
  BY <1>0 DEF StartTransmit, TypeOK
<1>3. TypeOK'
  BY <1>0, <1>1, <1>2 DEF TypeOK, chipVars, irqVars, copies
<1>4. BootsDisabled' /\ IrqInv'
  BY <1>0, <1>1, QuietKeeps DEF chipVars, irqVars, Outside
<1>5. QED
  BY <1>3, <1>4 DEF IInv

LEMMA TransmitFrameKeeps == IInv /\ TransmitFrame => IInv'
<1> SUFFICES ASSUME IInv, TransmitFrame PROVE IInv'
  OBVIOUS
<1>0. TypeOK /\ BootsDisabled /\ IrqInv
  BY DEF IInv
<1>1. /\ pc = "sending"
      /\ UNCHANGED <<chip, frames, bootLeft, irqVars, sync, available, pc,
                     copies, toRead, history>>
  BY DEF TransmitFrame
<1>2. /\ txQueue' \in 0 .. QueueLength /\ room' \in 0 .. 2
      /\ wrbuf' \in 0 .. 2
  BY <1>0, SpiAssumption DEF TransmitFrame, TypeOK
<1>3. TypeOK'
  BY <1>0, <1>1, <1>2 DEF TypeOK, irqVars, copies
<1>4. BootsDisabled' /\ IrqInv'
  BY <1>0, <1>1, QuietKeeps DEF irqVars, Outside
<1>5. QED
  BY <1>3, <1>4 DEF IInv

LEMMA EndTransmitKeeps == IInv /\ EndTransmit => IInv'
<1> SUFFICES ASSUME IInv, EndTransmit PROVE IInv'
  OBVIOUS
<1>0. TypeOK /\ BootsDisabled /\ IrqInv
  BY DEF IInv
<1>1. /\ pc = "sending" /\ pc' \in {"watermark", "wait"}
      /\ UNCHANGED <<chipVars, irqVars, sync, available, copies, counts, txQueue,
                     history>>
  BY DEF EndTransmit
<1>2. TypeOK'
  BY <1>0, <1>1 DEF TypeOK, chipVars, irqVars, copies, counts
<1>3. BootsDisabled' /\ IrqInv'
  BY <1>0, <1>1, QuietKeeps DEF chipVars, irqVars, Outside
<1>4. QED
  BY <1>2, <1>3 DEF IInv

LEMMA EnableWatermarkKeeps == IInv /\ EnableWatermark => IInv'
<1> SUFFICES ASSUME IInv, EnableWatermark PROVE IInv'
  OBVIOUS
<1> DEFINE e == IF chip = "up" THEN WithWatermark ELSE {}
<1>0. TypeOK /\ BootsDisabled /\ IrqInv
  BY DEF IInv
<1>1. /\ pc = "watermark" /\ pc' = "wait" /\ Registers(cause, e)
      /\ UNCHANGED <<chipVars, sync, available, copies, counts, txQueue, history>>
  BY DEF EnableWatermark
<1>2. cause \in SUBSET Causes /\ e \in SUBSET Causes
  BY <1>0 DEF TypeOK, WithWatermark, Causes
<1>3. /\ cause' \subseteq Causes /\ enable' = e /\ enable' \subseteq Causes
      /\ registered' \in BOOLEAN /\ notified' \subseteq {"INT", "TX"}
  BY <1>0, <1>1, <1>2, RegistersType
<1>4. TypeOK'
  BY <1>0, <1>1, <1>3 DEF TypeOK, chipVars, copies, counts
<1>5. Armed => Armed'
  BY <1>0, <1>1, RegistersKeepArmed
<1>6. BootsDisabled'
  BY <1>0, <1>1, <1>3 DEF BootsDisabled, chipVars
<1>7. IrqInv'
  BY <1>0, <1>1, <1>5 DEF IrqInv, CauseInv, HandlingInv, ArmedInv, Outside
<1>8. QED
  BY <1>4, <1>6, <1>7 DEF IInv
-----------------------------------------------------------------------------
LEMMA StutterKeeps == IInv /\ UNCHANGED vars => IInv'
<1> SUFFICES ASSUME IInv, UNCHANGED vars PROVE IInv'
  OBVIOUS
<1>1. TypeOK'
  BY DEF IInv, TypeOK, vars, chipVars, irqVars, threadVars, copies, counts
<1>2. BootsDisabled' /\ IrqInv'
  BY DEF IInv, BootsDisabled, IrqInv, CauseInv, HandlingInv, ArmedInv, Armed,
         Line, vars, chipVars, irqVars, threadVars, copies
<1>3. QED
  BY <1>1, <1>2 DEF IInv

LEMMA NextKeeps == IInv /\ [Next]_vars => IInv'
<1> SUFFICES ASSUME IInv, [Next]_vars PROVE IInv'
  OBVIOUS
<1>1. CASE Chip
  BY <1>1, ChipBootsKeeps, ChipCrashesKeeps, ChipReceivesKeeps,
     ChipReportsErrorKeeps, ChipDrainsKeeps DEF Chip
<1>2. CASE Output
  BY <1>2, OutputKeeps
<1>3. CASE Thread
  BY <1>3, TakeNotificationKeeps, TimeoutWithFramesKeeps, TimeoutKeeps,
     DisableInterruptsKeeps, ReadCauseKeeps, RegisterInterruptKeeps,
     HandleCpuOnKeeps, HandleNoCpuOnKeeps, HandleErrorKeeps, HandlePacketsKeeps,
     AcknowledgeKeeps, EnableInterruptsKeeps, StartReceiveKeeps, ReadFrameKeeps,
     RefuseFrameKeeps, EndReceiveKeeps, StartTransmitKeeps, TransmitFrameKeeps,
     EndTransmitKeeps, EnableWatermarkKeeps
     DEF Thread
<1>4. CASE UNCHANGED vars
  BY <1>4, StutterKeeps
<1>5. QED
  BY <1>1, <1>2, <1>3, <1>4 DEF Next

(***************************************************************************)
(* The inductive invariant of the thread and its interrupt.                *)
(***************************************************************************)
THEOREM ThreadInvariant == Spec => []IInv
  BY InitEstablishes, NextKeeps, PTL DEF Spec

(***************************************************************************)
(* qcaspi_spi_thread never waits for an interrupt that cannot come.        *)
(***************************************************************************)
THEOREM SleepsArmed == Spec => []AsleepMeansArmed
<1>1. IInv => AsleepMeansArmed
  BY DEF IInv, IrqInv, ArmedInv, Armed, Outside, AsleepMeansArmed
<1>2. QED
  BY <1>1, ThreadInvariant, PTL
-----------------------------------------------------------------------------
(***************************************************************************)
(* The bursts of the SPI thread for every number of DMA channels and every *)
(* number of failed transfers.  The thread has all channels to itself, so  *)
(* that a burst always gets the first ones; from then on the invariant     *)
(* counts: what the semaphore holds and what the thread has taken of it    *)
(* are the transfers whose channel has no function left in the dispatcher. *)
(***************************************************************************)
\* The first n channels.
First(n) == {c \in Channel : c < n}

\* How many of a burst's transfers the interrupt has still to report.
Unreported == (IF 0 \in handler THEN 1 ELSE 0) + (IF 1 \in handler THEN 1 ELSE 0)

Quiet == enabled = {} /\ tc = {} /\ err = {} /\ semaphore = 0 /\ errors = 0

IdlePhase == 
    /\ thread = Idle
    /\ Quiet /\ handler = {} /\ ChannelStatus = {} /\ isr = NChannels

AcquirePhase ==
    /\ Len(thread.channels) = thread.done
    /\ Quiet /\ handler = {} /\ ChannelStatus = First(thread.done) /\ isr = NChannels

RegisterPhase ==
    /\ Quiet /\ handler = First(thread.done) /\ isr = NChannels

TransferPhase ==
    /\ enabled = First(thread.done) /\ tc = {} /\ err = {} /\ semaphore = 0 /\ errors = 0
    /\ handler = First(thread.transfers) /\ isr = NChannels

WaitPhase ==
    /\ handler \subseteq First(thread.transfers)
    /\ enabled \cup tc \cup err \subseteq handler
    /\ enabled \cap tc = {} /\ enabled \cap err = {} /\ tc \cap err = {}
    /\ thread.done + semaphore + Unreported = thread.transfers
    /\ errors = 0 => err = {} /\ handler \subseteq enabled \cup tc
    /\ errors > 0 => \E c \in handler : c \notin enabled \cup tc

StopPhase ==
    /\ Quiet /\ handler = {} /\ isr = NChannels
    /\ ChannelStatus = {c \in First(thread.transfers) : c >= thread.done}

Busy ==
    /\ thread.transfers \in {Write, Read}
    /\ thread.done < thread.transfers
    /\ \A i \in 1 .. Len(thread.channels) : thread.channels[i] = i - 1
    /\ thread.step # "acquire" => Len(thread.channels) = thread.transfers
    /\ thread.step \in {"register", "transfer", "wait"} => ChannelStatus = First(thread.transfers)

Phases ==
    /\ thread.step = "idle" => IdlePhase
    /\ thread.step # "idle" => Busy
    /\ thread.step = "acquire" => AcquirePhase
    /\ thread.step = "register" => RegisterPhase
    /\ thread.step = "transfer" => TransferPhase
    /\ thread.step = "wait" => WaitPhase
    /\ thread.step = "stop" => StopPhase

BurstIInv == BurstTypeOK /\ Phases

-----------------------------------------------------------------------------
Steps == {"idle", "acquire", "register", "transfer", "wait", "stop"}
Threads == [step : Steps, transfers : {0, Write, Read}, done : {0, 1}, channels : Seq(Channel)]

LEMMA ChannelsAre ==
  /\ NChannels \in Nat /\ NChannels >= 2 /\ NChannels \notin Channel
  /\ 0 \in Channel /\ 1 \in Channel
  /\ First(0) = {} /\ First(1) = {0} /\ First(2) = {0, 1}
  BY BurstAssumption DEF Channel, First

\* What a step of the thread that is done for one of the transfers leaves.
LEMMA AdvanceIs ==
  ASSUME BurstTypeOK, Busy, NEW next \in Steps
  PROVE  /\ Advance(next) \in Threads
         /\ Advance(next).transfers = thread.transfers
         /\ Advance(next).channels = thread.channels
         /\ thread.done + 1 < thread.transfers =>
              Advance(next).step = thread.step /\ Advance(next).done = thread.done + 1
         /\ ~(thread.done + 1 < thread.transfers) =>
              Advance(next).step = next /\ Advance(next).done = 0
<1>1. thread \in Threads
  BY DEF BurstTypeOK, Threads, Steps
<1>2. thread.done + 1 < thread.transfers => thread.done + 1 \in {0, 1}
  BY <1>1 DEF Busy, Threads, Write, Read
<1> QED
  BY <1>1, <1>2 DEF Advance, Threads

\* A burst's channels are the first ones.
LEMMA ChIs ==
  ASSUME BurstTypeOK, Busy, Len(thread.channels) = thread.transfers
  PROVE  Ch = thread.done /\ Ch \in Channel /\ Ch \in First(thread.transfers)
<1>1. thread.channels \in Seq(Channel) /\ thread.done \in {0, 1} /\ thread.transfers \in {1, 2}
  BY DEF BurstTypeOK, Busy, Write, Read
<1>2. thread.done + 1 \in 1 .. Len(thread.channels)
  BY <1>1 DEF Busy
<1>3. Ch = thread.done
  BY <1>1, <1>2 DEF Ch, Busy
<1> QED
  BY <1>1, <1>3, ChannelsAre DEF Busy, First

LEMMA BurstInitEstablishes == BurstInit => BurstIInv
<1>1. <<>> \in Seq(Channel)
  OBVIOUS
<1> QED
  BY <1>1, BurstAssumption DEF BurstInit, BurstIInv, BurstTypeOK, Phases, IdlePhase, Quiet, Idle, SemaphoreMax

LEMMA BurstKeeps ==
  ASSUME BurstIInv, NEW kind \in {Write, Read}, Burst(kind)
  PROVE  BurstIInv'
<1>1. /\ thread.step = "idle"
      /\ thread' = [Idle EXCEPT !.step = "acquire", !.transfers = kind]
      /\ UNCHANGED <<ChannelStatus, handler, enabled, tc, err, semaphore, isr, errors>>
  BY DEF Burst, Runs, hardware
<1>2. thread' = [step |-> "acquire", transfers |-> kind, done |-> 0, channels |-> <<>>]
  BY <1>1 DEF Idle
<1>3. Quiet /\ handler = {} /\ ChannelStatus = {} /\ isr = NChannels
  BY <1>1 DEF BurstIInv, Phases, IdlePhase
<1>4. <<>> \in Seq(Channel) /\ Len(<<>>) = 0
  OBVIOUS
<1>5. BurstTypeOK'
  <2>1. thread' \in Threads
    BY <1>2, <1>4 DEF Threads, Steps
  <2> QED
    BY <1>1, <2>1 DEF BurstIInv, BurstTypeOK, Threads, Steps
<1>6. Busy'
  BY <1>2 DEF Busy, Write, Read
<1>7. AcquirePhase'
  <2>1. thread'.done = 0 /\ Len(thread'.channels) = 0
    BY <1>2, <1>4
  <2>2. Quiet' /\ handler' = {} /\ ChannelStatus' = First(0) /\ isr' = NChannels
    BY <1>1, <1>3, ChannelsAre DEF Quiet
  <2> QED
    BY <2>1, <2>2 DEF AcquirePhase
<1> QED
  BY <1>2, <1>5, <1>6, <1>7 DEF BurstIInv, Phases

LEMMA GetFreeChannelKeeps ==
  ASSUME BurstIInv, GetFreeChannel
  PROVE  BurstIInv'
<1> DEFINE c == thread.done
<1>1. /\ thread.step = "acquire" /\ Busy /\ AcquirePhase /\ BurstTypeOK
  BY DEF GetFreeChannel, Runs, BurstIInv, Phases
<1>2. thread \in Threads /\ c \in {0, 1} /\ c \in Channel /\ thread.transfers \in {1, 2}
  BY <1>1, ChannelsAre DEF BurstTypeOK, Threads, Steps, Busy, Write, Read
<1>3. c \in Channel \ (ChannelStatus \cup enabled)
      /\ \A d \in Channel \ (ChannelStatus \cup enabled) : c <= d
  BY <1>1, <1>2, ChannelsAre DEF AcquirePhase, Quiet, First, Channel
<1>4. /\ thread' = [Advance("register") EXCEPT !.channels = Append(@, c)]
      /\ ChannelStatus' = ChannelStatus \cup {c}
      /\ UNCHANGED <<handler, enabled, tc, err, semaphore, isr, errors>>
  <2>1. Channel \ (ChannelStatus \cup enabled) # {}
    BY <1>3
  <2>2. PICK e \in Channel \ (ChannelStatus \cup enabled) :
          /\ \A d \in Channel \ (ChannelStatus \cup enabled) : e <= d
          /\ thread' = [Advance("register") EXCEPT !.channels = Append(@, e)]
          /\ Acquire(e)
    BY <2>1 DEF GetFreeChannel
  <2>3. e = c
    BY <1>2, <1>3, <2>2 DEF Channel
  <2> QED
    BY <2>2, <2>3 DEF GetFreeChannel, Acquire, hardware
<1>5. /\ Append(thread.channels, c) \in Seq(Channel)
      /\ Len(Append(thread.channels, c)) = c + 1
      /\ \A i \in 1 .. c + 1 : Append(thread.channels, c)[i] = i - 1
  <2>1. thread.channels \in Seq(Channel) /\ Len(thread.channels) = c
    BY <1>1, <1>2 DEF AcquirePhase, Threads
  <2>2. /\ Append(thread.channels, c) \in Seq(Channel)
        /\ Len(Append(thread.channels, c)) = c + 1
        /\ \A i \in 1 .. c : Append(thread.channels, c)[i] = thread.channels[i]
        /\ Append(thread.channels, c)[c + 1] = c
    BY <1>2, <2>1, AppendProperties
  <2>3. \A i \in 1 .. c + 1 : i \in 1 .. c \/ i = c + 1
    BY <1>2
  <2>4. \A i \in 1 .. c : thread.channels[i] = i - 1
    BY <1>1, <2>1 DEF Busy
  <2> HIDE DEF c
  <2>5. (c + 1) - 1 = c
    BY <1>2
  <2> QED
    BY <2>2, <2>3, <2>4, <2>5
<1>6. "register" \in Steps
  BY DEF Steps
<1>7. /\ thread' \in Threads
      /\ thread'.transfers = thread.transfers
      /\ thread'.channels = Append(thread.channels, c)
      /\ c + 1 < thread.transfers => thread'.step = "acquire" /\ thread'.done = c + 1
      /\ ~(c + 1 < thread.transfers) => thread'.step = "register" /\ thread'.done = 0
  BY <1>1, <1>4, <1>5, <1>6, AdvanceIs DEF Threads
<1>8. BurstTypeOK'
  BY <1>1, <1>2, <1>4, <1>7 DEF BurstTypeOK, Threads, Steps
<1>9. ChannelStatus' = First(c + 1)
  BY <1>1, <1>2, <1>4, ChannelsAre DEF AcquirePhase
<1> HIDE DEF c
<1>10. Busy'
  <2>1. /\ thread.transfers \in {Write, Read} /\ c \in Nat
        /\ thread.done < thread.transfers /\ thread.done = c
    BY <1>1, <1>2 DEF Busy, c
  <2>2. /\ thread'.transfers = thread.transfers
        /\ \A i \in 1 .. Len(thread'.channels) : thread'.channels[i] = i - 1
    BY <1>5, <1>7
  <2>3. CASE c + 1 < thread.transfers
    BY <1>7, <2>1, <2>2, <2>3 DEF Busy
  <2>4. CASE ~(c + 1 < thread.transfers)
    <3>1. /\ thread'.step = "register" /\ thread'.done = 0
          /\ Len(thread'.channels) = c + 1
      BY <1>5, <1>7, <2>4
    <3>2. thread.transfers = c + 1 /\ 0 < thread.transfers
      BY <1>2, <2>1, <2>4
    <3> QED
      BY <1>9, <2>1, <2>2, <3>1, <3>2 DEF Busy
  <2> QED
    BY <2>3, <2>4
<1>11. Quiet' /\ handler' = {} /\ isr' = NChannels
  BY <1>1, <1>4 DEF AcquirePhase, Quiet
<1>12. CASE c + 1 < thread.transfers
  BY <1>5, <1>7, <1>8, <1>9, <1>10, <1>11, <1>12 DEF BurstIInv, Phases, AcquirePhase
<1>13. CASE ~(c + 1 < thread.transfers)
  BY <1>7, <1>8, <1>10, <1>11, <1>13, ChannelsAre DEF BurstIInv, Phases, RegisterPhase
<1> QED
  BY <1>12, <1>13

LEMMA RegisterHandlerKeeps ==
  ASSUME BurstIInv, RegisterHandler
  PROVE  BurstIInv'
<1> DEFINE c == thread.done
<1>1. /\ thread.step = "register" /\ Busy /\ RegisterPhase /\ BurstTypeOK
      /\ Len(thread.channels) = thread.transfers /\ ChannelStatus = First(thread.transfers)
  BY DEF RegisterHandler, Runs, BurstIInv, Phases, Busy
<1>2. thread \in Threads /\ c \in {0, 1} /\ c \in Channel /\ thread.transfers \in {1, 2}
  BY <1>1, ChannelsAre DEF BurstTypeOK, Threads, Steps, Busy, Write, Read
<1>3. /\ handler' = handler \cup {c} /\ thread' = Advance("transfer")
      /\ UNCHANGED <<ChannelStatus, enabled, tc, err, semaphore, isr, errors>>
  BY <1>1, ChIs DEF RegisterHandler, hardware
<1>4. "transfer" \in Steps
  BY DEF Steps
<1>5. /\ thread' \in Threads
      /\ thread'.transfers = thread.transfers
      /\ thread'.channels = thread.channels
      /\ c + 1 < thread.transfers => thread'.step = "register" /\ thread'.done = c + 1
      /\ ~(c + 1 < thread.transfers) => thread'.step = "transfer" /\ thread'.done = 0
  BY <1>1, <1>3, <1>4, AdvanceIs
<1>6. BurstTypeOK'
  BY <1>1, <1>2, <1>3, <1>5 DEF BurstTypeOK, Threads, Steps
<1>7. handler' = First(c + 1)
  BY <1>1, <1>2, <1>3, ChannelsAre DEF RegisterPhase
<1>8. Quiet' /\ isr' = NChannels
  BY <1>1, <1>3 DEF RegisterPhase, Quiet
<1>9. Busy'
  BY <1>1, <1>2, <1>3, <1>5 DEF Busy
<1> HIDE DEF c
<1>10. CASE c + 1 < thread.transfers
  BY <1>5, <1>6, <1>7, <1>8, <1>9, <1>10 DEF BurstIInv, Phases, RegisterPhase
<1>11. CASE ~(c + 1 < thread.transfers)
  <2>1. thread.transfers = c + 1
    BY <1>1, <1>2, <1>11 DEF Busy, c
  <2> QED
    BY <1>5, <1>6, <1>7, <1>8, <1>9, <1>11, <2>1, ChannelsAre
       DEF BurstIInv, Phases, TransferPhase, Quiet
<1> QED
  BY <1>10, <1>11

\* The burst is counted in full when the thread begins to wait.
LEMMA TransferKeeps ==
  ASSUME BurstIInv, Transfer
  PROVE  BurstIInv'
<1> DEFINE c == thread.done
<1>1. /\ thread.step = "transfer" /\ Busy /\ TransferPhase /\ BurstTypeOK
      /\ Len(thread.channels) = thread.transfers /\ ChannelStatus = First(thread.transfers)
  BY DEF Transfer, Runs, BurstIInv, Phases, Busy
<1>2. thread \in Threads /\ c \in {0, 1} /\ c \in Channel /\ thread.transfers \in {1, 2}
  BY <1>1, ChannelsAre DEF BurstTypeOK, Threads, Steps, Busy, Write, Read
<1>3. c \notin enabled
  BY <1>1, <1>2 DEF TransferPhase, First
<1>4. /\ enabled' = enabled \cup {c} /\ tc' = tc \ {c} /\ err' = err \ {c}
      /\ thread' = Advance("wait")
      /\ UNCHANGED <<ChannelStatus, handler, semaphore, isr, errors>>
  BY <1>1, <1>3, ChIs DEF Transfer
<1>5. "wait" \in Steps
  BY DEF Steps
<1>6. /\ thread' \in Threads
      /\ thread'.transfers = thread.transfers
      /\ thread'.channels = thread.channels
      /\ c + 1 < thread.transfers => thread'.step = "transfer" /\ thread'.done = c + 1
      /\ ~(c + 1 < thread.transfers) => thread'.step = "wait" /\ thread'.done = 0
  BY <1>1, <1>4, <1>5, AdvanceIs
<1>7. BurstTypeOK'
  BY <1>1, <1>2, <1>4, <1>6 DEF BurstTypeOK, Threads, Steps
<1>8. /\ enabled' = First(c + 1) /\ tc' = {} /\ err' = {}
      /\ semaphore' = 0 /\ errors' = 0 /\ isr' = NChannels
      /\ handler' = First(thread.transfers)
  BY <1>1, <1>2, <1>4, ChannelsAre DEF TransferPhase
<1>9. Busy'
  BY <1>1, <1>2, <1>4, <1>6 DEF Busy
<1> HIDE DEF c
<1>10. CASE c + 1 < thread.transfers
  BY <1>6, <1>7, <1>8, <1>9, <1>10 DEF BurstIInv, Phases, TransferPhase
<1>11. CASE ~(c + 1 < thread.transfers)
  <2>1. thread.transfers = c + 1
    BY <1>1, <1>2, <1>11 DEF Busy, c
  <2>2. Unreported' = thread.transfers
    BY <1>2, <1>8, ChannelsAre DEF Unreported
  <2>3. WaitPhase'
    BY <1>2, <1>6, <1>8, <1>11, <2>1, <2>2 DEF WaitPhase
  <2> QED
    BY <1>6, <1>7, <1>9, <1>11, <2>3 DEF BurstIInv, Phases
<1> QED
  BY <1>10, <1>11

(***************************************************************************)
(* The last count is there only when every transfer has been reported, and *)
(* so none is under way or has failed.                                     *)
(***************************************************************************)
LEMMA TakeKeeps ==
  ASSUME BurstIInv, Take
  PROVE  BurstIInv'
<1> DEFINE c == thread.done
<1>1. /\ thread.step = "wait" /\ Busy /\ WaitPhase /\ BurstTypeOK
      /\ ChannelStatus = First(thread.transfers) /\ isr = NChannels
  BY DEF Take, Runs, BurstIInv, Phases, Busy
<1>2. /\ thread \in Threads /\ c \in {0, 1} /\ thread.transfers \in {1, 2}
      /\ semaphore \in 0 .. 2 /\ errors \in Nat
  BY <1>1 DEF BurstTypeOK, Threads, Steps, Busy, Write, Read, SemaphoreMax
<1>3. /\ semaphore > 0 /\ semaphore' = semaphore - 1 /\ thread' = Advance("stop")
      /\ UNCHANGED <<ChannelStatus, handler, enabled, tc, err, isr, errors>>
  BY DEF Take, Awaited, hardware
<1>4. "stop" \in Steps
  BY DEF Steps
<1>5. /\ thread' \in Threads
      /\ thread'.transfers = thread.transfers
      /\ thread'.channels = thread.channels
      /\ c + 1 < thread.transfers => thread'.step = "wait" /\ thread'.done = c + 1
      /\ ~(c + 1 < thread.transfers) => thread'.step = "stop" /\ thread'.done = 0
  BY <1>1, <1>3, <1>4, AdvanceIs
<1>6. BurstTypeOK'
  BY <1>1, <1>2, <1>3, <1>5 DEF BurstTypeOK, Threads, Steps, SemaphoreMax
<1>7. Busy'
  BY <1>1, <1>2, <1>3, <1>5 DEF Busy
<1>8. Unreported \in 0 .. 2 /\ Unreported' = Unreported
      /\ thread.done + semaphore + Unreported = thread.transfers
  BY <1>1, <1>3 DEF Unreported, WaitPhase
<1> HIDE DEF c
<1>9. CASE c + 1 < thread.transfers
  <2>1. thread'.done + semaphore' + Unreported' = thread'.transfers
    BY <1>2, <1>3, <1>5, <1>8, <1>9 DEF c
  <2>2. WaitPhase'
    BY <1>1, <1>3, <1>5, <1>9, <2>1 DEF WaitPhase
  <2> QED
    BY <1>5, <1>6, <1>7, <1>9, <2>2 DEF BurstIInv, Phases
<1>10. CASE ~(c + 1 < thread.transfers)
  <2>1. Unreported = 0 /\ semaphore' = 0
    BY <1>2, <1>3, <1>8, <1>10 DEF c
  <2>2. handler = {}
    <3>1. 0 \notin handler /\ 1 \notin handler
      BY <2>1 DEF Unreported
    <3>2. handler \subseteq {0, 1}
      BY <1>1, <1>2, ChannelsAre DEF WaitPhase
    <3> QED
      BY <3>1, <3>2
  <2>3. Quiet'
    BY <1>1, <1>2, <1>3, <2>1, <2>2 DEF WaitPhase, Quiet
  <2>4. ChannelStatus' = {d \in First(thread'.transfers) : d >= thread'.done}
    BY <1>1, <1>3, <1>5, <1>10 DEF First, Channel
  <2>5. StopPhase'
    BY <1>1, <1>3, <2>2, <2>3, <2>4 DEF StopPhase
  <2> QED
    BY <1>5, <1>6, <1>7, <1>10, <2>5 DEF BurstIInv, Phases
<1> QED
  BY <1>9, <1>10

LEMMA StopKeeps ==
  ASSUME BurstIInv, Stop
  PROVE  BurstIInv'
<1> DEFINE c == thread.done
<1>1. /\ thread.step = "stop" /\ Busy /\ StopPhase /\ BurstTypeOK
      /\ Len(thread.channels) = thread.transfers
  BY DEF Stop, Runs, BurstIInv, Phases, Busy
<1>2. thread \in Threads /\ c \in {0, 1} /\ c \in Channel /\ thread.transfers \in {1, 2}
  BY <1>1, ChannelsAre DEF BurstTypeOK, Threads, Steps, Busy, Write, Read
<1>3. /\ enabled' = enabled \ {c} /\ tc' = tc \ {c} /\ err' = err \ {c}
      /\ ChannelStatus' = ChannelStatus \ {c}
      /\ thread' = IF Advance("idle").step = "idle" THEN Idle ELSE Advance("idle")
      /\ UNCHANGED <<handler, semaphore, isr, errors>>
  BY <1>1, ChIs DEF Stop
<1>4. "idle" \in Steps
  BY DEF Steps
<1>5. /\ Advance("idle") \in Threads
      /\ Advance("idle").transfers = thread.transfers
      /\ Advance("idle").channels = thread.channels
      /\ c + 1 < thread.transfers =>
           Advance("idle").step = "stop" /\ Advance("idle").done = c + 1
      /\ ~(c + 1 < thread.transfers) => Advance("idle").step = "idle"
  BY <1>1, <1>4, AdvanceIs
<1>6. Idle \in Threads /\ Idle.step = "idle"
  <2>1. <<>> \in Seq(Channel)
    OBVIOUS
  <2> QED
    BY <2>1 DEF Idle, Threads, Steps
<1>7. Quiet' /\ handler' = {} /\ isr' = NChannels
  BY <1>1, <1>3 DEF StopPhase, Quiet
<1>8. ChannelStatus' = {d \in First(thread.transfers) : d >= c + 1}
  BY <1>1, <1>2, <1>3, ChannelsAre DEF StopPhase
<1> HIDE DEF c
<1>9. CASE c + 1 < thread.transfers
  <2>1. thread' = Advance("idle")
    BY <1>3, <1>5, <1>9
  <2>2. BurstTypeOK'
    BY <1>1, <1>3, <1>5, <2>1 DEF BurstTypeOK, Threads, Steps
  <2>3. Busy' /\ thread'.step = "stop"
    BY <1>1, <1>2, <1>5, <1>9, <2>1 DEF Busy
  <2>4. StopPhase'
    BY <1>5, <1>7, <1>8, <1>9, <2>1 DEF StopPhase
  <2> QED
    BY <2>2, <2>3, <2>4 DEF BurstIInv, Phases
<1>10. CASE ~(c + 1 < thread.transfers)
  <2>1. thread' = Idle /\ thread'.step = "idle"
    BY <1>3, <1>5, <1>6, <1>10
  <2>2. BurstTypeOK'
    BY <1>1, <1>3, <1>6, <2>1 DEF BurstTypeOK, Threads, Steps
  <2>3. ChannelStatus' = {}
    BY <1>2, <1>8, <1>10, ChannelsAre
  <2>4. IdlePhase'
    BY <1>7, <2>1, <2>3 DEF IdlePhase
  <2> QED
    BY <2>1, <2>2, <2>4 DEF BurstIInv, Phases
<1> QED
  BY <1>9, <1>10

LEMMA EndOfTransferKeeps ==
  ASSUME BurstIInv, NEW c \in Channel, Finish(c) \/ Fail(c)
  PROVE  BurstIInv'
<1>1. /\ thread.step = "wait" /\ c \in enabled
      /\ enabled' = enabled \ {c}
      /\ UNCHANGED <<thread, ChannelStatus, handler, semaphore, isr>>
      /\ \/ tc' = tc \cup {c} /\ UNCHANGED <<err, errors>>
         \/ err' = err \cup {c} /\ UNCHANGED tc /\ errors' = errors + 1
  BY DEF Finish, Fail, Works
<1>2. BurstTypeOK /\ Busy /\ WaitPhase /\ errors \in Nat
  BY <1>1 DEF BurstIInv, Phases, BurstTypeOK
<1>3. BurstTypeOK'
  BY <1>1, <1>2 DEF BurstTypeOK
<1>4. Busy' /\ Unreported' = Unreported
  BY <1>1, <1>2 DEF Busy, Unreported
<1>5. WaitPhase'
  BY <1>1, <1>2, <1>4 DEF WaitPhase
<1> QED
  BY <1>1, <1>3, <1>4, <1>5 DEF BurstIInv, Phases

\* The interrupt has nothing to look at unless the thread waits.
LEMMA InterruptKeeps ==
  ASSUME BurstIInv, Interrupt
  PROVE  BurstIInv'
<1>1. /\ handler # {} /\ tc \cup err # {} /\ isr' = 0
      /\ UNCHANGED <<thread, ChannelStatus, handler, enabled, tc, err, semaphore, errors>>
  BY DEF Interrupt, hardware
<1>2. BurstTypeOK /\ thread.step \in Steps
  BY DEF BurstIInv, BurstTypeOK, Steps
<1>3. thread.step = "wait"
  BY <1>1, <1>2 DEF BurstIInv, Phases, IdlePhase, AcquirePhase, RegisterPhase, TransferPhase,
                    StopPhase, Quiet, Steps
<1>4. BurstTypeOK'
  BY <1>1, <1>2, BurstAssumption DEF BurstTypeOK
<1>5. Busy' /\ WaitPhase'
  BY <1>1, <1>3 DEF BurstIInv, Phases, Busy, WaitPhase, Unreported
<1> QED
  BY <1>1, <1>3, <1>4, <1>5 DEF BurstIInv, Phases

(***************************************************************************)
(* The semaphore has room for every report: its maximum is the number of   *)
(* transfers of the longest burst.                                         *)
(***************************************************************************)
LEMMA DispatchKeeps ==
  ASSUME BurstIInv, Dispatch
  PROVE  BurstIInv'
<1>1. /\ isr \in Channel /\ isr' = isr + 1
      /\ UNCHANGED <<thread, ChannelStatus, enabled, errors>>
  BY DEF Dispatch
<1>2. BurstTypeOK /\ thread.step \in Steps
  BY DEF BurstIInv, BurstTypeOK, Steps
<1>3. thread.step = "wait"
  BY <1>1, <1>2, ChannelsAre DEF BurstIInv, Phases, IdlePhase, AcquirePhase, RegisterPhase,
                    TransferPhase, StopPhase, Steps
<1>4. Busy /\ WaitPhase
  BY <1>3 DEF BurstIInv, Phases
<1>5. /\ thread.done \in {0, 1} /\ thread.transfers \in {1, 2} /\ semaphore \in 0 .. 2
      /\ errors \in Nat
  BY <1>2, <1>4 DEF BurstTypeOK, Busy, Write, Read, SemaphoreMax
<1>6. isr' \in 0 .. NChannels
  BY <1>1, BurstAssumption DEF Channel
<1>7. Busy'
  BY <1>1, <1>4 DEF Busy
<1>8. CASE isr \in handler /\ isr \in tc
  <2>1. /\ tc' = tc \ {isr} /\ handler' = handler \ {isr} /\ err' = err
        /\ semaphore' = IF semaphore < 2 THEN semaphore + 1 ELSE semaphore
    BY <1>8 DEF Dispatch, Unregister, SemaphoreMax
  <2>2. isr = 0 \/ isr = 1
    BY <1>4, <1>5, <1>8, ChannelsAre DEF WaitPhase
  <2>3. Unreported' = Unreported - 1 /\ Unreported \in 1 .. 2
    BY <1>8, <2>1, <2>2 DEF Unreported
  <2>4. semaphore' = semaphore + 1 /\ semaphore' \in 0 .. 2
    BY <1>4, <1>5, <2>1, <2>3 DEF WaitPhase
  <2>5. BurstTypeOK'
    BY <1>1, <1>2, <1>6, <2>1, <2>4 DEF BurstTypeOK, SemaphoreMax
  <2>6. thread'.done + semaphore' + Unreported' = thread'.transfers
    BY <1>1, <1>4, <1>5, <2>3, <2>4 DEF WaitPhase
  <2>7. WaitPhase'
    BY <1>1, <1>4, <1>8, <2>1, <2>6 DEF WaitPhase
  <2> QED
    BY <1>1, <1>3, <1>7, <2>5, <2>7 DEF BurstIInv, Phases
<1>9. CASE ~(isr \in handler /\ isr \in tc)
  <2>1. /\ err' = IF isr \in handler THEN err \ {isr} ELSE err
        /\ UNCHANGED <<tc, semaphore, handler>>
    BY <1>9 DEF Dispatch
  <2>2. BurstTypeOK'
    BY <1>1, <1>2, <1>6, <2>1 DEF BurstTypeOK
  <2>3. WaitPhase'
    BY <1>1, <1>4, <2>1 DEF WaitPhase, Unreported
  <2> QED
    BY <1>1, <1>3, <1>7, <2>2, <2>3 DEF BurstIInv, Phases
<1> QED
  BY <1>8, <1>9

LEMMA BurstNextKeeps == BurstIInv /\ [BurstNext]_burstVars => BurstIInv'
<1>1. SUFFICES ASSUME BurstIInv, [BurstNext]_burstVars PROVE BurstIInv'
  OBVIOUS
<1>2. CASE \E kind \in {Write, Read} : Burst(kind)
  BY <1>1, <1>2, BurstKeeps
<1>3. CASE GetFreeChannel \/ RegisterHandler \/ Transfer \/ Take \/ Stop
  BY <1>1, <1>3, GetFreeChannelKeeps, RegisterHandlerKeeps, TransferKeeps, TakeKeeps, StopKeeps
<1>4. CASE \E c \in Channel : Finish(c) \/ Fail(c)
  BY <1>1, <1>4, EndOfTransferKeeps
<1>5. CASE Interrupt \/ Dispatch
  BY <1>1, <1>5, InterruptKeeps, DispatchKeeps
<1>6. CASE UNCHANGED burstVars
  BY <1>1, <1>6 DEF BurstIInv, BurstTypeOK, Phases, IdlePhase, AcquirePhase, RegisterPhase,
                    TransferPhase, WaitPhase, StopPhase, Busy, Quiet, Unreported, burstVars, hardware
<1> QED
  BY <1>1, <1>2, <1>3, <1>4, <1>5, <1>6 DEF BurstNext

-----------------------------------------------------------------------------
(***************************************************************************)
(* The phases of a burst and the count of its transfers are an invariant,  *)
(* whenever the interrupt comes.                                           *)
(***************************************************************************)
THEOREM BurstInvariant == BurstSpec => []BurstIInv
  BY BurstInitEstablishes, BurstNextKeeps, PTL DEF BurstSpec

(***************************************************************************)
(* The SPI thread's registers, the DMA's channels and the semaphore keep   *)
(* their ranges.                                                           *)
(***************************************************************************)
THEOREM BurstTypeCorrect == BurstSpec => []BurstTypeOK
<1>1. BurstIInv => BurstTypeOK
  BY DEF BurstIInv
<1> QED
  BY <1>1, BurstInvariant, PTL

(***************************************************************************)
(* A burst that goes on has all its data and leaves no channel, handler,   *)
(* pending interrupt or count to the next one, for every number of         *)
(* channels and of failed transfers.                                       *)
(***************************************************************************)
THEOREM BurstLeavesNothing == BurstSpec => []NothingLeftOver
<1>1. BurstIInv => NothingLeftOver
  BY DEF BurstIInv, Phases, IdlePhase, StopPhase, Quiet, NothingLeftOver
<1> QED
  BY <1>1, BurstInvariant, PTL
=============================================================================
