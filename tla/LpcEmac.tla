------------------------------- MODULE LpcEmac -------------------------------
(***************************************************************************)
(* The Ethernet driver (LPC1758/NetworkInterface.c): the ring of transmit  *)
(* descriptors, which two tasks fill, the DMA empties and the EMAC task    *)
(* cleans up; the received frames; the interrupt; and the link, which the  *)
(* EMAC task polls when nothing else wakes it.                             *)
(*                                                                         *)
(* The EMAC task and the SPI thread of the other interface, which bridges  *)
(* frames into this one, have the same priority and no time slice: one     *)
(* runs until it blocks.  The IP task, one below, runs when neither can.   *)
(* An interrupt runs at once.  What the pool and the bridge do with a      *)
(* frame is the matter of other modules; here a frame is one step.         *)
(***************************************************************************)
EXTENDS Integers, FiniteSets

CONSTANTS TxDescriptors, \* ipconfigNUM_TX_DESCRIPTORS, 4
          RxDescriptors, \* ipconfigNUM_RX_DESCRIPTORS, 4
          MaxReceived,   \* bound on the frames received
          MaxFlaps,      \* bound on the changes of the link
          ip, spi        \* the IP task and the SPI thread

ASSUME EmacAssumption ==
  /\ TxDescriptors \in Nat \ {0, 1} /\ RxDescriptors \in Nat \ {0, 1}
  /\ MaxReceived \in Nat /\ MaxFlaps \in Nat
  /\ ip # spi /\ "none" \notin {ip, spi}

Caller == {ip, spi}
Index  == 0 .. TxDescriptors - 1

VARIABLES
  slot,       \* each transmit descriptor: "empty", "queued" or "sent"
  ulTxProduceIndex, ulTxConsumeIndex, \* the indices of the hardware
  ulTxCleanupIndex,
  xTXDescriptorSemaphore, xTXMutex,
  pc,         \* where each caller is
  cpu,        \* who runs at the drivers' priority: "emac", "spi" or "nobody"
  emac,       \* where the EMAC task is
  value,      \* what it has been notified of, until its last use
  ulConsumeIndex, \* the consume index it has read, until its last use
  status,     \* the interrupt status register
  irq,        \* what the interrupt handler has read of it
  notified,   \* the notification bits of the EMAC task
  unread,     \* the received frames in the ring
  received,   \* the frames received so far
  enabled,    \* whether the interface sends, receives and interrupts
  link, flaps, \* the cable, and how often it has changed
  physts,     \* the link state of the last poll
  connected,  \* ulPHYLinkStatus
  downEvent,  \* an eNetworkDownEvent for the IP task
  bInterfaceUp \* whether it was ever initialised with a link

ring     == <<slot, ulTxProduceIndex, ulTxConsumeIndex, ulTxCleanupIndex>>
locks    == <<xTXDescriptorSemaphore, xTXMutex>>
emacTask == <<emac, value, ulConsumeIndex>>
irqVars  == <<status, irq, notified>>
rx       == <<unread, received>>
phy      == <<link, flaps, physts, connected, downEvent, bInterfaceUp>>
vars     == <<ring, locks, pc, cpu, emacTask, irqVars, rx, enabled, phy>>

\* Mutant: the semaphore counts one descriptor more than there are.
MutInitialCount == TxDescriptors + 1

InitialCount == TxDescriptors

Init ==
  /\ slot = [i \in Index |-> "empty"]
  /\ ulTxProduceIndex = 0 /\ ulTxConsumeIndex = 0 /\ ulTxCleanupIndex = 0
  /\ xTXDescriptorSemaphore = InitialCount /\ xTXMutex = "none"
  /\ pc = [c \in Caller |-> "idle"] /\ cpu = "nobody"
  /\ emac = "wait" /\ value = {} /\ ulConsumeIndex = 0
  /\ status = {} /\ irq = {} /\ notified = {}
  /\ unread = 0 /\ received = 0
  /\ link \in BOOLEAN /\ flaps = 0
  /\ physts = link /\ connected = link /\ enabled = link
  /\ downEvent = FALSE /\ bInterfaceUp = link

Following(i) == (i + 1) % TxDescriptors

TxFull == ulTxConsumeIndex = Following(ulTxProduceIndex)
-----------------------------------------------------------------------------
(* The hardware. *)

TxSent ==
  /\ enabled /\ ulTxConsumeIndex # ulTxProduceIndex
  /\ slot' = [slot EXCEPT ![ulTxConsumeIndex] = "sent"]
  /\ ulTxConsumeIndex' = Following(ulTxConsumeIndex)
  /\ status' = status \union {"TXDONE"}
  /\ UNCHANGED <<ulTxProduceIndex, ulTxCleanupIndex, locks, pc, cpu, emacTask,
                 irq, notified, rx, enabled, phy>>

RxArrives ==
  /\ enabled /\ link /\ unread < RxDescriptors - 1
  /\ received < MaxReceived
  /\ unread' = unread + 1 /\ received' = received + 1
  /\ status' = status \union {"RXDONE"}
  /\ UNCHANGED <<ring, locks, pc, cpu, emacTask, irq, notified, enabled, phy>>

LinkChanges ==
  /\ flaps < MaxFlaps
  /\ link' = ~link /\ flaps' = flaps + 1
  /\ UNCHANGED <<ring, locks, pc, cpu, emacTask, irqVars, rx, enabled, physts,
                 connected, downEvent, bInterfaceUp>>

(***************************************************************************)
(* NETWORK_IRQHandler reads the status, notifies the EMAC task and clears  *)
(* the bits it has read; the hardware may set one again in between.        *)
(***************************************************************************)
IrqPending == enabled /\ status # {}

IrqNotifies ==
  /\ irq = {} /\ IrqPending
  /\ irq' = status
  /\ notified' = notified \union status
  /\ UNCHANGED <<ring, locks, pc, cpu, emacTask, status, rx, enabled, phy>>

IrqClears ==
  /\ irq # {}
  /\ status' = status \ irq
  /\ irq' = {}
  /\ UNCHANGED <<ring, locks, pc, cpu, emacTask, notified, rx, enabled, phy>>
-----------------------------------------------------------------------------
(***************************************************************************)
(* The scheduler.  A task runs when no interrupt does; the SPI thread      *)
(* runs, for as long as it pleases, when the EMAC task has nothing to do.  *)
(* The IP task inherits the priority of an SPI thread that waits for it.   *)
(***************************************************************************)
NoIrq == irq = {} /\ ~IrqPending

EmacIdle == emac = "delay" \/ (emac = "wait" /\ notified = {})

Inherits == xTXMutex = ip /\ pc[spi] = "lock"

Runs(c) ==
  /\ NoIrq
  /\ IF c = spi THEN cpu = "spi"
                ELSE cpu = "nobody" /\ (EmacIdle \/ Inherits)

Goto(c, place) == pc' = [pc EXCEPT ![c] = place]

Blocked(c) == \/ pc[c] = "take" /\ xTXDescriptorSemaphore = 0
              \/ pc[c] = "lock" /\ xTXMutex # "none"

SpiRuns ==
  /\ NoIrq /\ cpu = "nobody" /\ EmacIdle /\ ~Blocked(spi)
  /\ cpu' = "spi"
  /\ UNCHANGED <<ring, locks, pc, emacTask, irqVars, rx, enabled, phy>>

(***************************************************************************)
(* The SPI thread blocks in the output or, after it, on the next transfer  *)
(* from its chip.                                                          *)
(***************************************************************************)
SpiBlocks ==
  /\ NoIrq /\ cpu = "spi"
  /\ pc[spi] \in {"idle", "done"} \/ Blocked(spi)
  /\ cpu' = "nobody"
  /\ pc' = [pc EXCEPT ![spi] = IF @ = "done" THEN "idle" ELSE @]
  /\ UNCHANGED <<ring, locks, emacTask, irqVars, rx, enabled, phy>>
-----------------------------------------------------------------------------
(* xLPC1758_NetworkInterfaceOutput.  Without a link it changes nothing. *)

End(c) == Goto(c, IF c = spi THEN "done" ELSE "idle")

StartOutput(c) ==
  /\ Runs(c) /\ pc[c] = "idle" /\ connected
  /\ Goto(c, "take")
  /\ UNCHANGED <<ring, locks, cpu, emacTask, irqVars, rx, enabled, phy>>

Available == xTXDescriptorSemaphore > 0

TakeSemaphore(c) ==
  /\ Runs(c) /\ pc[c] = "take" /\ Available
  /\ xTXDescriptorSemaphore' = xTXDescriptorSemaphore - 1
  /\ Goto(c, "check")
  /\ UNCHANGED <<ring, xTXMutex, cpu, emacTask, irqVars, rx, enabled, phy>>

\* Mutant: a caller that does not get the mutex keeps the semaphore.
MutGivenBack(c) == 0

GivenBack(c) == IF pc[c] = "lock" THEN 1 ELSE 0

(***************************************************************************)
(* A wait of 250 ms is over.  Without the mutex, the semaphore is given    *)
(* back.                                                                   *)
(***************************************************************************)
TimeOut(c) ==
  /\ NoIrq /\ cpu = "nobody" /\ EmacIdle
  /\ Blocked(c)
  /\ xTXDescriptorSemaphore' = xTXDescriptorSemaphore + GivenBack(c)
  /\ End(c)
  /\ cpu' = IF c = spi THEN "spi" ELSE cpu
  /\ UNCHANGED <<ring, xTXMutex, emacTask, irqVars, rx, enabled, phy>>

(***************************************************************************)
(* configASSERT( !Chip_ENET_IsTxFull() ): a task that fails it never       *)
(* leaves vAssertCalled again.                                             *)
(***************************************************************************)
Check(c) ==
  /\ Runs(c) /\ pc[c] = "check"
  /\ Goto(c, IF TxFull THEN "asserted" ELSE "lock")
  /\ UNCHANGED <<ring, locks, cpu, emacTask, irqVars, rx, enabled, phy>>

Lock(c) ==
  /\ Runs(c) /\ pc[c] = "lock" /\ xTXMutex = "none"
  /\ xTXMutex' = c
  /\ Goto(c, "produce")
  /\ UNCHANGED <<ring, xTXDescriptorSemaphore, cpu, emacTask, irqVars, rx,
                 enabled, phy>>

(***************************************************************************)
(* The descriptor is filled and handed over to the DMA, which sees nothing *)
(* of it before the index moves.                                           *)
(***************************************************************************)
Produce(c) ==
  /\ Runs(c) /\ pc[c] = "produce"
  /\ slot' = [slot EXCEPT ![ulTxProduceIndex] = "queued"]
  /\ ulTxProduceIndex' = Following(ulTxProduceIndex)
  /\ Goto(c, "unlock")
  /\ UNCHANGED <<ulTxConsumeIndex, ulTxCleanupIndex, locks, cpu, emacTask,
                 irqVars, rx, enabled, phy>>

Unlock(c) ==
  /\ Runs(c) /\ pc[c] = "unlock"
  /\ xTXMutex' = "none"
  /\ End(c)
  /\ UNCHANGED <<ring, xTXDescriptorSemaphore, cpu, emacTask, irqVars, rx,
                 enabled, phy>>

OutputStep(c) ==
  \/ TakeSemaphore(c) \/ TimeOut(c) \/ Check(c) \/ Lock(c)
  \/ Produce(c) \/ Unlock(c)
-----------------------------------------------------------------------------
(* The EMAC task. *)

EmacGoto(place) ==
  /\ emac' = place
  /\ cpu' = IF place \in {"wait", "delay"} THEN "nobody" ELSE "emac"

\* Mutant: the cleanup comes after an "else".
MutCleansAfter(taken) == taken = {"TXDONE"}

CleansAfter(taken) == "TXDONE" \in taken

AfterReceive(taken) == IF CleansAfter(taken) THEN "cleanup" ELSE "wait"

TakeNotification ==
  /\ NoIrq /\ cpu = "nobody"
  /\ emac = "wait" /\ notified # {}
  /\ notified' = {}
  /\ IF "RXDONE" \in notified
       THEN EmacGoto("receive") /\ value' = notified
       ELSE EmacGoto(AfterReceive(notified)) /\ UNCHANGED value
  /\ UNCHANGED <<ring, locks, pc, ulConsumeIndex, status, irq, rx, enabled,
                 phy>>

(***************************************************************************)
(* One frame; if it is one to be processed, there must be a link.          *)
(***************************************************************************)
ReceiveFrame ==
  /\ NoIrq /\ emac = "receive" /\ unread > 0
  /\ unread' = unread - 1
  /\ connected' \in {connected, TRUE}
  /\ UNCHANGED <<ring, locks, pc, cpu, emacTask, irqVars, received, enabled,
                 link, flaps, physts, downEvent, bInterfaceUp>>

RxEmpty == unread = 0

EndReceive ==
  /\ NoIrq /\ emac = "receive" /\ RxEmpty
  /\ EmacGoto(AfterReceive(value))
  /\ value' = {}
  /\ UNCHANGED <<ring, locks, pc, ulConsumeIndex, irqVars, rx, enabled, phy>>

\* Mutant: everything that was produced is cleaned up.
MutCleanUpTo == ulTxProduceIndex

CleanUpTo == ulTxConsumeIndex

StartCleanup ==
  /\ NoIrq /\ emac = "cleanup"
  /\ ulConsumeIndex' = CleanUpTo
  /\ EmacGoto("clean")
  /\ UNCHANGED <<ring, locks, pc, value, irqVars, rx, enabled, phy>>

Clean ==
  /\ NoIrq /\ emac = "clean" /\ ulTxCleanupIndex # ulConsumeIndex
  /\ slot' = [slot EXCEPT ![ulTxCleanupIndex] = "empty"]
  /\ xTXDescriptorSemaphore' = xTXDescriptorSemaphore + 1
  /\ ulTxCleanupIndex' = Following(ulTxCleanupIndex)
  /\ UNCHANGED <<ulTxProduceIndex, ulTxConsumeIndex, xTXMutex, pc, cpu,
                 emacTask, irqVars, rx, enabled, phy>>

EndCleanup ==
  /\ NoIrq /\ emac = "clean" /\ ulTxCleanupIndex = ulConsumeIndex
  /\ EmacGoto("wait")
  /\ ulConsumeIndex' = 0
  /\ UNCHANGED <<ring, locks, pc, value, irqVars, rx, enabled, phy>>

\* Mutant: only a lost link counts as a change.
MutChanged(old, new) == old /\ ~new

Changed(old, new) == old # new

(***************************************************************************)
(* The wait times out: the link is polled, and the IP task is told of a    *)
(* change; without a link, 50 ms later.                                    *)
(***************************************************************************)
PollLink ==
  /\ NoIrq /\ cpu = "nobody" /\ emac = "wait" /\ notified = {}
  /\ physts' = link /\ connected' = link
  /\ IF link
       THEN /\ downEvent' = (downEvent \/ Changed(physts, link))
            /\ EmacGoto("wait") /\ UNCHANGED value
       ELSE /\ value' = IF Changed(physts, link) THEN {"CHANGED"} ELSE {}
            /\ EmacGoto("delay") /\ UNCHANGED downEvent
  /\ UNCHANGED <<ring, locks, pc, ulConsumeIndex, irqVars, rx, enabled, link,
                 flaps, bInterfaceUp>>

EndDelay ==
  /\ NoIrq /\ cpu = "nobody" /\ emac = "delay"
  /\ downEvent' = (downEvent \/ value # {})
  /\ value' = {}
  /\ EmacGoto("wait")
  /\ UNCHANGED <<ring, locks, pc, ulConsumeIndex, irqVars, rx, enabled,
                 link, flaps, physts, connected, bInterfaceUp>>

EmacTask == \/ TakeNotification \/ ReceiveFrame \/ EndReceive
            \/ StartCleanup \/ Clean \/ EndCleanup \/ EndDelay
-----------------------------------------------------------------------------
(* xLPC1758_NetworkInterfaceInitialise, when it is called again. *)

Disable ==
  /\ Runs(ip) /\ pc[ip] = "idle" /\ downEvent
  /\ downEvent' = FALSE
  /\ enabled' = FALSE
  /\ Goto(ip, "initialise")
  /\ UNCHANGED <<ring, locks, cpu, emacTask, irqVars, rx, link, flaps, physts,
                 connected, bInterfaceUp>>

Enable ==
  /\ Runs(ip) /\ pc[ip] = "initialise"
  /\ enabled' = connected
  /\ bInterfaceUp' = (bInterfaceUp \/ connected)
  /\ Goto(ip, "idle")
  /\ UNCHANGED <<ring, locks, cpu, emacTask, irqVars, rx, link, flaps, physts,
                 connected, downEvent>>

\* prvCheckNetworkTimers: the IP task tries again if it never had a link.
NetworkTimer ==
  /\ Runs(ip) /\ pc[ip] = "idle" /\ ~bInterfaceUp
  /\ downEvent' = TRUE
  /\ UNCHANGED <<ring, locks, pc, cpu, emacTask, irqVars, rx, enabled, link,
                 flaps, physts, connected, bInterfaceUp>>

Initialise == Disable \/ Enable

Irq     == IrqNotifies \/ IrqClears
SpiTask == OutputStep(spi) \/ SpiBlocks
IpTask  == OutputStep(ip) \/ Initialise

Next == \/ TxSent \/ RxArrives \/ LinkChanges
        \/ Irq \/ SpiRuns \/ SpiTask \/ IpTask \/ NetworkTimer
        \/ \E c \in Caller : StartOutput(c)
        \/ EmacTask \/ PollLink

(***************************************************************************)
(* The hardware sends, interrupts are taken, tasks that can run do, and    *)
(* the network is silent for PHY_LS_HIGH_CHECK_TIME_MS again and again:    *)
(* the EMAC task polls the link at no other time.  The IP task, whose      *)
(* events are handled in their order, comes to the event of the link.      *)
(***************************************************************************)
Fairness ==
  /\ WF_vars(TxSent) /\ WF_vars(Irq)
  /\ SF_vars(EmacTask) /\ SF_vars(PollLink)
  /\ SF_vars(SpiTask) /\ SF_vars(IpTask) /\ SF_vars(Initialise)

Spec == Init /\ [][Next]_vars /\ Fairness
-----------------------------------------------------------------------------
TypeOK ==
  /\ slot \in [Index -> {"empty", "queued", "sent"}]
  /\ ulTxProduceIndex \in Index /\ ulTxConsumeIndex \in Index
  /\ ulTxCleanupIndex \in Index /\ ulConsumeIndex \in Index
  /\ xTXDescriptorSemaphore \in 0 .. TxDescriptors
  /\ xTXMutex \in Caller \union {"none"}
  /\ pc \in [Caller -> {"idle", "take", "check", "asserted", "lock", "produce",
                        "unlock", "done", "initialise"}]
  /\ cpu \in {"nobody", "spi", "emac"}
  /\ emac \in {"wait", "receive", "cleanup", "clean", "delay"}
  /\ value \subseteq {"RXDONE", "TXDONE", "CHANGED"}
  /\ status \subseteq {"RXDONE", "TXDONE"} /\ irq \subseteq {"RXDONE", "TXDONE"}
  /\ notified \subseteq {"RXDONE", "TXDONE"}
  /\ unread \in 0 .. RxDescriptors - 1 /\ received \in 0 .. MaxReceived
  /\ flaps \in 0 .. MaxFlaps
  /\ {enabled, link, physts, connected, downEvent, bInterfaceUp} \subseteq BOOLEAN

Asserted == \E c \in Caller : pc[c] = "asserted"

(***************************************************************************)
(* "The DMA descriptor will 'own' this Network Buffer, until it has been   *)
(* sent": no caller writes over a descriptor that still has a buffer.      *)
(***************************************************************************)
DescriptorIsFree ==
  \A c \in Caller : pc[c] = "produce" => slot[ulTxProduceIndex] = "empty"

(***************************************************************************)
(* The buffer of a frame that has yet to be sent is never released: the    *)
(* descriptors between the consume and the produce index are all queued.   *)
(***************************************************************************)
UnsentIsKept ==
  \A i \in Index :
    (i - ulTxConsumeIndex) % TxDescriptors
        < (ulTxProduceIndex - ulTxConsumeIndex) % TxDescriptors
      => slot[i] = "queued"

(***************************************************************************)
(* All descriptors were filled before one was cleaned up: the indices are  *)
(* equal as if there were nothing to send and nothing to clean.            *)
(***************************************************************************)
Lapped == /\ ulTxCleanupIndex = ulTxConsumeIndex
          /\ ulTxConsumeIndex = ulTxProduceIndex
          /\ slot[ulTxCleanupIndex] # "empty"

(***************************************************************************)
(* The EMAC task never goes to sleep over an interrupt: while it waits     *)
(* with none pending, every received frame has been handled and every sent *)
(* one cleaned up, no matter how the DMA, the handler and the task's look  *)
(* at the index interleave.  The one way out: a lapped ring.               *)
(***************************************************************************)
NothingForgotten ==
  emac = "wait" /\ notified = {} /\ irq = {} /\ status = {} =>
    /\ unread = 0
    /\ Lapped \/ \A i \in Index : slot[i] # "sent"

(***************************************************************************)
(* "PHY link changed, notify IP Task": a link that stays up ends with an   *)
(* enabled interface, and one that stays down with an output that refuses  *)
(* frames, whatever the received frames have said of it in between.        *)
(***************************************************************************)
LinkIsFollowed ==
  <>[](Asserted \/ (connected = link /\ (link => enabled)))

(***************************************************************************)
(* "Tell the counting semaphore that one more TX descriptor is available": *)
(* with everything sent and nothing to be done, all descriptors are        *)
(* available again, unless the ring was lapped: the semaphore counts every *)
(* descriptor, and the check for a full ring comes before the mutex.       *)
(***************************************************************************)
Resting == /\ NoIrq /\ cpu = "nobody" /\ emac = "wait" /\ notified = {}
           /\ \A c \in Caller : pc[c] \in {"idle", "take"}
           /\ ulTxConsumeIndex = ulTxProduceIndex

AllAvailableAtRest ==
  enabled /\ Resting => Lapped \/ xTXDescriptorSemaphore = TxDescriptors
==============================================================================
