------------------------------ MODULE PacketPath ------------------------------
(***************************************************************************)
(* The way of a network buffer through the device: from a driver's receive *)
(* side over the bridge (xBridge_Process) to another interface's output    *)
(* function, to the IP task's event queue, and back.  The buffers are not  *)
(* copied: whoever has one passes it on, keeps it or releases it, and what *)
(* an output function does with it depends on the interface.               *)
(*                                                                         *)
(* Four tasks run this code: the EMAC task and the SPI thread, which       *)
(* receive, the IP task, and the tasks that use sockets.  They interleave  *)
(* at every step here, which is more than the priorities allow.  A wait of *)
(* 250 ms ends in one of its two ways: what it waits for, or the timeout   *)
(* while that has not come.  The forwarding table is in ForwardingTable,   *)
(* the descriptor rings are in LpcEmac, and the chip's in QcaTransmit:     *)
(* here an address may be known on any interface, and a ring has places.   *)
(***************************************************************************)
EXTENDS Naturals, Sequences, FiniteSets

CONSTANTS
    Buffer,         \* the network buffers
    None,           \* NULL
    RxDescriptors,  \* ipconfigNUM_RX_DESCRIPTORS
    TxDescriptors,  \* ipconfigNUM_TX_DESCRIPTORS
    QueueLength,    \* of the SPI thread's queue: as many as there are buffers
    EventQueueLength \* ipconfigEVENT_QUEUE_LENGTH

Interface == {"bridge", "eth", "plc"}

ASSUME PathAssumption ==
    /\ IsFiniteSet(Buffer) /\ None \notin Buffer \cup Interface
    /\ RxDescriptors \in Nat \ {0} /\ TxDescriptors \in Nat \ {0}
    /\ QueueLength \in Nat /\ QueueLength >= Cardinality(Buffer)
    /\ EventQueueLength \in Nat \ {0}

VARIABLES
    free,           \* the pool
    pxInterface,    \* of each buffer: the interface it came by, or None
    from,           \* where the frame in it entered the bridge; None: no frame
    ring,           \* the EMAC's receive descriptors
    rx_desc,        \* the SPI thread's receive buffer, or None
    txQueue,        \* what the SPI thread is to send
    txRing,         \* what the EMAC is to send
    sent,           \* what it has sent and the EMAC task has not cleaned up
    xNetworkEventQueue,
    sockets,        \* the buffers sockets keep: received data, delayed acknowledges
    job,            \* of each task: what it is doing with which buffer
    link            \* PHY_LINK_CONNECTED

pool == <<free, pxInterface, from>>
queues == <<txQueue, txRing, sent, xNetworkEventQueue>>
vars == <<pool, ring, rx_desc, queues, sockets, job, link>>

Task == {"emac", "spi", "ip", "user"}

Job(step, b) == [step |-> step, buffer |-> b, copy |-> None, sendTo |-> None, copyTo |-> None]
Idle == Job("idle", None)

\* The job goes on, with or without a copy of its buffer.
GoOn(j, step, copy) ==
    [step |-> step, buffer |-> j.buffer, copy |-> copy, sendTo |-> j.sendTo, copyTo |-> j.copyTo]

Rx(b) == [type |-> "rx", buffer |-> b]
StackTx(b) == [type |-> "stacktx", buffer |-> b]
NetworkDown == [type |-> "down", buffer |-> None]

\* vReleaseNetworkBufferAndDescriptor; the pool clears pxInterface when it gives
\* the buffer out again.
Release(b) ==
    /\ free' = free \cup {b}
    /\ pxInterface' = [pxInterface EXCEPT ![b] = None]
    /\ from' = [from EXCEPT ![b] = None]

-----------------------------------------------------------------------------
(* The bridge *)

Flooded(iface, isBroadcast) ==
    {i \in Interface \ {iface} : (isBroadcast \/ i # "bridge") /\ (i = "eth" => link)}

\* Where xBridge_Process may decide to send a frame: the interface the address is
\* known on, or those it floods.
Decisions(iface) ==
    {{i} : i \in Interface \ {iface}} \cup {{}} \cup {Flooded(iface, c) : c \in BOOLEAN}

\* FreeRTOS_AddNetworkInterface is called in this order.
First(to) == IF "bridge" \in to THEN "bridge" ELSE IF "eth" \in to THEN "eth" ELSE "plc"

\* The first interface gets the buffer itself, and the other one, if there is
\* one, gets a copy before.
Bridged(b, to) ==
    LET others == to \ {First(to)} IN
    [step |-> IF others # {} THEN "copy" ELSE "output", buffer |-> b, copy |-> None,
     sendTo |-> First(to), copyTo |-> IF others # {} THEN First(others) ELSE None]

\* pxDuplicateNetworkBufferWithDescriptor does not wait for a buffer.
Duplicate(t) ==
    /\ job[t].step = "copy"
    /\ \/ \E d \in free :
            /\ free' = free \ {d}
            /\ pxInterface' = [pxInterface EXCEPT ![d] = pxInterface[job[t].buffer]]
            /\ from' = [from EXCEPT ![d] = from[job[t].buffer]]
            /\ job' = [job EXCEPT ![t] = GoOn(@, "copied", d)]
       \/ /\ free = {}
          /\ job' = [job EXCEPT ![t] = GoOn(@, "output", None)]
          /\ UNCHANGED pool
    /\ UNCHANGED <<ring, rx_desc, queues, sockets, link>>

-----------------------------------------------------------------------------
(* The output functions; xBridge_Process does not look at what they return *)

\* What a task outputs now, where to, and what it does then.
Outputs(t, iface, b) ==
    \/ job[t].step = "copied" /\ iface = job[t].copyTo /\ b = job[t].copy
    \/ job[t].step = "output" /\ iface = job[t].sendTo /\ b = job[t].buffer

AfterOutput(t) ==
    job' = [job EXCEPT ![t] =
        IF @.step = "copied" THEN GoOn(@, "output", None) ELSE Idle]

\* xQCA7000_NetworkInterfaceOutput.  A full queue refuses the buffer, and nobody
\* releases it.
\* Mutant: the queue is one shorter than the pool.
MutOutputPlc(t, b) ==
    /\ Outputs(t, "plc", b)
    /\ txQueue' = IF Len(txQueue) + 1 < QueueLength THEN Append(txQueue, b) ELSE txQueue
    /\ AfterOutput(t)
    /\ UNCHANGED <<pool, ring, rx_desc, txRing, sent, xNetworkEventQueue, sockets, link>>

OutputPlc(t, b) ==
    /\ Outputs(t, "plc", b)
    /\ txQueue' = IF Len(txQueue) < QueueLength THEN Append(txQueue, b) ELSE txQueue
    /\ AfterOutput(t)
    /\ UNCHANGED <<pool, ring, rx_desc, txRing, sent, xNetworkEventQueue, sockets, link>>

Place == Len(txRing) + Cardinality(sent) < TxDescriptors

\* xLPC1758_NetworkInterfaceOutput, without a place until the timeout.
OutputEth(t, b) ==
    /\ Outputs(t, "eth", b)
    /\ IF link /\ Place
       THEN txRing' = Append(txRing, b) /\ UNCHANGED pool
       ELSE Release(b) /\ UNCHANGED txRing
    /\ AfterOutput(t)
    /\ UNCHANGED <<ring, rx_desc, txQueue, sent, xNetworkEventQueue, sockets, link>>

\* xBridge_NetworkInterfaceOutput, of a frame that the bridge sends to the device.
\* Mutant: the wait for a place in the event queue has no timeout.
MutOutputDevice(t, b) ==
    /\ Outputs(t, "bridge", b)
    /\ pxInterface[b] # None
    /\ Len(xNetworkEventQueue) < EventQueueLength
    /\ xNetworkEventQueue' = Append(xNetworkEventQueue, Rx(b))
    /\ pxInterface' = [pxInterface EXCEPT ![b] = "bridge"]
    /\ UNCHANGED <<free, from>>
    /\ AfterOutput(t)
    /\ UNCHANGED <<ring, rx_desc, txQueue, txRing, sent, sockets, link>>

OutputDevice(t, b) ==
    /\ Outputs(t, "bridge", b)
    /\ pxInterface[b] # None
    /\ IF Len(xNetworkEventQueue) < EventQueueLength
       THEN /\ xNetworkEventQueue' = Append(xNetworkEventQueue, Rx(b))
            /\ pxInterface' = [pxInterface EXCEPT ![b] = "bridge"]
            /\ UNCHANGED <<free, from>>
       ELSE Release(b) /\ UNCHANGED xNetworkEventQueue
    /\ AfterOutput(t)
    /\ UNCHANGED <<ring, rx_desc, txQueue, txRing, sent, sockets, link>>

\* xBridge_NetworkInterfaceOutput, of a frame that the device sends.
OutputFromDevice(t, b) ==
    /\ Outputs(t, "bridge", b)
    /\ pxInterface[b] = None
    /\ \E to \in Decisions("bridge") :
        IF to = {}
        THEN Release(b) /\ job' = [job EXCEPT ![t] = Idle]
        ELSE /\ pxInterface' = [pxInterface EXCEPT ![b] = "bridge"]
             /\ job' = [job EXCEPT ![t] = Bridged(b, to)]
             /\ UNCHANGED <<free, from>>
    /\ UNCHANGED <<ring, rx_desc, queues, sockets, link>>

Output(t) ==
    \E b \in Buffer : OutputPlc(t, b) \/ OutputEth(t, b) \/ OutputDevice(t, b) \/ OutputFromDevice(t, b)

-----------------------------------------------------------------------------
(* The EMAC task *)

\* prvSetupRxDescriptors
SetupRxDescriptor(b) ==
    /\ Cardinality(ring) < RxDescriptors
    /\ b \in free
    /\ free' = free \ {b}
    /\ ring' = ring \cup {b}
    /\ UNCHANGED <<pxInterface, from, rx_desc, queues, sockets, job, link>>

\* A frame is in the ring, so the link is up; a new buffer takes its place.  The
\* drivers count the free buffers before they allocate one, and other tasks may
\* take some in between, so that any number may be free here.
EmacReceive(b) ==
    /\ job["emac"] = Idle
    /\ Cardinality(ring) = RxDescriptors
    /\ b \in ring
    /\ \E new \in free :
        /\ ring' = (ring \ {b}) \cup {new}
        /\ free' = free \ {new}
    /\ \E to \in Decisions("eth") :
        job' = [job EXCEPT !["emac"] = IF to = {} THEN Job("drop", b) ELSE Bridged(b, to)]
    /\ pxInterface' = [pxInterface EXCEPT ![b] = "eth"]
    /\ from' = [from EXCEPT ![b] = "eth"]
    /\ link' = TRUE
    /\ UNCHANGED <<rx_desc, queues, sockets>>

\* The bridge has not passed the frame on.
Drop(b) ==
    /\ job["emac"] = Job("drop", b)
    /\ Release(b)
    /\ job' = [job EXCEPT !["emac"] = Idle]
    /\ UNCHANGED <<ring, rx_desc, queues, sockets, link>>

\* Without a new buffer the frame is dropped in its place.
EmacLoses ==
    /\ job["emac"] = Idle
    /\ Cardinality(ring) = RxDescriptors
    /\ link' = TRUE
    /\ UNCHANGED <<pool, ring, rx_desc, queues, sockets, job>>

CleanUp(b) ==
    /\ job["emac"] = Idle
    /\ b \in sent
    /\ sent' = sent \ {b}
    /\ Release(b)
    /\ UNCHANGED <<ring, rx_desc, txQueue, txRing, xNetworkEventQueue, sockets, job, link>>

\* prvUpdatePHYLinkStatus finds a change: the IP task is told, however long it takes.
LinkChanges ==
    /\ job["emac"] = Idle
    /\ link' = ~link
    /\ job' = [job EXCEPT !["emac"] = Job("down", None)]
    /\ UNCHANGED <<pool, ring, rx_desc, queues, sockets>>

SendDown ==
    /\ job["emac"].step = "down"
    /\ Len(xNetworkEventQueue) < EventQueueLength
    /\ xNetworkEventQueue' = Append(xNetworkEventQueue, NetworkDown)
    /\ job' = [job EXCEPT !["emac"] = Idle]
    /\ UNCHANGED <<pool, ring, rx_desc, txQueue, txRing, sent, sockets, link>>

\* The Ethernet's DMA.
Transmit ==
    /\ txRing # <<>>
    /\ txRing' = Tail(txRing)
    /\ sent' = sent \cup {Head(txRing)}
    /\ UNCHANGED <<pool, ring, rx_desc, txQueue, xNetworkEventQueue, sockets, job, link>>

-----------------------------------------------------------------------------
(* The SPI thread *)

AllocateRxDesc(b) ==
    /\ job["spi"] = Idle
    /\ rx_desc = None
    /\ b \in free
    /\ free' = free \ {b}
    /\ rx_desc' = b
    /\ UNCHANGED <<pxInterface, from, ring, queues, sockets, job, link>>

\* A frame is complete in rx_desc.  The thread goes on to use the buffer when the
\* bridge does not pass it on.
SpiReceive ==
    /\ job["spi"] = Idle
    /\ rx_desc # None
    /\ \E to \in Decisions("plc") \ {{}} :
        /\ rx_desc' = None
        /\ from' = [from EXCEPT ![rx_desc] = "plc"]
        /\ pxInterface' = [pxInterface EXCEPT ![rx_desc] = "plc"]
        /\ job' = [job EXCEPT !["spi"] = Bridged(rx_desc, to)]
    /\ UNCHANGED <<free, ring, queues, sockets, link>>

\* qcaspi_transmit, or qcaspi_flush_txq.
SpiTransmit ==
    /\ job["spi"] = Idle
    /\ txQueue # <<>>
    /\ txQueue' = Tail(txQueue)
    /\ Release(Head(txQueue))
    /\ UNCHANGED <<ring, rx_desc, txRing, sent, xNetworkEventQueue, sockets, job, link>>

-----------------------------------------------------------------------------
(* The IP task and the users of sockets *)

TakeEvent ==
    /\ job["ip"] = Idle
    /\ xNetworkEventQueue # <<>>
    /\ LET event == Head(xNetworkEventQueue) IN
        job' = [job EXCEPT !["ip"] = IF event.type = "down" THEN Idle ELSE Job(event.type, event.buffer)]
    /\ xNetworkEventQueue' = Tail(xNetworkEventQueue)
    /\ UNCHANGED <<pool, ring, rx_desc, txQueue, txRing, sent, sockets, link>>

\* An output function of the stack: the frame is the device's.
Send(b) ==
    /\ from' = [from EXCEPT ![b] = "bridge"]
    /\ job' = [job EXCEPT !["ip"] = [step |-> "output", buffer |-> b, copy |-> None,
                                     sendTo |-> "bridge", copyTo |-> None]]

\* Mutant: without the line marked _TM_ (FreeRTOS_IP.c:2132).
MutWithoutInterface(b) == UNCHANGED pxInterface
WithoutInterface(b) == pxInterface' = [pxInterface EXCEPT ![b] = None]

\* prvProcessEthernetPacket: the buffer is released, kept by a socket, or carries
\* the answer.
ProcessEthernetPacket(b) ==
    /\ job["ip"] = Job("rx", b)
    /\ \/ /\ Release(b)
          /\ job' = [job EXCEPT !["ip"] = Idle]
          /\ UNCHANGED sockets
       \/ /\ WithoutInterface(b)
          /\ sockets' = sockets \cup {b}
          /\ from' = [from EXCEPT ![b] = "bridge"]
          /\ job' = [job EXCEPT !["ip"] = Idle]
          /\ UNCHANGED free
       \/ /\ WithoutInterface(b)
          /\ Send(b)
          /\ UNCHANGED <<free, sockets>>
    /\ UNCHANGED <<ring, rx_desc, queues, link>>

\* vProcessGeneratedUDPPacket: the packet is sent, or dropped.
ProcessGeneratedUDPPacket(b) ==
    /\ job["ip"] = Job("stacktx", b)
    /\ \/ Send(b) /\ UNCHANGED <<free, pxInterface>>
       \/ Release(b) /\ job' = [job EXCEPT !["ip"] = Idle]
    /\ UNCHANGED <<ring, rx_desc, queues, sockets, link>>

\* What timers make the stack send: from the pool, or a delayed acknowledge.
SendOwn(b) ==
    /\ job["ip"] = Idle
    /\ b \in free \cup sockets
    /\ free' = free \ {b}
    /\ sockets' = sockets \ {b}
    /\ Send(b)
    /\ UNCHANGED <<pxInterface, ring, rx_desc, queues, link>>

\* FreeRTOS_recvfrom, or the end of a socket.
Read(b) ==
    /\ b \in sockets
    /\ sockets' = sockets \ {b}
    /\ Release(b)
    /\ UNCHANGED <<ring, rx_desc, queues, job, link>>

\* FreeRTOS_sendto, which releases the buffer when the wait times out.
SendTo(b) ==
    /\ job["user"] = Idle
    /\ b \in free
    /\ free' = free \ {b}
    /\ from' = [from EXCEPT ![b] = "bridge"]
    /\ job' = [job EXCEPT !["user"] = Job("sendto", b)]
    /\ UNCHANGED <<pxInterface, ring, rx_desc, queues, sockets, link>>

FinishSendTo(b) ==
    /\ job["user"] = Job("sendto", b)
    /\ IF Len(xNetworkEventQueue) < EventQueueLength
       THEN /\ xNetworkEventQueue' = Append(xNetworkEventQueue, StackTx(b))
            /\ UNCHANGED pool
       ELSE Release(b) /\ UNCHANGED xNetworkEventQueue
    /\ job' = [job EXCEPT !["user"] = Idle]
    /\ UNCHANGED <<ring, rx_desc, txQueue, txRing, sent, sockets, link>>

-----------------------------------------------------------------------------
Init ==
    /\ free = Buffer
    /\ pxInterface = [b \in Buffer |-> None]
    /\ from = [b \in Buffer |-> None]
    /\ ring = {} /\ rx_desc = None
    /\ txQueue = <<>> /\ txRing = <<>> /\ sent = {} /\ xNetworkEventQueue = <<>>
    /\ sockets = {}
    /\ job = [t \in Task |-> Idle]
    /\ link = TRUE

IpStep(b) == ProcessEthernetPacket(b) \/ ProcessGeneratedUDPPacket(b)

Next ==
    \/ \E t \in Task : Duplicate(t) \/ Output(t)
    \/ EmacLoses \/ LinkChanges \/ SendDown \/ Transmit
    \/ SpiReceive \/ SpiTransmit
    \/ TakeEvent
    \/ \E b \in Buffer :
        \/ SetupRxDescriptor(b) \/ EmacReceive(b) \/ Drop(b) \/ CleanUp(b)
        \/ AllocateRxDesc(b)
        \/ IpStep(b) \/ SendOwn(b)
        \/ Read(b) \/ SendTo(b) \/ FinishSendTo(b)

\* No task stops in the middle of a job, the Ethernet sends, and sockets are read.
\* A driver that goes on receiving comes to its transmit side again and again
\* (NetworkInterface.c:766, qca_spi.c:720), and the IP task to its queue.
Fairness ==
    /\ \A t \in Task : WF_vars(Duplicate(t) \/ Output(t))
    /\ \A b \in Buffer : WF_vars(Drop(b)) /\ WF_vars(IpStep(b)) /\ WF_vars(FinishSendTo(b)) /\ WF_vars(Read(b))
    /\ WF_vars(Transmit)
    /\ SF_vars(\E b \in Buffer : CleanUp(b))
    /\ SF_vars(SpiTransmit)
    /\ SF_vars(TakeEvent)
    /\ SF_vars(SendDown)

Spec == Init /\ [][Next]_vars /\ Fairness

-----------------------------------------------------------------------------
InSeq(s) == {s[i] : i \in DOMAIN s}
InEvents == {e.buffer : e \in InSeq(xNetworkEventQueue)} \ {None}
InJob(t) == {job[t].buffer, job[t].copy} \ {None}

TypeOK ==
    /\ free \subseteq Buffer /\ ring \subseteq Buffer /\ sent \subseteq Buffer /\ sockets \subseteq Buffer
    /\ rx_desc \in Buffer \cup {None}
    /\ pxInterface \in [Buffer -> Interface \cup {None}]
    /\ from \in [Buffer -> Interface \cup {None}]
    /\ txQueue \in Seq(Buffer) /\ txRing \in Seq(Buffer)
    /\ Len(txRing) + Cardinality(sent) <= TxDescriptors
    /\ Len(xNetworkEventQueue) <= EventQueueLength
    /\ \A e \in InSeq(xNetworkEventQueue) :
        e \in [type : {"rx", "stacktx"}, buffer : Buffer] \cup {NetworkDown}
    /\ job \in [Task -> [step : {"idle", "copy", "copied", "output", "drop", "down", "rx", "stacktx", "sendto"},
                         buffer : Buffer \cup {None}, copy : Buffer \cup {None},
                         sendTo : Interface \cup {None}, copyTo : Interface \cup {None}]]
    /\ link \in BOOLEAN

\* Who has which buffer.
Holder == Task \cup {"sockets", "txQueue", "txRing", "events"}
Held == [emac |-> ring \cup InJob("emac"),
         spi |-> ({rx_desc} \ {None}) \cup InJob("spi"),
         ip |-> InJob("ip"), user |-> InJob("user"),
         sockets |-> sockets,
         txQueue |-> InSeq(txQueue), txRing |-> InSeq(txRing) \cup sent, events |-> InEvents]

Pool == INSTANCE BufferPool WITH Holder <- Holder, held <- Held

\* Every step of every task passes at most one buffer on, to one holder, or
\* back to the pool: none is lost and none has two holders, although the bridge
\* ignores what the output functions return (FreeRTOS_Bridge.c:289, 304) and the
\* SPI thread's queue would lose what it refuses (QCA7000/NetworkInterface.c:192).
PoolSpec == Pool!Spec

\* A frame does not leave by the interface it came by, nor does the device get
\* its own: an output function tells the device's frames from others by
\* pxInterface, which the buffer brings from its former use (Bridge/NetworkInterface.c:121).
NeverSentBack ==
    /\ \A b \in InSeq(txRing) \cup sent : from[b] # "eth"
    /\ \A b \in InSeq(txQueue) : from[b] # "plc"
    /\ \A e \in InSeq(xNetworkEventQueue) : e.type = "rx" => from[e.buffer] # "bridge"

\* Every frame leaves: the EMAC task, which alone frees places in its ring, may
\* wait for the event queue while the IP task waits for such a place
\* (Bridge/NetworkInterface.c:127, LPC1758/NetworkInterface.c:531).
FramesLeave == \A b \in Buffer : (from[b] # None) ~> (from[b] = None)
=============================================================================
