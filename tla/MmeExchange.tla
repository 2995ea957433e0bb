----------------------------- MODULE MmeExchange -----------------------------
(***************************************************************************)
(* How the IP task asks the PLC chip for its address while it brings the   *)
(* interface up (xQCA7000_NetworkInterfaceInitialise, mme_handler.c), and  *)
(* what the SPI thread does with the answer: who holds which network       *)
(* buffer, and what is in it.                                              *)
(*                                                                         *)
(* The SPI thread has a higher priority than the IP task and may run       *)
(* between any two of its steps.  All other users of the pool (the bridge, *)
(* the Ethernet driver, the sockets) are one more holder, "elsewhere".     *)
(***************************************************************************)
EXTENDS Integers, Sequences, FiniteSets

CONSTANTS Buffer,       \* the network buffers
          Null,
          MinRemaining, \* uxMinimumBuffersRemaining, 2
          Retries,      \* xRetries, 5
          MaxAnswers    \* bound on the answers of the chip that are under way

ASSUME ExchangeAssumption ==
  /\ IsFiniteSet(Buffer) /\ Null \notin Buffer
  /\ MinRemaining \in Nat /\ Retries \in Nat \ {0} /\ MaxAnswers \in Nat

VARIABLES
  free,          \* the pool
  elsewhere,     \* the buffers of all other users
  txQueue,       \* what the SPI thread is to send
  xMMEQueue,     \* at most one answer, for the IP task
  usExpectedMME, \* whether an answer is expected
  rx_desc,       \* the buffer the SPI thread receives into
  rxPlace,       \* "header", or "complete" with a whole frame in rx_desc
  pxDescriptor,  \* the IP task's buffer
  ipPc,            \* where the IP task is
  xRetries,
  content,       \* what is in each buffer
  xMACAddress,   \* where the endpoint's address was taken from
  answers        \* the answers that are under way to the driver

pool   == <<free, elsewhere>>
spi    == <<rx_desc, rxPlace>>
ipTask == <<pxDescriptor, ipPc, xRetries, xMACAddress>>
mmeVars   == <<pool, txQueue, xMMEQueue, usExpectedMME, spi, ipTask, content,
            answers>>

Frame == {"request", "answer", "other"}

MmeInit ==
  /\ free = Buffer /\ elsewhere = {}
  /\ txQueue = <<>> /\ xMMEQueue = <<>> /\ usExpectedMME = FALSE
  /\ rx_desc = Null /\ rxPlace = "header"
  /\ pxDescriptor = Null /\ ipPc = "loop" /\ xRetries = Retries
  /\ content = [b \in Buffer |-> "other"]
  /\ xMACAddress = "none" /\ answers = 0
-----------------------------------------------------------------------------
(* The IP task, from "while( xRetries-- > 0 )" on. *)

Goto(place) == ipPc' = place

\* Mutant: the count is never decremented.
MutNextRetry(n) == n

NextRetry(n) == n - 1

Loop ==
  /\ ipPc = "loop"
  /\ xRetries' = NextRetry(xRetries)
  /\ Goto(IF xRetries > 0 THEN "create" ELSE "done")
  /\ UNCHANGED <<pool, txQueue, xMMEQueue, usExpectedMME, spi, pxDescriptor,
                 xMACAddress, content, answers>>

(***************************************************************************)
(* qcaspi_create_get_sw_version_mme, with or without a buffer to be had.   *)
(***************************************************************************)
Create(b) ==
  /\ ipPc = "create" /\ b \in free
  /\ free' = free \ {b}
  /\ pxDescriptor' = b
  /\ content' = [content EXCEPT ![b] = "request"]
  /\ Goto("expect")
  /\ UNCHANGED <<elsewhere, txQueue, xMMEQueue, usExpectedMME, spi, xRetries,
                 xMACAddress, answers>>

CreateFails ==
  /\ ipPc = "create" /\ free = {}
  /\ Goto("loop")
  /\ UNCHANGED <<pool, txQueue, xMMEQueue, usExpectedMME, spi, pxDescriptor,
                 xRetries, xMACAddress, content, answers>>

Expect ==
  /\ ipPc = "expect"
  /\ usExpectedMME' = TRUE
  /\ Goto("output")
  /\ UNCHANGED <<pool, txQueue, xMMEQueue, spi, pxDescriptor, xRetries,
                 xMACAddress, content, answers>>

Output ==
  /\ ipPc = "output"
  /\ txQueue' = Append(txQueue, pxDescriptor)
  /\ pxDescriptor' = Null
  /\ Goto("wait")
  /\ UNCHANGED <<pool, xMMEQueue, usExpectedMME, spi, xRetries, xMACAddress,
                 content, answers>>

TakeAnswer ==
  /\ ipPc = "wait" /\ xMMEQueue # <<>>
  /\ pxDescriptor' = Head(xMMEQueue) /\ xMMEQueue' = Tail(xMMEQueue)
  /\ Goto("cleanup")
  /\ UNCHANGED <<pool, txQueue, usExpectedMME, spi, xRetries, xMACAddress,
                 content, answers>>

TimeOut ==
  /\ ipPc = "wait" /\ xMMEQueue = <<>>
  /\ Goto("cleanup")
  /\ UNCHANGED <<pool, txQueue, xMMEQueue, usExpectedMME, spi, pxDescriptor,
                 xRetries, xMACAddress, content, answers>>

CleanUp ==
  /\ ipPc = "cleanup"
  /\ usExpectedMME' = FALSE
  /\ Goto(IF pxDescriptor = Null THEN "loop" ELSE "copy")
  /\ UNCHANGED <<pool, txQueue, xMMEQueue, spi, pxDescriptor, xRetries,
                 xMACAddress, content, answers>>

CopyMac ==
  /\ ipPc = "copy"
  /\ xMACAddress' = content[pxDescriptor]
  /\ Goto("release")
  /\ UNCHANGED <<pool, txQueue, xMMEQueue, usExpectedMME, spi, pxDescriptor,
                 xRetries, content, answers>>

ReleaseAnswer ==
  /\ ipPc = "release"
  /\ free' = free \union {pxDescriptor}
  /\ pxDescriptor' = Null /\ xRetries' = 0
  /\ Goto("loop")
  /\ UNCHANGED <<elsewhere, txQueue, xMMEQueue, usExpectedMME, spi,
                 xMACAddress, content, answers>>

Initialise ==
  \/ Loop \/ CreateFails \/ (\E b \in Buffer : Create(b))
  \/ Expect \/ Output \/ TakeAnswer \/ TimeOut \/ CleanUp
  \/ CopyMac \/ ReleaseAnswer
-----------------------------------------------------------------------------
(* The SPI thread. *)

(***************************************************************************)
(* qcaspi_transmit, or qcaspi_flush_txq when the chip is out of sync; the  *)
(* chip may answer a request once, late, or not at all.                    *)
(***************************************************************************)
SendFrame ==
  /\ txQueue # <<>>
  /\ free' = free \union {Head(txQueue)}
  /\ txQueue' = Tail(txQueue)
  /\ \/ UNCHANGED answers
     \/ /\ content[Head(txQueue)] = "request" /\ answers < MaxAnswers
        /\ answers' = answers + 1
  /\ UNCHANGED <<elsewhere, xMMEQueue, usExpectedMME, spi, ipTask, content>>

NewRxDesc(b) ==
  /\ rx_desc = Null
  /\ Cardinality(free) > MinRemaining
  /\ b \in free
  /\ free' = free \ {b} /\ rx_desc' = b
  /\ UNCHANGED <<elsewhere, txQueue, xMMEQueue, usExpectedMME, rxPlace, ipTask,
                 content, answers>>

(***************************************************************************)
(* The frame is copied into rx_desc.                                       *)
(***************************************************************************)
CopyFrame(frame) ==
  /\ rx_desc # Null /\ rxPlace = "header"
  /\ frame = "answer" => answers > 0
  /\ answers' = IF frame = "answer" THEN answers - 1 ELSE answers
  /\ content' = [content EXCEPT ![rx_desc] = frame]
  /\ rxPlace' = "complete"
  /\ UNCHANGED <<pool, txQueue, xMMEQueue, usExpectedMME, rx_desc, ipTask>>

IsExpected == usExpectedMME /\ content[rx_desc] = "answer"

\* Mutant: the buffer is given away even if the queue has no room for it.
MutAfterFilter == Null

AfterFilter == rx_desc

QueueHasRoom == Len(xMMEQueue) < 1

(***************************************************************************)
(* filter_rx_mme: the answer goes into the queue if that is empty, and     *)
(* either way the frame counts as handled; rx_desc stays.                  *)
(***************************************************************************)
FilterAnswer ==
  /\ rxPlace = "complete" /\ IsExpected
  /\ xMMEQueue' = IF QueueHasRoom THEN Append(xMMEQueue, rx_desc)
                                     ELSE xMMEQueue
  /\ rx_desc' = AfterFilter
  /\ rxPlace' = "header"
  /\ UNCHANGED <<pool, txQueue, usExpectedMME, ipTask, content, answers>>

(***************************************************************************)
(* xBridge_Process takes the buffer, or leaves it to the driver.           *)
(***************************************************************************)
Bridge ==
  /\ rxPlace = "complete" /\ ~IsExpected
  /\ rxPlace' = "header"
  /\ \/ elsewhere' = elsewhere \union {rx_desc} /\ rx_desc' = Null
     \/ UNCHANGED <<elsewhere, rx_desc>>
  /\ UNCHANGED <<free, txQueue, xMMEQueue, usExpectedMME, ipTask, content,
                 answers>>

SpiThread == \/ SendFrame \/ (\E b \in Buffer : NewRxDesc(b))
             \/ (\E frame \in {"answer", "other"} : CopyFrame(frame))
             \/ FilterAnswer \/ Bridge
-----------------------------------------------------------------------------
(* All other users. *)

GetElsewhere(b) ==
  /\ b \in free
  /\ free' = free \ {b} /\ elsewhere' = elsewhere \union {b}
  /\ content' = [content EXCEPT ![b] = "other"]
  /\ UNCHANGED <<txQueue, xMMEQueue, usExpectedMME, spi, ipTask, answers>>

ReleaseElsewhere(b) ==
  /\ b \in elsewhere
  /\ elsewhere' = elsewhere \ {b} /\ free' = free \union {b}
  /\ UNCHANGED <<txQueue, xMMEQueue, usExpectedMME, spi, ipTask, content,
                 answers>>

MmeNext == \/ Initialise \/ SpiThread
        \/ \E b \in Buffer : GetElsewhere(b) \/ ReleaseElsewhere(b)

(***************************************************************************)
(* The IP task runs on, and its wait times out.                            *)
(***************************************************************************)
MmeFairness == WF_mmeVars(Initialise)

MmeSpec == MmeInit /\ [][MmeNext]_mmeVars /\ MmeFairness
-----------------------------------------------------------------------------
Held(b) == IF b = Null THEN {} ELSE {b}

InQueue(q) == {q[i] : i \in DOMAIN q}

MmeTypeOK ==
  /\ free \subseteq Buffer /\ elsewhere \subseteq Buffer
  /\ txQueue \in Seq(Buffer) /\ xMMEQueue \in Seq(Buffer)
  /\ Len(xMMEQueue) <= 1
  /\ usExpectedMME \in BOOLEAN
  /\ rx_desc \in Buffer \union {Null} /\ rxPlace \in {"header", "complete"}
  /\ pxDescriptor \in Buffer \union {Null}
  /\ ipPc \in {"loop", "create", "expect", "output", "wait", "cleanup", "copy",
             "release", "done"}
  /\ xRetries \in -1 .. Retries
  /\ content \in [Buffer -> Frame]
  /\ xMACAddress \in Frame \union {"none"}
  /\ answers \in 0 .. MaxAnswers

(***************************************************************************)
(* No buffer is lost: a late answer that finds the queue full, an answer   *)
(* nobody waits for any more, and a request that is never answered all     *)
(* leave their buffer with somebody who uses or releases it.               *)
(***************************************************************************)
NoBufferLost ==
  free \union elsewhere \union InQueue(txQueue) \union Held(rx_desc)
    \union Held(pxDescriptor)
    \union (IF ipPc = "done" THEN {} ELSE InQueue(xMMEQueue)) = Buffer

(***************************************************************************)
(* The interface comes up, answered or not.                                *)
(***************************************************************************)
InitialisationEnds == <>(ipPc = "done")
==============================================================================
