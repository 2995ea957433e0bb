--------------------------- MODULE Startup_proofs ---------------------------
(***************************************************************************)
(* What brings the node up: the MME exchange with the QCA7000 (MmeExchange)*)
(* and the network events, the DHCP client and the application's sockets   *)
(* (NetworkEvents).                                                        *)
(***************************************************************************)
EXTENDS MmeExchange, NetworkEvents, SequenceTheorems, TLAPS

(***************************************************************************)
(* What makes the answer's queue harmless: each buffer has a place besides *)
(* it.  The driver keeps an answer as its receive buffer after the filter  *)
(* has put it into the queue, and whoever gets it from there puts it into  *)
(* another of these places.                                                *)
(***************************************************************************)
Kept == free \union elsewhere \union InQueue(txQueue) \union Held(rx_desc) \union Held(pxDescriptor)

(***************************************************************************)
(* Where the IP task has a buffer of its own, and where the driver has.    *)
(***************************************************************************)
PlaceInv ==
  /\ ipPc \in {"expect", "output", "copy", "release"} => pxDescriptor # Null
  /\ ipPc \in {"loop", "create", "wait", "done"} => pxDescriptor = Null
  /\ rxPlace = "complete" => rx_desc # Null
  /\ ipPc # "done" => xRetries >= 0

MmeIInv == MmeTypeOK /\ PlaceInv /\ Kept = Buffer

LEMMA QueuedAppend ==
  ASSUME NEW q \in Seq(Buffer), NEW b \in Buffer
  PROVE  Append(q, b) \in Seq(Buffer) /\ InQueue(Append(q, b)) = InQueue(q) \union {b}
BY AppendProperties DEF InQueue

LEMMA QueuedTail ==
  ASSUME NEW q \in Seq(Buffer), q # <<>>
  PROVE  /\ Head(q) \in Buffer /\ Tail(q) \in Seq(Buffer)
         /\ Len(Tail(q)) = Len(q) - 1
         /\ InQueue(q) = InQueue(Tail(q)) \union {Head(q)}
<1>1. /\ Head(q) \in Buffer /\ Tail(q) \in Seq(Buffer) /\ Len(Tail(q)) = Len(q) - 1
      /\ \A i \in 1 .. Len(Tail(q)) : Tail(q)[i] = q[i + 1]
  BY HeadTailProperties
<1>2. /\ Len(q) \in Nat \ {0} /\ DOMAIN q = 1 .. Len(q)
      /\ DOMAIN Tail(q) = 1 .. Len(q) - 1
  BY <1>1, EmptySeq, LenProperties
<1>3. Head(q) = q[1]
  OBVIOUS
<1>4. InQueue(q) \subseteq InQueue(Tail(q)) \union {Head(q)}
  <2>1. SUFFICES ASSUME NEW i \in 1 .. Len(q), i # 1
                 PROVE  q[i] \in InQueue(Tail(q))
    BY <1>2, <1>3 DEF InQueue
  <2>2. i - 1 \in 1 .. Len(q) - 1 /\ Tail(q)[i - 1] = q[i]
    BY <1>1, <1>2, <2>1
  <2> QED
    BY <1>2, <2>2 DEF InQueue
<1>5. InQueue(Tail(q)) \subseteq InQueue(q)
  <2>1. SUFFICES ASSUME NEW i \in 1 .. Len(q) - 1
                 PROVE  Tail(q)[i] \in InQueue(q)
    BY <1>2 DEF InQueue
  <2>2. Tail(q)[i] = q[i + 1] /\ i + 1 \in 1 .. Len(q)
    BY <1>1, <1>2
  <2> QED
    BY <1>2, <2>2 DEF InQueue
<1>6. Head(q) \in InQueue(q)
  BY <1>2, <1>3 DEF InQueue
<1> QED
  BY <1>1, <1>4, <1>5, <1>6

LEMMA MmeInitEstablishes == MmeInit => MmeIInv
<1>1. SUFFICES ASSUME MmeInit PROVE MmeIInv
  OBVIOUS
<1>2. <<>> \in Seq(Buffer) /\ Len(<<>>) = 0 /\ InQueue(<<>>) = {}
  BY EmptySeq DEF InQueue
<1>3. MmeTypeOK
  <2>1. content \in [Buffer -> Frame] /\ xRetries \in -1 .. Retries
    BY <1>1, ExchangeAssumption DEF MmeInit, Frame
  <2>2. xMMEQueue \in Seq(Buffer) /\ txQueue \in Seq(Buffer) /\ Len(xMMEQueue) <= 1
    BY <1>1, <1>2 DEF MmeInit
  <2>3. /\ free \subseteq Buffer /\ elsewhere \subseteq Buffer
        /\ answers \in 0 .. MaxAnswers /\ xMACAddress \in Frame \union {"none"}
    BY <1>1, ExchangeAssumption DEF MmeInit
  <2>4. /\ usExpectedMME \in BOOLEAN /\ pxDescriptor \in Buffer \union {Null}
        /\ rx_desc \in Buffer \union {Null} /\ rxPlace \in {"header", "complete"}
        /\ ipPc \in {"loop", "create", "expect", "output", "wait", "cleanup", "copy",
                   "release", "done"}
    BY <1>1 DEF MmeInit
  <2> QED
    BY <2>1, <2>2, <2>3, <2>4 DEF MmeTypeOK
<1>4. PlaceInv
  BY <1>1, ExchangeAssumption DEF MmeInit, PlaceInv
<1>5. Kept = Buffer
  BY <1>1, <1>2 DEF MmeInit, Kept, Held
<1> QED
  BY <1>3, <1>4, <1>5 DEF MmeIInv

(***************************************************************************)
(* The IP task: a buffer it has is in pxDescriptor and nowhere else of its *)
(* own, and it goes on to the driver's queue or back to the pool.          *)
(***************************************************************************)
LEMMA IpTaskKeeps ==
  ASSUME MmeIInv, Initialise
  PROVE  MmeIInv'
<1> USE ExchangeAssumption DEF MmeIInv, PlaceInv, Goto, pool, spi
<1>1. ASSUME Loop PROVE MmeIInv'
  <2>1. xRetries' \in -1 .. Retries /\ (ipPc' # "done" => xRetries' >= 0)
    BY <1>1 DEF Loop, NextRetry, MmeTypeOK
  <2> QED
    BY <1>1, <2>1 DEF Loop, MmeTypeOK, Kept
<1>2. ASSUME CreateFails PROVE MmeIInv'
  BY <1>2 DEF CreateFails, MmeTypeOK, Kept
<1>3. ASSUME NEW b \in Buffer, Create(b) PROVE MmeIInv'
  <2>1. MmeTypeOK'
    BY <1>3 DEF Create, MmeTypeOK, Frame
  <2>2. Kept' = Buffer
    BY <1>3 DEF Create, Kept, Held
  <2> QED
    BY <1>3, <2>1, <2>2 DEF Create
<1>4. ASSUME Expect PROVE MmeIInv'
  BY <1>4 DEF Expect, MmeTypeOK, Kept
<1>5. ASSUME Output PROVE MmeIInv'
  <2>1. pxDescriptor \in Buffer
    BY <1>5 DEF Output, MmeTypeOK
  <2>2. txQueue' \in Seq(Buffer) /\ InQueue(txQueue') = InQueue(txQueue) \union {pxDescriptor}
    BY <1>5, <2>1, QueuedAppend DEF Output, MmeTypeOK
  <2>3. MmeTypeOK'
    BY <1>5, <2>2 DEF Output, MmeTypeOK
  <2>4. Kept' = Buffer
    BY <1>5, <2>1, <2>2 DEF Output, Kept, Held
  <2> QED
    BY <1>5, <2>3, <2>4 DEF Output
<1>6. ASSUME TakeAnswer PROVE MmeIInv'
  <2>1. /\ pxDescriptor' \in Buffer /\ xMMEQueue' \in Seq(Buffer)
        /\ Len(xMMEQueue') <= 1 /\ pxDescriptor = Null
    BY <1>6, QueuedTail DEF TakeAnswer, MmeTypeOK
  <2>2. MmeTypeOK'
    BY <1>6, <2>1 DEF TakeAnswer, MmeTypeOK
  <2>3. Kept' = Buffer
    BY <1>6, <2>1 DEF TakeAnswer, Kept, Held
  <2> QED
    BY <1>6, <2>1, <2>2, <2>3 DEF TakeAnswer
<1>7. ASSUME TimeOut PROVE MmeIInv'
  BY <1>7 DEF TimeOut, MmeTypeOK, Kept
<1>8. ASSUME CleanUp PROVE MmeIInv'
  BY <1>8 DEF CleanUp, MmeTypeOK, Kept
<1>9. ASSUME CopyMac PROVE MmeIInv'
  BY <1>9 DEF CopyMac, MmeTypeOK, Kept
<1>10. ASSUME ReleaseAnswer PROVE MmeIInv'
  <2>1. pxDescriptor \in Buffer
    BY <1>10 DEF ReleaseAnswer, MmeTypeOK
  <2>2. MmeTypeOK'
    BY <1>10, <2>1 DEF ReleaseAnswer, MmeTypeOK
  <2>3. Kept' = Buffer
    BY <1>10, <2>1 DEF ReleaseAnswer, Kept, Held
  <2> QED
    BY <1>10, <2>2, <2>3 DEF ReleaseAnswer
<1> QED
  BY <1>1, <1>2, <1>3, <1>4, <1>5, <1>6, <1>7, <1>8, <1>9, <1>10 DEF Initialise

(***************************************************************************)
(* The SPI thread and all other users.                                     *)
(***************************************************************************)
LEMMA OthersKeep ==
  ASSUME MmeIInv, SpiThread \/ \E b \in Buffer : GetElsewhere(b) \/ ReleaseElsewhere(b)
  PROVE  MmeIInv'
<1> USE ExchangeAssumption DEF MmeIInv, PlaceInv, pool, spi, ipTask
<1>1. ASSUME SendFrame PROVE MmeIInv'
  <2>1. /\ Head(txQueue) \in Buffer /\ txQueue' \in Seq(Buffer)
        /\ InQueue(txQueue) = InQueue(txQueue') \union {Head(txQueue)}
    BY <1>1, QueuedTail DEF SendFrame, MmeTypeOK
  <2>2. MmeTypeOK'
    BY <1>1, <2>1 DEF SendFrame, MmeTypeOK
  <2>3. Kept' = Buffer
    BY <1>1, <2>1 DEF SendFrame, Kept
  <2> QED
    BY <1>1, <2>2, <2>3 DEF SendFrame
<1>2. ASSUME NEW b \in Buffer, NewRxDesc(b) PROVE MmeIInv'
  <2>1. Kept' = Buffer
    BY <1>2 DEF NewRxDesc, Kept, Held
  <2> QED
    BY <1>2, <2>1 DEF NewRxDesc, MmeTypeOK
<1>3. ASSUME NEW frame \in {"answer", "other"}, CopyFrame(frame) PROVE MmeIInv'
  <2>1. answers' \in 0 .. MaxAnswers
    BY <1>3 DEF CopyFrame, MmeTypeOK
  <2>2. MmeTypeOK'
    BY <1>3, <2>1 DEF CopyFrame, MmeTypeOK, Frame
  <2> QED
    BY <1>3, <2>2 DEF CopyFrame, Kept
<1>4. ASSUME FilterAnswer PROVE MmeIInv'
  <2>1. rx_desc \in Buffer /\ rx_desc' = rx_desc
    BY <1>4 DEF FilterAnswer, AfterFilter, MmeTypeOK
  <2>2. xMMEQueue' \in Seq(Buffer) /\ Len(xMMEQueue') <= 1
    BY <1>4, <2>1, AppendProperties DEF FilterAnswer, QueueHasRoom, MmeTypeOK
  <2>3. MmeTypeOK'
    BY <1>4, <2>1, <2>2 DEF FilterAnswer, MmeTypeOK
  <2> QED
    BY <1>4, <2>1, <2>3 DEF FilterAnswer, Kept
<1>5. ASSUME Bridge PROVE MmeIInv'
  <2>1. rx_desc \in Buffer
    BY <1>5 DEF Bridge, MmeTypeOK
  <2>2. MmeTypeOK'
    BY <1>5, <2>1 DEF Bridge, MmeTypeOK
  <2>3. Kept' = Buffer
    BY <1>5, <2>1 DEF Bridge, Kept, Held
  <2> QED
    BY <1>5, <2>2, <2>3 DEF Bridge
<1>6. ASSUME NEW b \in Buffer, GetElsewhere(b) PROVE MmeIInv'
  <2>1. Kept' = Buffer
    BY <1>6 DEF GetElsewhere, Kept
  <2> QED
    BY <1>6, <2>1 DEF GetElsewhere, MmeTypeOK, Frame
<1>7. ASSUME NEW b \in Buffer, ReleaseElsewhere(b) PROVE MmeIInv'
  <2>1. Kept' = Buffer
    BY <1>7 DEF ReleaseElsewhere, Kept
  <2> QED
    BY <1>7, <2>1 DEF ReleaseElsewhere, MmeTypeOK
<1> QED
  BY <1>1, <1>2, <1>3, <1>4, <1>5, <1>6, <1>7 DEF SpiThread

(***************************************************************************)
(* The inductive invariant of the exchange, for any number of buffers, of  *)
(* tries and of answers (xQCA7000_NetworkInterfaceInitialise,              *)
(* filter_rx_mme).                                                         *)
(***************************************************************************)
THEOREM ExchangeInvariant == MmeSpec => []MmeIInv
<1>1. MmeInit => MmeIInv
  BY MmeInitEstablishes
<1>2. MmeIInv /\ [MmeNext]_mmeVars => MmeIInv'
  <2>1. ASSUME MmeIInv, UNCHANGED mmeVars PROVE MmeIInv'
    BY <2>1 DEF MmeIInv, MmeTypeOK, PlaceInv, Kept, mmeVars, pool, spi, ipTask
  <2> QED
    BY <2>1, IpTaskKeeps, OthersKeep DEF MmeNext
<1> QED
  BY <1>1, <1>2, PTL DEF MmeSpec

(***************************************************************************)
(* No late, repeated or missing answer loses a buffer.                     *)
(***************************************************************************)
THEOREM ExchangeLosesNothing == MmeSpec => []NoBufferLost
<1>1. MmeIInv => NoBufferLost
  <2>1. ASSUME MmeIInv PROVE NoBufferLost
    <3>1. InQueue(xMMEQueue) \subseteq Buffer
      <4>1. \A i \in DOMAIN xMMEQueue : xMMEQueue[i] \in Buffer
        BY <2>1, ElementOfSeq DEF MmeIInv, MmeTypeOK
      <4> QED
        BY <4>1 DEF InQueue
    <3> QED
      BY <2>1, <3>1 DEF MmeIInv, Kept, NoBufferLost
  <2> QED
    BY <2>1
<1> QED
  BY <1>1, ExchangeInvariant, PTL
-----------------------------------------------------------------------------
(***************************************************************************)
(* Theorems about the start of the device and its DHCP client, for any     *)
(* servers, any length of the event queue and any bounds.                  *)
(***************************************************************************)
Queued(e) == \E k \in DOMAIN xNetworkEventQueue : xNetworkEventQueue[k] = e

\* The client will start over (vDHCPProcess( pdTRUE )), if the bridge comes up.
BridgePending ==
    \/ "bridge" \in bCallDownEvent
    \/ xReceivedEvent = Down("bridge") \/ Queued(Down("bridge"))
    \/ pc = "dhcp" /\ xReset

NoAnswer ==
    /\ xWaitingPacketsList = <<>> /\ wire = {}
    /\ xReceivedEvent[1] # "rx"
    /\ \A k \in DOMAIN xNetworkEventQueue : xNetworkEventQueue[k][1] # "rx"

(***************************************************************************)
(* Before the bridge's interface is up nothing has called the client.      *)
(***************************************************************************)
Pristine ==
    "bridge" \notin bInterfaceUp =>
        /\ NoAnswer
        /\ eDHCPState = "eInitialWait" /\ xDHCP_RATimer = "off" /\ ~xDHCPSocket
        /\ pc # "dhcp" /\ xReceivedEvent # Dhcp /\ ~Queued(Dhcp)

(***************************************************************************)
(* While a down event of the bridge's interface waits, no server has been  *)
(* asked: the event with which the client asks is behind it in the queue.  *)
(***************************************************************************)
Order ==
    \A j, k \in DOMAIN xNetworkEventQueue :
      xNetworkEventQueue[j] = Dhcp /\ xNetworkEventQueue[k] = Down("bridge") => k < j

AskedBehind ==
    /\ BridgePending => NoAnswer /\ eDHCPState \in {"eInitialWait", "eWaitingSendFirstDiscover"}
    /\ BridgePending => xReceivedEvent # Dhcp /\ (pc = "dhcp" => xReset)
    /\ Order
    /\ pc = "dhcp" /\ xReset => eDHCPState = "eInitialWait"
    /\ pc # "process" => xReceivedEvent = NoEvent

OneUser ==
    /\ pxEndPointSocket = xDHCPSocket
    /\ xDHCPSocketUserCount = IF xDHCPSocket THEN 1 ELSE 0
    /\ ~xDHCPSocket => xWaitingPacketsList = <<>>

\* The server the client goes on to ask is one that made it an offer.
ServerKnown ==
    eDHCPState \in {"eWaitingAcknowledge", "eLeasedAddress"} => ulDHCPServerAddress \in Servers

IInv == TypeOK /\ Pristine /\ AskedBehind /\ OneUser /\ ServerKnown /\ SocketFollowsState
-----------------------------------------------------------------------------
(* The queue. *)

\* The queue u is q with events of E behind it.
Extends(q, u, E) ==
    /\ u \in Seq(Event) /\ Len(q) <= Len(u)
    /\ \A k \in DOMAIN q : u[k] = q[k]
    /\ \A k \in DOMAIN u : k \notin DOMAIN q => u[k] \in E

LEMMA Events ==
    /\ NoEvent \notin Event /\ NoEvent # Dhcp /\ NoEvent[1] = "no"
    /\ Dhcp \in Event /\ Dhcp[1] = "dhcp"
    /\ \A i \in Interface : Down(i) \in Event /\ Down(i)[1] = "down" /\ Down(i) # Dhcp
                            /\ Down(i)[2] = i
    /\ \A m \in Answer : Rx(m) \in Event /\ Rx(m)[1] = "rx" /\ Rx(m)[2] = m
    /\ \A e \in Event : \/ e = Dhcp
                        \/ \E i \in Interface : e = Down(i)
                        \/ \E m \in Answer : e = Rx(m)
<1>1. /\ NoEvent[1] = "no" /\ Dhcp[1] = "dhcp" /\ Dhcp \in Event
      /\ \A i \in Interface : Down(i)[1] = "down" /\ Down(i)[2] = i
      /\ \A m \in Answer : Rx(m)[1] = "rx" /\ Rx(m)[2] = m
  BY DEF NoEvent, Dhcp, Down, Rx, Event
<1>2. \A i \in Interface : Down(i) \in Event /\ Down(i) # Dhcp
  <2>1. TAKE i \in Interface
  <2>2. <<"down", i>> \in {"down"} \X Interface
    OBVIOUS
  <2> QED
    BY <1>1, <2>2 DEF Down, Event
<1>3. \A m \in Answer : Rx(m) \in Event
  BY DEF Rx, Event
<1>4. \A e \in Event : e = Dhcp \/ (\E i \in Interface : e = Down(i))
                                \/ \E m \in Answer : e = Rx(m)
  BY DEF Down, Rx, Event
<1>5. NoEvent # Dhcp /\ \A e \in Event : e # NoEvent
  <2>1. \A e \in Event : e[1] # "no"
    BY <1>1, <1>4
  <2> QED
    BY <1>1, <2>1
<1> QED
  BY <1>1, <1>2, <1>3, <1>4, <1>5

LEMMA PostedExtends ==
  ASSUME NEW q \in Seq(Event), NEW e \in Event
  PROVE  Extends(q, Posted(q, e), {e})
<1>1. /\ Append(q, e) \in Seq(Event)
      /\ Len(Append(q, e)) = Len(q) + 1
      /\ \A k \in 1 .. Len(q) : Append(q, e)[k] = q[k]
      /\ Append(q, e)[Len(q) + 1] = e
  BY AppendProperties
<1>2. DOMAIN q = 1 .. Len(q) /\ Len(q) \in Nat
      /\ DOMAIN Append(q, e) = 1 .. Len(q) + 1
  BY <1>1, LenProperties
<1>3. Extends(q, Append(q, e), {e})
  BY <1>1, <1>2 DEF Extends
<1>4. Extends(q, q, {e})
  BY <1>2 DEF Extends
<1> QED
  BY <1>3, <1>4 DEF Posted

LEMMA ExtendsAgain ==
  ASSUME NEW q \in Seq(Event), NEW u, NEW v, NEW D, NEW E,
         Extends(q, u, D), Extends(u, v, E)
  PROVE  Extends(q, v, D \cup E)
<1>1. u \in Seq(Event) /\ v \in Seq(Event)
  BY DEF Extends
<1>2. /\ DOMAIN q = 1 .. Len(q) /\ DOMAIN u = 1 .. Len(u) /\ DOMAIN v = 1 .. Len(v)
      /\ Len(q) \in Nat /\ Len(u) \in Nat /\ Len(v) \in Nat
  BY <1>1, LenProperties
<1> QED
  BY <1>1, <1>2 DEF Extends

LEMMA DownExtends ==
  ASSUME NEW q \in Seq(Event), NEW i \in Interface, NEW retry \in BOOLEAN
  PROVE  Extends(q, NetworkDown(i, retry, q), IF retry /\ MayRetry(i) THEN {Down(i)} ELSE {})
<1>1. Down(i) \in Event
  BY Events
<1>2. Extends(q, q, {})
  <2>1. DOMAIN q = 1 .. Len(q) /\ Len(q) \in Nat
    BY LenProperties
  <2> QED
    BY <2>1 DEF Extends
<1> QED
  BY <1>1, <1>2, PostedExtends DEF NetworkDown

(***************************************************************************)
(* The queue of a turn: its own events and those the turn posts.           *)
(***************************************************************************)
Turned(dhcp, retry) ==
  LET q0 == IF dhcp THEN Posted(xNetworkEventQueue, Dhcp) ELSE xNetworkEventQueue
      q1 == NetworkDown("bridge", retry, q0)
      q2 == NetworkDown("eth", retry, q1)
  IN  NetworkDown("plc", retry, q2)

LEMMA TurnQueue ==
  ASSUME TypeOK, NEW dhcp \in BOOLEAN, NEW retry \in BOOLEAN
  PROVE  Extends(xNetworkEventQueue, Turned(dhcp, retry),
                 (IF dhcp THEN {Dhcp} ELSE {}) \cup {Down(i) : i \in Interface \ bInterfaceUp})
<1> DEFINE q0 == IF dhcp THEN Posted(xNetworkEventQueue, Dhcp) ELSE xNetworkEventQueue
           q1 == NetworkDown("bridge", retry, q0)
           q2 == NetworkDown("eth", retry, q1)
           q3 == NetworkDown("plc", retry, q2)
           D0 == IF dhcp THEN {Dhcp} ELSE {}
           D(i) == IF retry /\ MayRetry(i) THEN {Down(i)} ELSE {}
<1>1. xNetworkEventQueue \in Seq(Event) /\ {"bridge", "eth", "plc"} \subseteq Interface
  BY DEF TypeOK, Interface
<1>2. Extends(xNetworkEventQueue, q0, D0)
  <2>1. Extends(xNetworkEventQueue, xNetworkEventQueue, {})
    BY <1>1, LenProperties DEF Extends
  <2>2. Dhcp \in Event
    BY Events
  <2> QED
    BY <1>1, <2>1, <2>2, PostedExtends
<1>3. q0 \in Seq(Event)
  BY <1>2 DEF Extends
<1> HIDE DEF q0, D0
<1>4. Extends(q0, q1, D("bridge"))
  BY <1>1, <1>3, DownExtends
<1>5. q1 \in Seq(Event)
  BY <1>4 DEF Extends
<1> HIDE DEF q1
<1>6. Extends(q1, q2, D("eth"))
  BY <1>1, <1>5, DownExtends
<1>7. q2 \in Seq(Event)
  BY <1>6 DEF Extends
<1> HIDE DEF q2
<1>8. Extends(q2, q3, D("plc"))
  BY <1>1, <1>7, DownExtends
<1> HIDE DEF q3, D
<1>9. Extends(xNetworkEventQueue, q1, D0 \cup D("bridge"))
  BY <1>1, <1>2, <1>4, ExtendsAgain
<1>10. Extends(xNetworkEventQueue, q2, (D0 \cup D("bridge")) \cup D("eth"))
  BY <1>1, <1>9, <1>6, ExtendsAgain
<1>11. Extends(xNetworkEventQueue, q3, ((D0 \cup D("bridge")) \cup D("eth")) \cup D("plc"))
  BY <1>1, <1>10, <1>8, ExtendsAgain
<1>12. \A i \in Interface : D(i) \subseteq {Down(j) : j \in Interface \ bInterfaceUp}
  BY DEF D, MayRetry
<1>13. ((D0 \cup D("bridge")) \cup D("eth")) \cup D("plc")
         \subseteq D0 \cup {Down(j) : j \in Interface \ bInterfaceUp}
  BY <1>1, <1>12
<1>14. Extends(xNetworkEventQueue, q3, D0 \cup {Down(j) : j \in Interface \ bInterfaceUp})
  BY <1>11, <1>13 DEF Extends
<1>15. q3 = Turned(dhcp, retry)
  BY DEF q0, q1, q2, q3, Turned
<1> QED
  BY <1>14, <1>15 DEF D0
-----------------------------------------------------------------------------
(* The steps. *)

LEMMA InitEstablishes == Init => IInv
<1> SUFFICES ASSUME Init PROVE IInv
  OBVIOUS
<1>1. \A i \in Interface : Down(i) \in Event /\ Down(i) # Dhcp /\ Down(i)[1] = "down"
  BY Events
<1>2. /\ xNetworkEventQueue \in Seq(Event)
      /\ \A k \in DOMAIN xNetworkEventQueue :
           xNetworkEventQueue[k] # Dhcp /\ xNetworkEventQueue[k][1] # "rx"
  BY <1>1 DEF Init, Interface
<1>3. NoEvent # Dhcp /\ NoEvent[1] = "no"
  BY Events
<1>4. TypeOK
  <2>1. offers \in [Servers -> Nat] /\ naks \in Nat /\ ethEvents \in Nat
    BY EventsAssumption DEF Init
  <2>2. wire \subseteq Answer /\ xWaitingPacketsList \in Seq(Answer)
    BY DEF Init
  <2>3. /\ pc \in {"pending", "process", "dhcp"}
        /\ xReceivedEvent \in Event \cup {NoEvent}
        /\ bInterfaceUp \subseteq Interface /\ bInterfaceInitialised \subseteq Interface
        /\ bCallDownEvent \subseteq Interface
    BY DEF Init
  <2>4. /\ eDHCPState \in DHCPState /\ eExpectedState \in DHCPState
        /\ ulTransactionId \in Nat /\ xDHCPTxPeriod \in Nat /\ xDHCPSocketUserCount \in Nat
    BY DEF Init, DHCPState
  <2> QED
    BY <1>2, <2>1, <2>2, <2>3, <2>4 DEF Init, TypeOK
<1>5. NoAnswer
  BY <1>2, <1>3 DEF Init, NoAnswer
<1>6. Pristine
  BY <1>2, <1>3, <1>5 DEF Init, Pristine, Queued
<1>7. AskedBehind
  BY <1>2, <1>3, <1>5 DEF Init, AskedBehind, Order
<1>8. OneUser /\ ServerKnown /\ SocketFollowsState
  BY DEF Init, OneUser, ServerKnown, SocketFollowsState, AtRest, Waiting
<1> QED
  BY <1>4, <1>6, <1>7, <1>8 DEF IInv

\* What a step does that is neither the client's nor a network-down event's.
ClientStays == UNCHANGED <<client, eDHCPState>>

LEMMA StaysSocket ==
  ASSUME IInv, ClientStays, \/ UNCHANGED xWaitingPacketsList
                            \/ xDHCPSocket /\ ~AtRest
                            \/ xWaitingPacketsList' = <<>>
  PROVE  OneUser' /\ ServerKnown' /\ SocketFollowsState'
BY DEF IInv, OneUser, ServerKnown, SocketFollowsState, ClientStays, client, sockets, AtRest, Waiting

\* An event e that the others put into the queue.
LEMMA PostedKeeps ==
  ASSUME IInv, NEW e \in Event, e # Down("bridge"), Post(e),
         e[1] = "rx" => wire # {},
         e = Dhcp => ~BridgePending /\ "bridge" \in bInterfaceUp,
         \A m \in wire' : m \in wire,
         xWaitingPacketsList' # <<>> => xWaitingPacketsList # <<>> \/ xReceivedEvent[1] = "rx",
         \/ UNCHANGED <<pc, xReceivedEvent>>
         \/ pc' = "pending" /\ xReceivedEvent' = NoEvent,
         UNCHANGED <<bInterfaceUp, bCallDownEvent, eDHCPState, xDHCP_RATimer, xDHCPSocket, xReset>>
  PROVE  /\ xNetworkEventQueue' \in Seq(Event)
         /\ Pristine' /\ AskedBehind'
<1> DEFINE q == xNetworkEventQueue
           u == xNetworkEventQueue'
<1>1. q \in Seq(Event) /\ DOMAIN q = 1 .. Len(q) /\ Len(q) \in Nat
  BY LenProperties DEF IInv, TypeOK
<1>2. /\ u \in Seq(Event)
      /\ \A k \in DOMAIN q : u[k] = q[k]
      /\ \A k \in DOMAIN u : k \notin DOMAIN q => u[k] = e /\ k > Len(q) /\ k \in Nat
  <2>1. Extends(q, u, {e})
    BY <1>1, PostedExtends DEF Post
  <2>2. u \in Seq(Event) /\ DOMAIN u = 1 .. Len(u) /\ Len(u) \in Nat
    BY <2>1, LenProperties DEF Extends
  <2> QED
    BY <1>1, <2>1, <2>2 DEF Extends
<1>3. /\ NoEvent # Dhcp /\ NoEvent[1] = "no" /\ \A i \in Interface : Down(i) # NoEvent
  BY Events
<1>4. "bridge" \in Interface
  BY DEF Interface
<1> HIDE DEF q, u
<1>5. BridgePending' => BridgePending
  <2>1. Queued(Down("bridge"))' => Queued(Down("bridge"))
    BY <1>2 DEF Queued, q, u
  <2> QED
    BY <1>3, <1>4, <2>1 DEF BridgePending
<1>6. NoAnswer => NoAnswer'
  <2>1. SUFFICES ASSUME NoAnswer PROVE NoAnswer'
    OBVIOUS
  <2>2. e[1] # "rx" /\ wire' = {}
    BY <2>1 DEF NoAnswer
  <2>3. xWaitingPacketsList' = <<>> /\ xReceivedEvent'[1] # "rx"
    BY <1>3, <2>1 DEF NoAnswer
  <2>4. \A k \in DOMAIN u : u[k][1] # "rx"
    BY <1>2, <2>1, <2>2 DEF NoAnswer, q
  <2> QED
    BY <2>2, <2>3, <2>4 DEF NoAnswer, u
<1>7. Pristine'
  <2>1. SUFFICES ASSUME "bridge" \notin bInterfaceUp' PROVE Pristine'
    BY DEF Pristine
  <2>2. Pristine /\ "bridge" \notin bInterfaceUp /\ e # Dhcp
    BY <2>1 DEF IInv
  <2>3. ~Queued(Dhcp)'
    BY <1>2, <2>2 DEF Pristine, Queued, q, u
  <2> QED
    BY <1>3, <1>6, <2>2, <2>3 DEF Pristine
<1>8. \A j, k \in DOMAIN u : u[j] = Dhcp /\ u[k] = Down("bridge") => k < j
  <2>1. SUFFICES ASSUME NEW j \in DOMAIN u, NEW k \in DOMAIN u,
                        u[j] = Dhcp, u[k] = Down("bridge")
                 PROVE  k < j
    OBVIOUS
  <2>2. k \in DOMAIN q /\ q[k] = Down("bridge")
    BY <1>2, <2>1
  <2>3. CASE j \in DOMAIN q
    BY <1>2, <2>1, <2>2, <2>3 DEF IInv, AskedBehind, Order, q
  <2>4. CASE j \notin DOMAIN q
    BY <1>1, <1>2, <2>2, <2>4 DEF q
  <2> QED
    BY <2>3, <2>4
<1>9. AskedBehind'
  BY <1>3, <1>5, <1>6, <1>8 DEF IInv, AskedBehind, Order, u
<1> QED
  BY <1>2, <1>7, <1>9 DEF u

LEMMA LinkChangesKeeps == ASSUME IInv, LinkChanges PROVE IInv'
<1>1. Down("eth") \in Event /\ Down("eth")[1] = "down" /\ Down("eth") # Dhcp
      /\ Down("eth") # Down("bridge")
  BY Events DEF Interface, Down
<1>2. UNCHANGED <<pc, xReceivedEvent, interfaces, client, eDHCPState, eExpectedState,
                  xWaitingPacketsList, call, network>>
      /\ ethEvents' \in Nat /\ Post(Down("eth"))
  BY DEF LinkChanges, IInv, TypeOK
<1>3. xNetworkEventQueue' \in Seq(Event) /\ Pristine' /\ AskedBehind'
  <2>1. /\ UNCHANGED <<pc, xReceivedEvent>>
        /\ UNCHANGED <<bInterfaceUp, bCallDownEvent, eDHCPState, xDHCP_RATimer, xDHCPSocket, xReset>>
        /\ UNCHANGED xWaitingPacketsList
    BY <1>2 DEF interfaces, client, sockets, call, network
  <2>2. /\ Down("eth")[1] = "rx" => wire # {}
        /\ \A n \in wire' : n \in wire
    BY <1>1, <1>2 DEF network
  <2> QED
    BY <1>1, <1>2, <2>1, <2>2, PostedKeeps
<1>4. TypeOK'
  BY <1>2, <1>3 DEF IInv, TypeOK, interfaces, client, sockets, call, network
<1> QED
  BY <1>2, <1>3, <1>4, StaysSocket DEF IInv, ClientStays

LEMMA DeliverKeeps == ASSUME IInv, NEW m \in wire, Deliver(m) PROVE IInv'
<1>1. Rx(m) \in Event /\ Rx(m) # Dhcp /\ Rx(m) # Down("bridge")
  BY Events DEF IInv, TypeOK, Rx, Dhcp, Down
<1>2. UNCHANGED <<pc, xReceivedEvent, interfaces, client, eDHCPState, eExpectedState,
                  xWaitingPacketsList, call, offers, naks, ethEvents>>
      /\ wire' \subseteq wire /\ Post(Rx(m))
  BY DEF Deliver
<1>3. xNetworkEventQueue' \in Seq(Event) /\ Pristine' /\ AskedBehind'
  <2>1. /\ UNCHANGED <<pc, xReceivedEvent>>
        /\ UNCHANGED <<bInterfaceUp, bCallDownEvent, eDHCPState, xDHCP_RATimer, xDHCPSocket, xReset>>
        /\ UNCHANGED xWaitingPacketsList
    BY <1>2 DEF interfaces, client, sockets, call
  <2>2. /\ Rx(m)[1] = "rx" => wire # {}
        /\ \A n \in wire' : n \in wire
    BY <1>1, <1>2
  <2> QED
    BY <1>1, <1>2, <2>1, <2>2, PostedKeeps
<1>4. TypeOK'
  BY <1>2, <1>3 DEF IInv, TypeOK, interfaces, client, sockets, call
<1> QED
  BY <1>2, <1>3, <1>4, StaysSocket DEF IInv, ClientStays

LEMMA ProcessRxKeeps == ASSUME IInv, ProcessRx PROVE IInv'
<1>1. /\ xReceivedEvent[1] = "rx" /\ pc = "process"
      /\ xReceivedEvent' = NoEvent /\ pc' = "pending"
      /\ UNCHANGED <<interfaces, client, eDHCPState, call, network, ethEvents>>
      /\ eExpectedState' \in DHCPState
      /\ IF xDHCPSocket
         THEN /\ xWaitingPacketsList' = Append(xWaitingPacketsList, xReceivedEvent[2])
              /\ Post(Dhcp)
         ELSE UNCHANGED <<xWaitingPacketsList, xNetworkEventQueue>>
  BY DEF ProcessRx, AtEvent, IInv, TypeOK, Expected
<1>2. ~BridgePending /\ "bridge" \in bInterfaceUp
  BY <1>1 DEF IInv, Pristine, AskedBehind, NoAnswer
<1>3. xReceivedEvent[2] \in Answer
  BY <1>1, Events DEF IInv, TypeOK
<1>4. Dhcp \in Event /\ Dhcp # Down("bridge") /\ Dhcp[1] = "dhcp" /\ NoEvent # Dhcp
      /\ NoEvent # Down("bridge")
  BY Events DEF Interface, NoEvent, Down
<1>5. xNetworkEventQueue' \in Seq(Event) /\ Pristine' /\ AskedBehind'
  <2>1. CASE xDHCPSocket
    BY <1>1, <1>2, <1>4, <2>1, PostedKeeps DEF interfaces, client, sockets, call, network
  <2>2. CASE ~xDHCPSocket
    <3>1. ~BridgePending'
      BY <1>1, <1>2, <1>4, <2>2 DEF BridgePending, Queued, interfaces, call
    <3> QED
      BY <1>1, <1>2, <1>4, <2>2, <3>1
      DEF IInv, TypeOK, Pristine, AskedBehind, Order, interfaces, call
  <2> QED
    BY <2>1, <2>2
<1>6. xWaitingPacketsList' \in Seq(Answer)
  <2>1. xWaitingPacketsList \in Seq(Answer)
    BY DEF IInv, TypeOK
  <2>2. Append(xWaitingPacketsList, xReceivedEvent[2]) \in Seq(Answer)
    BY <1>3, <2>1, AppendProperties
  <2>3. xWaitingPacketsList' \in {xWaitingPacketsList, Append(xWaitingPacketsList, xReceivedEvent[2])}
    BY <1>1
  <2> QED
    BY <2>1, <2>2, <2>3
<1>7. TypeOK'
  BY <1>1, <1>5, <1>6 DEF IInv, TypeOK, interfaces, client, sockets, call, network
<1>8. xDHCPSocket => ~AtRest
  BY DEF IInv, SocketFollowsState
<1> QED
  BY <1>1, <1>5, <1>7, <1>8, StaysSocket DEF IInv, ClientStays

LEMMA ProcessDhcpKeeps == ASSUME IInv, ProcessDhcp PROVE IInv'
<1>1. /\ xReceivedEvent[1] = "dhcp" /\ pc = "process"
      /\ xReceivedEvent' = NoEvent /\ pc' = "dhcp" /\ xReset' = FALSE /\ xDoProcess' = TRUE
      /\ UNCHANGED <<xNetworkEventQueue, interfaces, client, eDHCPState, eExpectedState,
                     xWaitingPacketsList, network, ethEvents>>
  BY DEF ProcessDhcp, AtEvent
<1>2. xReceivedEvent = Dhcp
  BY <1>1, Events DEF IInv, TypeOK
<1>3. ~BridgePending /\ "bridge" \in bInterfaceUp
  BY <1>2 DEF IInv, Pristine, AskedBehind
<1>4. NoEvent # Down("bridge")
  BY DEF NoEvent, Down
<1>5. ~BridgePending'
  BY <1>1, <1>3, <1>4 DEF BridgePending, Queued, interfaces
<1>6. TypeOK'
  BY <1>1 DEF IInv, TypeOK, interfaces, client, sockets, network
<1>7. Pristine' /\ AskedBehind'
  BY <1>1, <1>3, <1>5 DEF IInv, Pristine, AskedBehind, Order, interfaces
<1> QED
  BY <1>1, <1>6, <1>7, StaysSocket DEF IInv, ClientStays

(***************************************************************************)
(* The turn of the IP task's loop.                                         *)
(***************************************************************************)
LEMMA BeginTurnKeeps ==
  ASSUME IInv, NEW dhcp \in BOOLEAN, NEW retry \in BOOLEAN, BeginTurn(dhcp, retry)
  PROVE  IInv'
<1> DEFINE q == xNetworkEventQueue
           u == Turned(dhcp, retry)
           v == xNetworkEventQueue'
<1>1. /\ pc = "pending" /\ bCallDownEvent = {} /\ xReceivedEvent = NoEvent
      /\ dhcp => xDHCP_RATimer = "running"
      /\ eExpectedState' \in DHCPState /\ xAllNetworksUp' \in BOOLEAN
      /\ UNCHANGED <<bInterfaceUp, bInterfaceInitialised, client, eDHCPState,
                     xWaitingPacketsList, call, network, ethEvents>>
  BY DEF BeginTurn, Expected, IInv, TypeOK, AskedBehind
<1>2. /\ bCallDownEvent' \subseteq Interface \ bInterfaceUp
      /\ IF u = <<>>
         THEN pc' = "pending" /\ UNCHANGED <<xReceivedEvent, xNetworkEventQueue>>
         ELSE pc' = "process" /\ xReceivedEvent' = Head(u) /\ v = Tail(u)
  BY DEF BeginTurn, Turned, LeftOver, MayRetry, Interface
<1>3. q \in Seq(Event) /\ DOMAIN q = 1 .. Len(q) /\ Len(q) \in Nat
  BY LenProperties DEF IInv, TypeOK
<1>4. /\ u \in Seq(Event) /\ DOMAIN u = 1 .. Len(u) /\ Len(u) \in Nat /\ Len(q) <= Len(u)
      /\ \A k \in DOMAIN q : u[k] = q[k]
      /\ \A k \in DOMAIN u : k \notin DOMAIN q =>
           \/ u[k] = Dhcp /\ dhcp
           \/ \E i \in Interface \ bInterfaceUp : u[k] = Down(i)
  <2>1. Extends(q, u, (IF dhcp THEN {Dhcp} ELSE {}) \cup {Down(i) : i \in Interface \ bInterfaceUp})
    BY TurnQueue DEF IInv
  <2>2. u \in Seq(Event) /\ DOMAIN u = 1 .. Len(u) /\ Len(u) \in Nat
    BY <2>1, LenProperties DEF Extends
  <2> QED
    BY <2>1, <2>2 DEF Extends
<1>5. /\ NoEvent # Dhcp /\ NoEvent[1] = "no" /\ Dhcp[1] = "dhcp"
      /\ \A i \in Interface : Down(i) # Dhcp /\ Down(i)[1] = "down" /\ Down(i)[2] = i
                              /\ Down(i) # NoEvent
  BY Events
<1>6. "bridge" \in Interface
  BY DEF Interface
<1> HIDE DEF u
<1>7. /\ v \in Seq(Event)
      /\ u # <<>> => /\ u[1] \in Event /\ xReceivedEvent' = u[1] /\ 1 \in DOMAIN u
                     /\ \A k \in DOMAIN v : k \in Nat /\ k + 1 \in DOMAIN u /\ v[k] = u[k + 1]
  <2>1. CASE u = <<>>
    BY <1>2, <1>3, <2>1
  <2>2. CASE u # <<>>
    <3>1. /\ Tail(u) \in Seq(Event) /\ Len(Tail(u)) = Len(u) - 1
          /\ \A k \in 1 .. Len(Tail(u)) : Tail(u)[k] = u[k + 1]
          /\ DOMAIN Tail(u) = 1 .. Len(Tail(u))
      BY <1>4, <2>2, HeadTailProperties, LenProperties
    <3>2. Len(u) >= 1
      BY <1>4, <2>2, EmptySeq
    <3>3. Head(u) = u[1] /\ u[1] \in Event
      BY <1>4, <3>2
    <3> QED
      BY <1>2, <1>4, <2>2, <3>1, <3>2, <3>3
  <2> QED
    BY <2>1, <2>2
<1>8. u = <<>> => q = <<>>
  BY <1>3, <1>4, EmptySeq
<1> HIDE DEF q, v
\* What the turn takes or leaves in the queue is an event of the queue u.
<1>9. /\ \A k \in DOMAIN v : \E j \in DOMAIN u : v[k] = u[j]
      /\ xReceivedEvent' = NoEvent \/ \E j \in DOMAIN u : xReceivedEvent' = u[j]
  <2>1. CASE u = <<>>
    BY <1>1, <1>2, <1>8, <2>1 DEF q, v
  <2>2. CASE u # <<>>
    BY <1>7, <2>2
  <2> QED
    BY <2>1, <2>2
<1>10. ASSUME BridgePending' PROVE BridgePending \/ "bridge" \notin bInterfaceUp
  <2>1. SUFFICES ASSUME "bridge" \in bInterfaceUp PROVE BridgePending
    OBVIOUS
  <2>2. "bridge" \notin bCallDownEvent' /\ pc' # "dhcp"
    BY <1>2, <2>1
  <2>3. \E j \in DOMAIN u : u[j] = Down("bridge")
    BY <1>5, <1>6, <1>9, <1>10, <2>2 DEF BridgePending, Queued, v
  <2>4. PICK j \in DOMAIN u : u[j] = Down("bridge")
    BY <2>3
  <2>5. j \in DOMAIN q
    <3>1. \A i \in Interface \ bInterfaceUp : Down(i) # Down("bridge")
      BY <1>5, <1>6, <2>1
    <3> QED
      BY <1>4, <1>5, <1>6, <2>4, <3>1
  <2> QED
    BY <1>4, <2>4, <2>5 DEF BridgePending, Queued, q
<1>11. NoAnswer => NoAnswer'
  <2>1. SUFFICES ASSUME NoAnswer PROVE NoAnswer'
    OBVIOUS
  <2>2. \A j \in DOMAIN u : u[j][1] # "rx"
    BY <1>4, <1>5, <2>1 DEF NoAnswer, q
  <2>3. xReceivedEvent'[1] # "rx" /\ \A k \in DOMAIN v : v[k][1] # "rx"
    BY <1>5, <1>9, <2>2
  <2>4. xWaitingPacketsList' = <<>> /\ wire' = {}
    BY <1>1, <2>1 DEF NoAnswer, network
  <2> QED
    BY <2>3, <2>4 DEF NoAnswer, v
<1>12. "bridge" \notin bInterfaceUp =>
         /\ NoAnswer /\ ~dhcp /\ eDHCPState = "eInitialWait"
         /\ xReceivedEvent' # Dhcp /\ \A k \in DOMAIN v : v[k] # Dhcp
  <2>1. SUFFICES ASSUME "bridge" \notin bInterfaceUp
                 PROVE  /\ NoAnswer /\ ~dhcp /\ eDHCPState = "eInitialWait"
                        /\ xReceivedEvent' # Dhcp /\ \A k \in DOMAIN v : v[k] # Dhcp
    OBVIOUS
  <2>2. NoAnswer /\ ~dhcp /\ eDHCPState = "eInitialWait" /\ \A k \in DOMAIN q : q[k] # Dhcp
    BY <1>1, <2>1 DEF IInv, Pristine, Queued, q
  <2>3. \A j \in DOMAIN u : u[j] # Dhcp
    BY <1>4, <1>5, <2>2
  <2> QED
    BY <1>5, <1>9, <2>2, <2>3
<1>13. Pristine'
  <2>1. SUFFICES ASSUME "bridge" \notin bInterfaceUp' PROVE Pristine'
    BY DEF Pristine
  <2>2. Pristine /\ "bridge" \notin bInterfaceUp
    BY <1>1, <2>1 DEF IInv
  <2> QED
    BY <1>1, <1>2, <1>11, <1>12, <2>2 DEF Pristine, Queued, v, client, sockets
\* The event with which the client asks is behind all those of the bridge.
<1>14. \A j, k \in DOMAIN u : u[j] = Dhcp /\ u[k] = Down("bridge") => k < j
  <2>1. SUFFICES ASSUME NEW j \in DOMAIN u, NEW k \in DOMAIN u,
                        u[j] = Dhcp, u[k] = Down("bridge")
                 PROVE  k < j
    OBVIOUS
  <2>2. "bridge" \in bInterfaceUp
    <3>1. SUFFICES ASSUME "bridge" \notin bInterfaceUp PROVE FALSE
      OBVIOUS
    <3>2. ~dhcp /\ \A n \in DOMAIN q : q[n] # Dhcp
      BY <1>1, <3>1 DEF IInv, Pristine, Queued, q
    <3> QED
      BY <1>4, <1>5, <2>1, <3>2
  <2>3. k \in DOMAIN q /\ q[k] = Down("bridge")
    <3>1. \A i \in Interface \ bInterfaceUp : Down(i) # Down("bridge")
      BY <1>5, <1>6, <2>2
    <3> QED
      BY <1>4, <1>5, <1>6, <2>1, <3>1
  <2>4. CASE j \in DOMAIN q
    BY <1>4, <2>1, <2>3, <2>4 DEF IInv, AskedBehind, Order, q
  <2>5. CASE j \notin DOMAIN q
    BY <1>3, <1>4, <2>3, <2>5
  <2> QED
    BY <2>4, <2>5
<1>15. /\ \A j, k \in DOMAIN v : v[j] = Dhcp /\ v[k] = Down("bridge") => k < j
       /\ xReceivedEvent' = Dhcp => \A k \in DOMAIN v : v[k] # Down("bridge")
  <2>1. CASE u = <<>>
    BY <1>1, <1>2, <1>5, <2>1 DEF IInv, AskedBehind, Order, v
  <2>2. CASE u # <<>>
    <3>1. \A j, k \in DOMAIN v : v[j] = Dhcp /\ v[k] = Down("bridge") => k < j
      <4>1. SUFFICES ASSUME NEW j \in DOMAIN v, NEW k \in DOMAIN v,
                            v[j] = Dhcp, v[k] = Down("bridge")
                     PROVE  k < j
        OBVIOUS
      <4>2. k + 1 < j + 1 /\ k \in Nat /\ j \in Nat
        BY <1>7, <1>14, <2>2, <4>1
      <4> QED
        BY <4>2
    <3>2. ASSUME xReceivedEvent' = Dhcp, NEW k \in DOMAIN v, v[k] = Down("bridge") PROVE FALSE
      <4>1. k + 1 < 1 /\ k \in Nat
        BY <1>7, <1>14, <2>2, <3>2
      <4> QED
        BY <4>1
    <3> QED
      BY <3>1, <3>2
  <2> QED
    BY <2>1, <2>2
<1>16. AskedBehind'
  <2>1. BridgePending' => NoAnswer' /\ eDHCPState' \in {"eInitialWait", "eWaitingSendFirstDiscover"}
    BY <1>1, <1>10, <1>11, <1>12 DEF IInv, AskedBehind
  <2>2. pc' # "dhcp" /\ (pc' # "process" => xReceivedEvent' = NoEvent)
    BY <1>1, <1>2
  <2>3. BridgePending' => xReceivedEvent' # Dhcp
    <3>1. SUFFICES ASSUME BridgePending', xReceivedEvent' = Dhcp PROVE FALSE
      OBVIOUS
    <3>2. "bridge" \in bInterfaceUp
      BY <1>12, <3>1
    <3>3. "bridge" \notin bCallDownEvent' /\ ~Queued(Down("bridge"))'
      BY <1>2, <1>15, <3>1, <3>2 DEF Queued, v
    <3> QED
      BY <1>5, <1>6, <2>2, <3>1, <3>3 DEF BridgePending
  <2> QED
    BY <1>15, <2>1, <2>2, <2>3 DEF AskedBehind, Order, v
<1>17. TypeOK'
  <2>1. xReceivedEvent' \in Event \cup {NoEvent}
    BY <1>1, <1>2, <1>7
  <2>2. v \in Seq(Event) /\ bCallDownEvent' \subseteq Interface
        /\ pc' \in {"pending", "process", "dhcp"}
    BY <1>2, <1>7
  <2> QED
    BY <1>1, <2>1, <2>2 DEF IInv, TypeOK, client, sockets, call, network, v
<1> QED
  BY <1>1, <1>13, <1>16, <1>17, StaysSocket DEF IInv, ClientStays

(***************************************************************************)
(* A network-down event is processed, wherever it comes from.  Only one of *)
(* the bridge's interface has to do with the client, which it starts over. *)
(***************************************************************************)
LEMMA DownKeeps ==
  ASSUME IInv, NEW i \in Interface, ProcessNetworkDownEvent(i),
         i = "bridge" => BridgePending,
         pc # "dhcp", xReceivedEvent' = NoEvent,
         bCallDownEvent' \subseteq bCallDownEvent,
         UNCHANGED <<xNetworkEventQueue, xAllNetworksUp, eExpectedState, ulTransactionId,
                     xDHCPTxPeriod, ulDHCPServerAddress, ulIPAddress, sockets, xDHCP_RATimer,
                     xWaitingPacketsList, network>>
  PROVE  IInv'
<1>1. PICK passes \in BOOLEAN :
        /\ Initialises(i, passes)
        /\ bInterfaceInitialised' =
               IF i = "bridge" /\ ~passes THEN bInterfaceInitialised ELSE bInterfaceInitialised \cup {i}
        /\ ethEvents' = IF i = "eth" /\ ~passes THEN ethEvents - 1 ELSE ethEvents
        /\ bInterfaceUp' = IF passes THEN bInterfaceUp \cup {i} ELSE bInterfaceUp
        /\ bEndPointUp' = (bEndPointUp /\ i # "bridge")
        /\ IF passes /\ i = "bridge"
           THEN pc' = "dhcp" /\ eDHCPState' = "eInitialWait" /\ xReset' = TRUE /\ xDoProcess' = TRUE
           ELSE pc' = "pending" /\ UNCHANGED <<eDHCPState, call>>
  BY DEF ProcessNetworkDownEvent
<1>2. /\ NoEvent # Dhcp /\ NoEvent[1] = "no" /\ \A j \in Interface : Down(j) # NoEvent
  BY Events
<1>3. "bridge" \in Interface
  BY DEF Interface
<1>4. ethEvents' \in Nat
  <2>1. i = "eth" /\ ~passes => ethEvents > 0
    BY <1>1 DEF Initialises
  <2> QED
    BY <1>1, <2>1 DEF IInv, TypeOK
<1>5. TypeOK'
  <2>1. eDHCPState' \in DHCPState /\ xReset' \in BOOLEAN /\ xDoProcess' \in BOOLEAN
        /\ pc' \in {"pending", "process", "dhcp"} /\ bEndPointUp' \in BOOLEAN
    BY <1>1 DEF IInv, TypeOK, call, DHCPState
  <2>2. bInterfaceUp' \subseteq Interface /\ bInterfaceInitialised' \subseteq Interface
        /\ bCallDownEvent' \subseteq Interface
    BY <1>1 DEF IInv, TypeOK
  <2> QED
    BY <1>4, <2>1, <2>2 DEF IInv, TypeOK, sockets, network
<1>6. BridgePending' => BridgePending
  <2>1. CASE i = "bridge"
    BY <2>1
  <2>2. CASE i # "bridge"
    <3>1. pc' = "pending"
      BY <1>1, <2>2
    <3> QED
      BY <1>2, <1>3, <3>1 DEF BridgePending, Queued
  <2> QED
    BY <2>1, <2>2
<1>7. NoAnswer => NoAnswer'
  BY <1>2 DEF NoAnswer, network
<1>8. Pristine'
  <2>1. SUFFICES ASSUME "bridge" \notin bInterfaceUp' PROVE Pristine'
    BY DEF Pristine
  <2>2. Pristine /\ "bridge" \notin bInterfaceUp /\ ~(passes /\ i = "bridge")
    BY <1>1, <2>1 DEF IInv
  <2> QED
    BY <1>1, <1>2, <1>7, <2>2 DEF Pristine, Queued, sockets
<1>9. AskedBehind'
  <2>1. eDHCPState' = eDHCPState \/ eDHCPState' = "eInitialWait"
    BY <1>1
  <2>2. pc' = "dhcp" => xReset' /\ eDHCPState' = "eInitialWait"
    BY <1>1
  <2>3. BridgePending' =>
          NoAnswer' /\ eDHCPState' \in {"eInitialWait", "eWaitingSendFirstDiscover"}
    BY <1>6, <1>7, <2>1 DEF IInv, AskedBehind
  <2> QED
    BY <1>2, <2>2, <2>3 DEF IInv, AskedBehind, Order
<1>10. OneUser' /\ ServerKnown'
  BY <1>1 DEF IInv, OneUser, ServerKnown, sockets
<1>11. SocketFollowsState'
  <2>1. CASE i = "bridge"
    <3>1. ~AtRest
      BY <2>1 DEF IInv, AskedBehind, AtRest
    <3>2. ~AtRest' /\ (Waiting' => Waiting)
      BY <1>1, <3>1 DEF AtRest, Waiting
    <3> QED
      BY <3>2 DEF IInv, SocketFollowsState, sockets
  <2>2. CASE i # "bridge"
    BY <1>1, <2>2, StaysSocket
    DEF IInv, SocketFollowsState, AtRest, Waiting, sockets
  <2> QED
    BY <2>1, <2>2
<1> QED
  BY <1>5, <1>8, <1>9, <1>10, <1>11 DEF IInv

LEMMA ProcessDownKeeps == ASSUME IInv, ProcessDown PROVE IInv'
<1>1. pc = "process" /\ xReceivedEvent' = NoEvent /\ xReceivedEvent[1] = "down"
  BY DEF ProcessDown, AtEvent
<1>2. PICK i \in Interface : xReceivedEvent = Down(i)
  BY <1>1, Events DEF IInv, TypeOK
<1>3. xReceivedEvent[2] = i
  BY <1>2, Events
<1>4. ProcessNetworkDownEvent(i)
  BY <1>3 DEF ProcessDown
<1>5. i = "bridge" => BridgePending
  BY <1>2 DEF BridgePending
<1> QED
  BY <1>1, <1>4, <1>5, DownKeeps DEF ProcessDown

LEMMA ProcessPendingKeeps ==
  ASSUME IInv, NEW i \in Interface, ProcessPending(i) PROVE IInv'
<1>1. pc = "pending" /\ i \in bCallDownEvent
  BY DEF ProcessPending
<1>2. xReceivedEvent' = NoEvent /\ bCallDownEvent' \subseteq bCallDownEvent
  BY <1>1 DEF ProcessPending, IInv, AskedBehind
<1>3. i = "bridge" => BridgePending
  BY <1>1 DEF BridgePending
<1> QED
  BY <1>1, <1>2, <1>3, DownKeeps DEF ProcessPending

-----------------------------------------------------------------------------
(* The steps of the client. *)

\* Of the IP task, such a step changes its place and the arguments of the call.
ClientStep ==
  /\ pc = "dhcp"
  /\ UNCHANGED <<xReceivedEvent, xNetworkEventQueue, interfaces, eExpectedState, ethEvents>>
  /\ \/ pc' = "pending" /\ xReset' = FALSE
     \/ pc' = "dhcp" /\ xReset' = xReset
  /\ xDoProcess' \in BOOLEAN

LEMMA ClientSteps ==
  ASSUME IInv
  PROVE  /\ AtPacket /\ xDoProcess' \in BOOLEAN => ClientStep
         /\ AfterPackets => ClientStep
         /\ AtPacket => ~BridgePending
         /\ pc = "dhcp" /\ eDHCPState # "eInitialWait" => ~BridgePending
BY DEF IInv, AskedBehind, NoAnswer, AtPacket, AfterPackets, ClientStep

\* A client that may have been started over does nothing but ask for its address.
LEMMA ClientKeeps ==
  ASSUME IInv, ClientStep,
         \/ ~BridgePending
         \/ /\ UNCHANGED <<xWaitingPacketsList, wire>> /\ pc' = "pending"
            /\ eDHCPState' \in {"eInitialWait", "eWaitingSendFirstDiscover"}
  PROVE  Pristine' /\ AskedBehind'
<1>1. "bridge" \in bInterfaceUp
  BY DEF IInv, Pristine, ClientStep
<1>2. BridgePending' => BridgePending
  BY DEF ClientStep, BridgePending, Queued, interfaces
<1>3. Pristine'
  BY <1>1 DEF Pristine, ClientStep, interfaces
<1>6. Order' /\ (pc' # "process" => xReceivedEvent' = NoEvent)
  <2>1. Order /\ xReceivedEvent = NoEvent
    BY DEF IInv, AskedBehind, ClientStep
  <2>2. xNetworkEventQueue' = xNetworkEventQueue /\ xReceivedEvent' = xReceivedEvent
    BY DEF ClientStep
  <2> QED
    BY <2>1, <2>2 DEF Order
<1>4. CASE ~BridgePending
  <2>1. ~BridgePending' /\ ~(pc' = "dhcp" /\ xReset')
    BY <1>2, <1>4 DEF BridgePending
  <2> QED
    BY <1>3, <1>6, <2>1 DEF AskedBehind, Order
<1>5. CASE /\ UNCHANGED <<xWaitingPacketsList, wire>> /\ pc' = "pending"
           /\ eDHCPState' \in {"eInitialWait", "eWaitingSendFirstDiscover"}
  <2>1. NoAnswer => NoAnswer'
    BY <1>5 DEF NoAnswer, ClientStep
  <2>2. BridgePending' => NoAnswer' /\ xReceivedEvent' # Dhcp
    BY <1>2, <2>1 DEF IInv, AskedBehind, ClientStep
  <2> QED
    BY <1>3, <1>5, <1>6, <2>2 DEF AskedBehind, Order
<1> QED
  BY <1>3, <1>4, <1>5

\* The types of what such a step leaves.
ClientType ==
  /\ bEndPointUp' \in BOOLEAN /\ eDHCPState' \in DHCPState
  /\ ulTransactionId' \in Nat /\ xDHCPTxPeriod' \in Nat
  /\ ulDHCPServerAddress' \in Servers \cup {None}
  /\ ulIPAddress' \in {"zero", "default", "leased"}
  /\ xDHCPSocket' \in BOOLEAN /\ pxEndPointSocket' \in BOOLEAN /\ xDHCPSocketUserCount' \in Nat
  /\ xWaitingPacketsList' \in Seq(Answer)
  /\ xDHCP_RATimer' \in {"off", "running"}
  /\ wire' \subseteq Answer /\ offers' \in [Servers -> Nat] /\ naks' \in Nat

LEMMA ClientTyped == ASSUME IInv, ClientStep, ClientType PROVE TypeOK'
<1>1. pc' \in {"pending", "process", "dhcp"} /\ xReset' \in BOOLEAN
  BY DEF IInv, TypeOK, ClientStep
<1> QED
  BY <1>1 DEF IInv, TypeOK, ClientStep, ClientType, interfaces

LEMMA Networked ==
  ASSUME TypeOK
  PROVE  /\ \A id \in Nat : SendDiscover(id) =>
              wire' \subseteq Answer /\ offers' \in [Servers -> Nat] /\ naks' \in Nat
         /\ \A s \in Servers : SendRequest(s) =>
              wire' \subseteq Answer /\ offers' \in [Servers -> Nat] /\ naks' \in Nat
         /\ UNCHANGED network \/ LosesRest =>
              wire' \subseteq Answer /\ offers' \in [Servers -> Nat] /\ naks' \in Nat
<1>1. ASSUME NEW id \in Nat, SendDiscover(id)
      PROVE  wire' \subseteq Answer /\ offers' \in [Servers -> Nat] /\ naks' \in Nat
  <2>1. PICK S \in SUBSET {s \in Servers : offers[s] > 0} :
          /\ wire' = {m \in wire : m.id = id}
                         \cup {[kind |-> "offer", server |-> s, id |-> id] : s \in S}
          /\ offers' = [s \in Servers |-> IF s \in S THEN offers[s] - 1 ELSE offers[s]]
          /\ UNCHANGED naks
    BY <1>1 DEF SendDiscover
  <2>2. \A s \in S : [kind |-> "offer", server |-> s, id |-> id] \in Answer
    BY DEF Answer
  <2>3. \A s \in Servers : s \in S => offers[s] > 0
    BY <2>1
  <2>4. offers' \in [Servers -> Nat]
    BY <2>1, <2>3 DEF TypeOK
  <2> QED
    BY <2>1, <2>2, <2>4 DEF TypeOK
<1>2. ASSUME NEW s \in Servers, SendRequest(s)
      PROVE  wire' \subseteq Answer /\ offers' \in [Servers -> Nat] /\ naks' \in Nat
  <2>1. PICK kind \in {"ack", "nak"} :
          /\ wire' = wire \cup {[kind |-> kind, server |-> s, id |-> ulTransactionId]}
          /\ IF kind = "nak" THEN naks > 0 /\ naks' = naks - 1 ELSE UNCHANGED naks
    BY <1>2 DEF SendRequest
  <2>2. [kind |-> kind, server |-> s, id |-> ulTransactionId] \in Answer
    BY DEF Answer, TypeOK
  <2> QED
    BY <1>2, <2>1, <2>2 DEF TypeOK, SendRequest
<1>3. UNCHANGED network \/ LosesRest =>
        wire' \subseteq Answer /\ offers' \in [Servers -> Nat] /\ naks' \in Nat
  BY DEF TypeOK, LosesRest, network
<1> QED
  BY <1>1, <1>2, <1>3

\* The packet at the head of the list.
LEMMA FirstPacket ==
  ASSUME TypeOK, xWaitingPacketsList # <<>>
  PROVE  Head(xWaitingPacketsList) \in Answer /\ Tail(xWaitingPacketsList) \in Seq(Answer)
BY HeadTailProperties DEF TypeOK

\* The socket after it was created.
LEMMA Created ==
  ASSUME TypeOK, OneUser, CreateSocket
  PROVE  xDHCPSocket' = TRUE /\ pxEndPointSocket' = TRUE /\ xDHCPSocketUserCount' = 1
BY DEF OneUser, CreateSocket, TypeOK

\* And after it was closed.
LEMMA Closed ==
  ASSUME TypeOK, OneUser, NEW rest \in Seq(Answer), CloseSocket(rest),
         xDHCPSocket \/ rest = <<>>
  PROVE  /\ xDHCPSocket' = FALSE /\ pxEndPointSocket' = FALSE /\ xDHCPSocketUserCount' = 0
         /\ xWaitingPacketsList' = <<>>
<1>1. CASE xDHCPSocket
  <2>1. pxEndPointSocket /\ xDHCPSocketUserCount = 1
    BY <1>1 DEF OneUser, TypeOK
  <2>2. xDHCPSocketUserCount > 0 /\ ~(xDHCPSocketUserCount > 1) /\ xDHCPSocketUserCount - 1 = 0
    BY <2>1
  <2>3. /\ xDHCPSocketUserCount' = xDHCPSocketUserCount - 1
        /\ xDHCPSocket' = (xDHCPSocketUserCount > 1)
        /\ pxEndPointSocket' = FALSE
        /\ xWaitingPacketsList' = IF xDHCPSocketUserCount > 1 THEN rest ELSE <<>>
    BY <1>1, <2>1, <2>2 DEF CloseSocket
  <2>4. xDHCPSocket' = FALSE
    <3> DEFINE more == xDHCPSocketUserCount > 1
    <3>1. more = FALSE
      BY <2>2
    <3>2. xDHCPSocket' = more
      BY <2>3
    <3> QED
      BY <3>1, <3>2
  <2>5. xDHCPSocketUserCount' = 0 /\ xWaitingPacketsList' = <<>>
    BY <2>2, <2>3
  <2> QED
    BY <2>3, <2>4, <2>5
<1>2. CASE ~xDHCPSocket
  <2>1. UNCHANGED sockets /\ xWaitingPacketsList' = rest
    BY <1>2 DEF CloseSocket
  <2> QED
    BY <1>2, <2>1 DEF OneUser, TypeOK, sockets
<1> QED
  BY <1>1, <1>2

\* What the proofs of all these steps take from the invariant.
LEMMA Known ==
  ASSUME IInv
  PROVE  TypeOK /\ OneUser /\ ServerKnown /\ SocketFollowsState
BY DEF IInv

LEMMA RemoveKeeps == ASSUME IInv, Remove PROVE IInv'
<1>1. ClientStep /\ ~BridgePending
  BY ClientSteps DEF Remove, IInv, TypeOK
<1>2. xWaitingPacketsList # <<>> /\ xDHCPSocket
  BY DEF Remove, AtPacket
<1>3. Tail(xWaitingPacketsList) \in Seq(Answer)
  BY <1>2, FirstPacket, Known
<1>4. ClientType
  BY <1>3, Known DEF Remove, TypeOK, ClientType, client, sockets, network
<1>5. ~AtRest
  BY <1>2, Known DEF SocketFollowsState
<1> QED
  BY <1>1, <1>2, <1>4, <1>5, ClientKeeps, ClientTyped, StaysSocket DEF IInv, Remove, ClientStays

LEMMA IgnoreKeeps == ASSUME IInv, Ignore PROVE IInv'
<1>1. ClientStep /\ ~BridgePending
  BY ClientSteps DEF Ignore, AtAnswer
<1>2. ClientType
  BY Known DEF Ignore, TypeOK, ClientType, client, sockets, network
<1> QED
  BY <1>1, <1>2, ClientKeeps, ClientTyped, StaysSocket DEF IInv, Ignore, ClientStays

LEMMA NoTurnKeeps == ASSUME IInv, NoTurn PROVE IInv'
<1>1. ClientStep /\ pc' = "pending"
  BY ClientSteps DEF NoTurn, AfterPackets
<1>2. ClientType
  BY Known DEF NoTurn, TypeOK, ClientType, client, sockets, network
<1>3. ~BridgePending \/ eDHCPState' \in {"eInitialWait", "eWaitingSendFirstDiscover"}
  BY DEF IInv, AskedBehind, NoTurn
<1> QED
  BY <1>1, <1>2, <1>3, ClientKeeps, ClientTyped, StaysSocket
  DEF IInv, NoTurn, ClientStays, network

LEMMA KeepWaitingKeeps == ASSUME IInv, KeepWaiting PROVE IInv'
<1>1. ClientStep /\ ~BridgePending
  BY ClientSteps DEF KeepWaiting, AtTurn, AfterPackets
<1>2. ClientType
  BY Known DEF KeepWaiting, TypeOK, ClientType, client, sockets, network
<1> QED
  BY <1>1, <1>2, ClientKeeps, ClientTyped, StaysSocket DEF IInv, KeepWaiting, ClientStays

LEMMA TakeOfferKeeps == ASSUME IInv, TakeOffer PROVE IInv'
<1> DEFINE m == Head(xWaitingPacketsList)
<1>1. ClientStep /\ ~BridgePending
  BY ClientSteps DEF TakeOffer, AtAnswer
<1>2. /\ xDHCPSocket /\ m \in Answer /\ eDHCPState = "eWaitingOffer"
      /\ xWaitingPacketsList' \in Seq(Answer)
  BY FirstPacket, Known DEF TakeOffer, AtAnswer, AtPacket
<1>3. UNCHANGED <<ulTransactionId, ulIPAddress, sockets, xDHCP_RATimer, bEndPointUp>>
  BY DEF TakeOffer
<1>4. /\ wire' \subseteq Answer /\ offers' \in [Servers -> Nat] /\ naks' \in Nat
      /\ eDHCPState' \in {"eWaitingOffer", "eWaitingAcknowledge"}
      /\ ulDHCPServerAddress' \in Servers \cup {None} /\ xDHCPTxPeriod' \in Nat
      /\ eDHCPState' = "eWaitingAcknowledge" => ulDHCPServerAddress' \in Servers
  <2>1. CASE m.kind = "offer"
    <3>1. /\ ulDHCPServerAddress' = m.server /\ xDHCPTxPeriod' = 0
          /\ SendRequest(m.server) /\ eDHCPState' = "eWaitingAcknowledge"
      BY <2>1 DEF TakeOffer
    <3>2. m.server \in Servers
      BY <1>2 DEF Answer
    <3> QED
      BY <3>1, <3>2, Known, Networked
  <2>2. CASE m.kind # "offer"
    BY <1>2, <2>2, Known DEF TakeOffer, TypeOK, network
  <2> QED
    BY <2>1, <2>2
<1>5. ClientType
  BY <1>2, <1>3, <1>4, Known DEF TypeOK, ClientType, sockets, DHCPState
<1>6. OneUser' /\ ServerKnown'
  BY <1>2, <1>3, <1>4, Known DEF OneUser, ServerKnown, sockets
<1>7. SocketFollowsState'
  BY <1>2, <1>3, <1>4, Known DEF SocketFollowsState, AtRest, Waiting, sockets
<1> QED
  BY <1>1, <1>5, <1>6, <1>7, ClientKeeps, ClientTyped DEF IInv

LEMMA TakeAcknowledgeKeeps == ASSUME IInv, TakeAcknowledge PROVE IInv'
<1> DEFINE m == Head(xWaitingPacketsList)
           rest == Tail(xWaitingPacketsList)
<1>1. ClientStep /\ ~BridgePending
  BY ClientSteps DEF TakeAcknowledge, AtAnswer
<1>2. /\ xDHCPSocket /\ m \in Answer /\ eDHCPState = "eWaitingAcknowledge"
      /\ rest \in Seq(Answer)
  BY FirstPacket, Known DEF TakeAcknowledge, AtAnswer, AtPacket
<1>3. UNCHANGED <<ulTransactionId, xDHCPTxPeriod, ulDHCPServerAddress>>
  BY DEF TakeAcknowledge
<1> HIDE DEF m, rest
<1>4. CASE Acknowledges(m)
  <2>1. /\ ulIPAddress' = "leased" /\ eDHCPState' = "eLeasedAddress" /\ bEndPointUp' = TRUE
        /\ xDHCP_RATimer' = "running" /\ CloseSocket(rest) /\ LosesRest
    BY <1>4 DEF TakeAcknowledge, m, rest
  <2>2. /\ xDHCPSocket' = FALSE /\ pxEndPointSocket' = FALSE /\ xDHCPSocketUserCount' = 0
        /\ xWaitingPacketsList' = <<>>
    BY <1>2, <2>1, Closed, Known
  <2>3. ClientType
    <3>1. wire' \subseteq Answer /\ offers' \in [Servers -> Nat] /\ naks' \in Nat
      BY <2>1, Networked, Known
    <3>2. xWaitingPacketsList' \in Seq(Answer) /\ xDHCPSocketUserCount' \in Nat
      BY <2>2
    <3> QED
      BY <1>3, <2>1, <2>2, <3>1, <3>2, Known DEF TypeOK, ClientType, DHCPState
  <2>4. OneUser' /\ ServerKnown' /\ SocketFollowsState'
    BY <1>2, <1>3, <2>1, <2>2, Known DEF OneUser, ServerKnown, SocketFollowsState, AtRest, Waiting
  <2> QED
    BY <1>1, <2>3, <2>4, ClientKeeps, ClientTyped DEF IInv
<1>5. CASE ~Acknowledges(m)
  <2>1. /\ eDHCPState' = IF m.kind = "nak" THEN "eInitialWait" ELSE eDHCPState
        /\ xWaitingPacketsList' = rest
        /\ UNCHANGED <<ulIPAddress, bEndPointUp, xDHCP_RATimer, sockets, network>>
    BY <1>5 DEF TakeAcknowledge, m, rest
  <2>2. ClientType
    BY <1>2, <1>3, <2>1, Known DEF TypeOK, ClientType, sockets, network, DHCPState
  <2>3. OneUser' /\ ServerKnown' /\ SocketFollowsState'
    BY <1>2, <1>3, <2>1, Known DEF OneUser, ServerKnown, SocketFollowsState, AtRest, Waiting, sockets
  <2> QED
    BY <1>1, <2>2, <2>3, ClientKeeps, ClientTyped DEF IInv
<1> QED
  BY <1>4, <1>5

\* A client that acts on its event.
LEMMA AtStep ==
  ASSUME IInv, NEW state, At(state)
  PROVE  ClientStep /\ eDHCPState = state /\ (~BridgePending \/ pc' = "pending")
BY ClientSteps DEF At, AtTurn, AtAnswer, AfterPackets

LEMMA InitialWaitKeeps == ASSUME IInv, InitialWait PROVE IInv'
<1>1. ClientStep /\ (~BridgePending \/ pc' = "pending")
  BY AtStep DEF InitialWait
<1>2. /\ ulTransactionId' = ulTransactionId + 1 /\ ulDHCPServerAddress' = None
      /\ xDHCPTxPeriod' = 0 /\ CreateSocket /\ xDHCP_RATimer' = "running"
      /\ eDHCPState' = "eWaitingSendFirstDiscover"
      /\ UNCHANGED <<ulIPAddress, bEndPointUp, xWaitingPacketsList, network>>
  BY DEF InitialWait
<1>3. xDHCPSocket' = TRUE /\ pxEndPointSocket' = TRUE /\ xDHCPSocketUserCount' = 1
  BY <1>2, Created, Known
<1>4. ClientType
  BY <1>2, <1>3, Known DEF TypeOK, ClientType, network, DHCPState
<1>5. OneUser' /\ ServerKnown' /\ SocketFollowsState'
  BY <1>2, <1>3 DEF OneUser, ServerKnown, SocketFollowsState, AtRest, Waiting
<1> QED
  BY <1>1, <1>2, <1>4, <1>5, ClientKeeps, ClientTyped DEF IInv, network

LEMMA SendFirstDiscoverKeeps == ASSUME IInv, SendFirstDiscover PROVE IInv'
<1>1. ClientStep /\ eDHCPState = "eWaitingSendFirstDiscover"
  BY AtStep DEF SendFirstDiscover
<1>2. ~BridgePending
  BY <1>1, ClientSteps DEF ClientStep
<1>3. /\ ulIPAddress' = "zero" /\ SendDiscover(ulTransactionId) /\ eDHCPState' = "eWaitingOffer"
      /\ UNCHANGED <<ulTransactionId, xDHCPTxPeriod, ulDHCPServerAddress, sockets,
                     xDHCP_RATimer, bEndPointUp, xWaitingPacketsList>>
  BY DEF SendFirstDiscover
<1>4. wire' \subseteq Answer /\ offers' \in [Servers -> Nat] /\ naks' \in Nat
  BY <1>3, Known, Networked DEF TypeOK
<1>5. ClientType
  BY <1>3, <1>4, Known DEF TypeOK, ClientType, sockets, DHCPState
<1>6. OneUser' /\ ServerKnown' /\ SocketFollowsState'
  BY <1>1, <1>3, Known DEF OneUser, ServerKnown, SocketFollowsState, AtRest, Waiting, sockets
<1> QED
  BY <1>1, <1>2, <1>5, <1>6, ClientKeeps, ClientTyped DEF IInv

\* A timeout and a renewal.
LEMMA OfferTimeoutKeeps == ASSUME IInv, OfferTimeout PROVE IInv'
<1>1. ClientStep /\ eDHCPState = "eWaitingOffer"
      /\ (~xDHCPSocket \/ xWaitingPacketsList = <<>>)
  BY ClientSteps DEF OfferTimeout, AtTurn, AfterPackets
<1>2. ~BridgePending
  BY <1>1, ClientSteps DEF ClientStep
<1>3. xDHCPTxPeriod' \in Nat /\ UNCHANGED ulDHCPServerAddress
  BY Known DEF OfferTimeout, TypeOK
<1>4. CASE MayRepeat
  <2>1. /\ ulTransactionId' = ulTransactionId + 1 /\ SendDiscover(ulTransactionId')
        /\ UNCHANGED <<eDHCPState, ulIPAddress, xDHCP_RATimer, bEndPointUp, sockets,
                       xWaitingPacketsList>>
    BY <1>4 DEF OfferTimeout
  <2>2. ulTransactionId' \in Nat
    BY <2>1, Known DEF TypeOK
  <2>3. wire' \subseteq Answer /\ offers' \in [Servers -> Nat] /\ naks' \in Nat
    BY <2>1, <2>2, Known, Networked
  <2>4. ClientType
    BY <1>3, <2>1, <2>2, <2>3, Known DEF TypeOK, ClientType, sockets
  <2>5. OneUser' /\ ServerKnown' /\ SocketFollowsState'
    BY <1>1, <2>1, Known DEF OneUser, ServerKnown, SocketFollowsState, AtRest, Waiting, sockets
  <2> QED
    BY <1>1, <1>2, <2>4, <2>5, ClientKeeps, ClientTyped DEF IInv
<1>5. CASE ~MayRepeat
  <2>1. /\ ulIPAddress' = "default" /\ eDHCPState' = "eNotUsingLeasedAddress"
        /\ xDHCP_RATimer' = "off" /\ bEndPointUp' = TRUE
        /\ CloseSocket(xWaitingPacketsList) /\ LosesRest /\ UNCHANGED ulTransactionId
    BY <1>5 DEF OfferTimeout, GiveUp
  <2>2. /\ xDHCPSocket' = FALSE /\ pxEndPointSocket' = FALSE /\ xDHCPSocketUserCount' = 0
        /\ xWaitingPacketsList' = <<>>
    BY <1>1, <2>1, Closed, Known DEF TypeOK, OneUser
  <2>3. ClientType
    <3>1. wire' \subseteq Answer /\ offers' \in [Servers -> Nat] /\ naks' \in Nat
      BY <2>1, Networked, Known
    <3>2. xWaitingPacketsList' \in Seq(Answer) /\ xDHCPSocketUserCount' \in Nat
      BY <2>2
    <3> QED
      BY <1>3, <2>1, <2>2, <3>1, <3>2, Known DEF TypeOK, ClientType, DHCPState
  <2>4. OneUser' /\ ServerKnown' /\ SocketFollowsState'
    BY <2>1, <2>2 DEF OneUser, ServerKnown, SocketFollowsState, AtRest, Waiting
  <2> QED
    BY <1>1, <1>2, <2>3, <2>4, ClientKeeps, ClientTyped DEF IInv
<1> QED
  BY <1>4, <1>5

LEMMA AcknowledgeTimeoutKeeps == ASSUME IInv, AcknowledgeTimeout PROVE IInv'
<1>1. ClientStep /\ eDHCPState = "eWaitingAcknowledge"
  BY ClientSteps DEF AcknowledgeTimeout, AtTurn, AfterPackets
<1>2. ~BridgePending
  BY <1>1, ClientSteps DEF ClientStep
<1>3. /\ xDHCPTxPeriod' \in Nat
      /\ UNCHANGED <<ulTransactionId, ulDHCPServerAddress, ulIPAddress, sockets, xDHCP_RATimer,
                     bEndPointUp, xWaitingPacketsList>>
      /\ eDHCPState' \in {eDHCPState, "eInitialWait"}
  BY Known DEF AcknowledgeTimeout, TypeOK
<1>4. wire' \subseteq Answer /\ offers' \in [Servers -> Nat] /\ naks' \in Nat
  <2>1. CASE MayRepeat
    <3>1. SendRequest(ulDHCPServerAddress)
      BY <2>1 DEF AcknowledgeTimeout
    <3> QED
      BY <1>1, <3>1, Known, Networked DEF ServerKnown
  <2>2. CASE ~MayRepeat
    BY <2>2, Known, Networked DEF AcknowledgeTimeout
  <2> QED
    BY <2>1, <2>2
<1>5. ClientType
  BY <1>3, <1>4, Known DEF TypeOK, ClientType, sockets, DHCPState
<1>6. OneUser' /\ ServerKnown' /\ SocketFollowsState'
  BY <1>1, <1>3, Known DEF OneUser, ServerKnown, SocketFollowsState, AtRest, Waiting, sockets
<1> QED
  BY <1>1, <1>2, <1>5, <1>6, ClientKeeps, ClientTyped DEF IInv

LEMMA RenewLeaseKeeps == ASSUME IInv, RenewLease PROVE IInv'
<1>1. ClientStep /\ eDHCPState = "eLeasedAddress"
  BY ClientSteps DEF RenewLease, AtTurn, AfterPackets
<1>2. ~BridgePending /\ bEndPointUp /\ xWaitingPacketsList = <<>>
  BY <1>1, ClientSteps, Known DEF ClientStep, SocketFollowsState, AtRest
<1>3. /\ xDHCP_RATimer' = "running" /\ CreateSocket /\ xDHCPTxPeriod' = 0
      /\ SendRequest(ulDHCPServerAddress) /\ eDHCPState' = "eWaitingAcknowledge"
      /\ UNCHANGED <<ulTransactionId, ulDHCPServerAddress, ulIPAddress, bEndPointUp,
                     xWaitingPacketsList>>
  BY <1>2 DEF RenewLease
<1>4. xDHCPSocket' = TRUE /\ pxEndPointSocket' = TRUE /\ xDHCPSocketUserCount' = 1
  BY <1>3, Created, Known
<1>5. wire' \subseteq Answer /\ offers' \in [Servers -> Nat] /\ naks' \in Nat
  BY <1>1, <1>3, Known, Networked DEF ServerKnown
<1>6. ClientType
  BY <1>3, <1>4, <1>5, Known DEF TypeOK, ClientType, DHCPState
<1>7. OneUser' /\ ServerKnown' /\ SocketFollowsState'
  BY <1>1, <1>3, <1>4, Known DEF OneUser, ServerKnown, SocketFollowsState, AtRest, Waiting
<1> QED
  BY <1>1, <1>2, <1>6, <1>7, ClientKeeps, ClientTyped DEF IInv
-----------------------------------------------------------------------------
LEMMA NextKeeps == IInv /\ [Next]_vars => IInv'
<1> SUFFICES ASSUME IInv, [Next]_vars PROVE IInv'
  OBVIOUS
<1>1. CASE IpTask
  <2>1. ASSUME NEW dhcp \in BOOLEAN, NEW retry \in BOOLEAN, BeginTurn(dhcp, retry) PROVE IInv'
    BY <2>1, BeginTurnKeeps
  <2>2. ASSUME NEW i \in Interface, ProcessPending(i) PROVE IInv'
    BY <2>2, ProcessPendingKeeps
  <2> QED
    BY <1>1, <2>1, <2>2, ProcessRxKeeps, ProcessDhcpKeeps, ProcessDownKeeps, RemoveKeeps,
       IgnoreKeeps, TakeOfferKeeps, TakeAcknowledgeKeeps, NoTurnKeeps, InitialWaitKeeps,
       SendFirstDiscoverKeeps, KeepWaitingKeeps, OfferTimeoutKeeps, AcknowledgeTimeoutKeeps,
       RenewLeaseKeeps
    DEF IpTask, Timeout
<1>2. CASE LinkChanges
  BY <1>2, LinkChangesKeeps
<1>3. ASSUME NEW m \in wire, Deliver(m) PROVE IInv'
  BY <1>3, DeliverKeeps
<1>4. CASE UNCHANGED vars
  BY <1>4 DEF IInv, TypeOK, Pristine, AskedBehind, Order, OneUser, ServerKnown, SocketFollowsState, BridgePending,
              Queued, NoAnswer, AtRest, Waiting, vars, interfaces, client, sockets, call, network
<1> QED
  BY <1>1, <1>2, <1>3, <1>4 DEF Next

(***************************************************************************)
(* The inductive invariant of the device's start and its DHCP client, with *)
(* the types of all the variables (FreeRTOS_IP.c, FreeRTOS_DHCP.c).        *)
(***************************************************************************)
THEOREM StartInvariant == Spec => []IInv
BY InitEstablishes, NextKeeps, PTL DEF Spec

(***************************************************************************)
(* vDHCPProcess( pdTRUE ) starts the client over before it has asked any   *)
(* server only: never with an answer on the socket or on the way to it, so *)
(* that the loop over the packets never meets one it ignores for ever.     *)
(***************************************************************************)
THEOREM StartsOverUnasked == Spec => []RestartMeetsNoAnswer
<1>1. IInv => RestartMeetsNoAnswer
  BY DEF IInv, AskedBehind, BridgePending, NoAnswer, RestartMeetsNoAnswer
<1> QED
  BY <1>1, StartInvariant, PTL

(***************************************************************************)
(* A client at rest has closed its socket and kept no packet, and one that *)
(* waits has a socket with one user and a timer, however often it started  *)
(* over and whichever answers it met (prvCreateDHCPSocket,                 *)
(* prvCloseDHCPSocket and their callers).                                  *)
(***************************************************************************)
THEOREM OneSocketPerClient == Spec => []SocketFollowsState
<1>1. IInv => SocketFollowsState
  BY DEF IInv
<1> QED
  BY <1>1, StartInvariant, PTL
=============================================================================
