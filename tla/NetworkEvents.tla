---------------------------- MODULE NetworkEvents ----------------------------
(***************************************************************************)
(* How the device gets on the network: the IP task initialises the three   *)
(* interfaces with network-down events, tries again those that failed, and *)
(* then runs the DHCP client of the one end point, which belongs to the    *)
(* bridge's interface.                                                     *)
(*                                                                         *)
(* Everything here runs in the IP task, one step of its loop after the     *)
(* other.  What comes in between is what others put into its queue: the    *)
(* answers of the DHCP servers and other packets, and the EMAC task's      *)
(* event for a changed link.  Time is left out: a timer that runs may      *)
(* expire at any moment, and so may the wait for an answer.  A             *)
(* transaction id is a number of its own for each draw; that the code's    *)
(* 32-bit random numbers may repeat is left out.                           *)
(***************************************************************************)
EXTENDS Naturals, Sequences

CONSTANTS
    Servers,        \* the DHCP servers on the network
    None,           \* NULL
    QueueLength,    \* ipconfigEVENT_QUEUE_LENGTH
    MaxDoublings,   \* doublings of the transmit period up to ipconfigMAXIMUM_DISCOVER_TX_PERIOD
    MaxOffers,      \* bound: discovers each server answers
    MaxNaks,        \* bound: requests that are refused
    MaxEthEvents    \* bound: changes of the Ethernet link, and initialisations without one

\* Everything the IP task posts before its loop fits into its queue.
ASSUME EventsAssumption ==
    /\ QueueLength \in Nat /\ QueueLength >= 3
    /\ {MaxDoublings, MaxOffers, MaxNaks, MaxEthEvents} \subseteq Nat
    /\ None \notin Servers

VARIABLES
    pc,                     \* where the IP task is
    xReceivedEvent,
    xNetworkEventQueue,
    bInterfaceUp, bInterfaceInitialised, bCallDownEvent,    \* the interfaces with this bit set
    xAllNetworksUp,
    bEndPointUp,
    eDHCPState, eExpectedState, ulTransactionId, xDHCPTxPeriod, ulDHCPServerAddress,
    ulIPAddress,
    xDHCPSocket, pxEndPointSocket, xDHCPSocketUserCount,    \* global, end point's, users
    xWaitingPacketsList,    \* what waits on the DHCP socket
    xDHCP_RATimer,
    xReset, xDoProcess,     \* of the call of vDHCPProcess
    wire,                   \* the answers on their way to the device
    offers, naks, ethEvents     \* what is left of the bounds

interfaces == <<bInterfaceUp, bInterfaceInitialised, bCallDownEvent, xAllNetworksUp>>
sockets == <<xDHCPSocket, pxEndPointSocket, xDHCPSocketUserCount>>
client == <<ulTransactionId, xDHCPTxPeriod, ulDHCPServerAddress, ulIPAddress, sockets,
            xDHCP_RATimer, bEndPointUp>>
call == <<xReset, xDoProcess>>
network == <<wire, offers, naks>>
vars == <<pc, xReceivedEvent, xNetworkEventQueue, interfaces, client, eDHCPState, eExpectedState,
          xWaitingPacketsList, call, network, ethEvents>>

Interface == {"bridge", "eth", "plc"}

\* The order of FreeRTOS_AddNetworkInterface.
Before(i, j) == i = j \/ i = "bridge" \/ j = "plc"

Down(i) == <<"down", i>>
Rx(m) == <<"rx", m>>
Dhcp == <<"dhcp", "bridge">>
NoEvent == <<"no", "none">>

Answer == [kind : {"offer", "ack", "nak"}, server : Servers, id : Nat]

Room == Len(xNetworkEventQueue) < QueueLength
Posted(queue, e) == IF Len(queue) < QueueLength THEN Append(queue, e) ELSE queue
Post(e) == xNetworkEventQueue' = Posted(xNetworkEventQueue, e)

-----------------------------------------------------------------------------
(* The others: the drivers' tasks and the network *)

\* The EMAC task waits for room, and leaves bInterfaceUp alone.
LinkChanges ==
    /\ ethEvents > 0 /\ Room /\ "eth" \in bInterfaceInitialised
    /\ ethEvents' = ethEvents - 1
    /\ Post(Down("eth"))
    /\ UNCHANGED <<pc, xReceivedEvent, interfaces, client, eDHCPState, eExpectedState,
                   xWaitingPacketsList, call, network>>

\* An answer reaches the queue; one that stays on the wire is lost or late.
Deliver(m) ==
    /\ m \in wire /\ Room
    /\ wire' = wire \ {m}
    /\ Post(Rx(m))
    /\ UNCHANGED <<pc, xReceivedEvent, interfaces, client, eDHCPState, eExpectedState,
                   xWaitingPacketsList, call, offers, naks, ethEvents>>

-----------------------------------------------------------------------------
(* The loop of the IP task *)

\* Mutant: bInterfaceUp is not looked at.
MutMayRetry(i) == TRUE

MayRetry(i) == i \notin bInterfaceUp

\* FreeRTOS_NetworkDown for an interface that is not up: the queue after it, and
\* whether the event is left for later (bCallDownEvent).
NetworkDown(i, retry, queue) == IF retry /\ MayRetry(i) THEN Posted(queue, Down(i)) ELSE queue
LeftOver(i, retry, queue) ==
    IF retry /\ MayRetry(i) /\ Len(queue) >= QueueLength THEN {i} ELSE {}

\* Mutant: the state is not noted.
MutExpected(posts) == eExpectedState

\* xSendDHCPEvent notes the state for which it posts its event.
Expected(posts) == IF posts THEN eDHCPState ELSE eExpectedState

\* A turn begins with prvCheckNetworkTimers: when the DHCP timer expired, an
\* event for the state the client is in; and while not all interfaces were up,
\* and the network timer expired, those that are not are initialised again.
\* Then an event is taken, or the wait for one is over.  (What is posted between
\* the two might as well be posted after them.)  Bound: the timer does not expire
\* while an event of the client is still in the queue.
BeginTurn(dhcp, retry) ==
    /\ pc = "pending" /\ bCallDownEvent = {}
    /\ dhcp => /\ xDHCP_RATimer = "running"
               /\ \A k \in DOMAIN xNetworkEventQueue : xNetworkEventQueue[k] # Dhcp    \* bound
    /\ retry => ~xAllNetworksUp
    /\ eExpectedState' = Expected(dhcp)
    /\ xAllNetworksUp' = (xAllNetworksUp \/ (retry /\ bInterfaceUp = Interface))
    /\ LET q0 == IF dhcp THEN Posted(xNetworkEventQueue, Dhcp) ELSE xNetworkEventQueue
           q1 == NetworkDown("bridge", retry, q0)
           q2 == NetworkDown("eth", retry, q1)
           queue == NetworkDown("plc", retry, q2)
       IN  /\ bCallDownEvent' = LeftOver("bridge", retry, q0) \cup LeftOver("eth", retry, q1)
                                    \cup LeftOver("plc", retry, q2)
           /\ IF queue = <<>>
              THEN pc' = "pending" /\ UNCHANGED <<xReceivedEvent, xNetworkEventQueue>>
              ELSE /\ pc' = "process"
                   /\ xReceivedEvent' = Head(queue)
                   /\ xNetworkEventQueue' = Tail(queue)
    /\ UNCHANGED <<bInterfaceUp, bInterfaceInitialised, client, eDHCPState,
                   xWaitingPacketsList, call, network, ethEvents>>

\* What the task has done with is forgotten.
AtEvent == pc = "process" /\ xReceivedEvent' = NoEvent

\* xProcessReceivedUDPPacket: an answer goes to the socket, if there is one, and
\* the client gets an event.
ProcessRx ==
    /\ AtEvent /\ xReceivedEvent[1] = "rx"
    /\ pc' = "pending"
    /\ eExpectedState' = Expected(xDHCPSocket)
    /\ IF xDHCPSocket
       THEN /\ xWaitingPacketsList' = Append(xWaitingPacketsList, xReceivedEvent[2])
            /\ Post(Dhcp)
       ELSE UNCHANGED <<xWaitingPacketsList, xNetworkEventQueue>>
    /\ UNCHANGED <<interfaces, client, eDHCPState, call, network, ethEvents>>

\* vDHCPProcess is called
ProcessDhcp ==
    /\ AtEvent /\ xReceivedEvent[1] = "dhcp"
    /\ pc' = "dhcp"
    /\ xReset' = FALSE /\ xDoProcess' = TRUE
    /\ UNCHANGED <<xNetworkEventQueue, interfaces, client, eDHCPState, eExpectedState,
                   xWaitingPacketsList, network, ethEvents>>

\* The initialise functions: the bridge's fails until the other two were
\* initialised, the Ethernet driver's gives the link's state, the other's succeeds.
Initialises(i, passes) ==
    CASE i = "bridge" -> passes = ({"eth", "plc"} \subseteq bInterfaceInitialised)
      [] i = "eth" -> passes \/ ethEvents > 0
      [] i = "plc" -> passes = TRUE

\* prvProcessNetworkDownEvent; the bridge's interface has the end point, and
\* goes on with vDHCPProcess( pdTRUE ).
ProcessNetworkDownEvent(i) ==
    \E passes \in BOOLEAN :
        /\ Initialises(i, passes)
        /\ bInterfaceInitialised' =
               IF i = "bridge" /\ ~passes THEN bInterfaceInitialised ELSE bInterfaceInitialised \cup {i}
        /\ ethEvents' = IF i = "eth" /\ ~passes THEN ethEvents - 1 ELSE ethEvents
        /\ bInterfaceUp' = IF passes THEN bInterfaceUp \cup {i} ELSE bInterfaceUp
        /\ bEndPointUp' = (bEndPointUp /\ i # "bridge")
        /\ IF passes /\ i = "bridge"
           THEN /\ pc' = "dhcp"
                /\ eDHCPState' = "eInitialWait"
                /\ xReset' = TRUE /\ xDoProcess' = TRUE
           ELSE /\ pc' = "pending"
                /\ UNCHANGED <<eDHCPState, call>>

ProcessDown ==
    /\ AtEvent /\ xReceivedEvent[1] = "down"
    /\ ProcessNetworkDownEvent(xReceivedEvent[2])
    /\ UNCHANGED <<xNetworkEventQueue, bCallDownEvent, xAllNetworksUp, eExpectedState,
                   ulTransactionId, xDHCPTxPeriod, ulDHCPServerAddress, ulIPAddress, sockets,
                   xDHCP_RATimer, xWaitingPacketsList, network>>

\* The down events that found no room, in the order of the interfaces.
ProcessPending(i) ==
    /\ pc = "pending" /\ i \in bCallDownEvent
    /\ \A j \in bCallDownEvent : Before(i, j)
    /\ ProcessNetworkDownEvent(i)
    /\ bCallDownEvent' = bCallDownEvent \ {i}
    /\ UNCHANGED <<xReceivedEvent, xNetworkEventQueue, xAllNetworksUp, eExpectedState, ulTransactionId,
                   xDHCPTxPeriod, ulDHCPServerAddress, ulIPAddress, sockets, xDHCP_RATimer,
                   xWaitingPacketsList, network>>

-----------------------------------------------------------------------------
(* The DHCP client *)

\* Mutant: a socket that is still valid gets another user.
MutCreateSocket ==
    /\ xDHCPSocket' = TRUE
    /\ pxEndPointSocket' = TRUE
    /\ xDHCPSocketUserCount' = IF ~xDHCPSocket THEN 1 ELSE xDHCPSocketUserCount + 1

\* prvCreateDHCPSocket
CreateSocket ==
    /\ xDHCPSocket' = TRUE
    /\ pxEndPointSocket' = TRUE
    /\ xDHCPSocketUserCount' =
           IF ~xDHCPSocket THEN 1
           ELSE IF pxEndPointSocket THEN xDHCPSocketUserCount
           ELSE xDHCPSocketUserCount + 1

\* prvCloseDHCPSocket, with the packets rest on the socket
CloseSocket(rest) ==
    IF xDHCPSocket /\ pxEndPointSocket /\ xDHCPSocketUserCount > 0
    THEN /\ xDHCPSocketUserCount' = xDHCPSocketUserCount - 1
         /\ xDHCPSocket' = (xDHCPSocketUserCount > 1)
         /\ pxEndPointSocket' = FALSE
         /\ xWaitingPacketsList' = IF xDHCPSocketUserCount > 1 THEN rest ELSE <<>>
    ELSE UNCHANGED sockets /\ xWaitingPacketsList' = rest

\* prvSendDHCPDiscover: some of the servers will answer with an offer.  Bound: an
\* answer to another transaction that has not arrived by now is lost.
SendDiscover(id) ==
    \E S \in SUBSET {s \in Servers : offers[s] > 0} :
        /\ wire' = {m \in wire : m.id = id}
                       \cup {[kind |-> "offer", server |-> s, id |-> id] : s \in S}
        /\ offers' = [s \in Servers |-> IF s \in S THEN offers[s] - 1 ELSE offers[s]]
        /\ UNCHANGED naks

\* prvSendDHCPRequest: the server it names acknowledges, or it refuses.
SendRequest(server) ==
    /\ UNCHANGED offers
    /\ \E kind \in {"ack", "nak"} :
        /\ wire' = wire \cup {[kind |-> kind, server |-> server, id |-> ulTransactionId]}
        /\ IF kind = "nak" THEN naks > 0 /\ naks' = naks - 1 ELSE UNCHANGED naks

\* Bound: an answer that has not arrived when the client comes to rest is lost.
LosesRest == wire' = {} /\ UNCHANGED <<offers, naks>>

\* vIPNetworkUpCalls with the default address, when the client gives up.
GiveUp ==
    /\ ulIPAddress' = "default"
    /\ eDHCPState' = "eNotUsingLeasedAddress"
    /\ xDHCP_RATimer' = "off"
    /\ bEndPointUp' = TRUE
    /\ CloseSocket(xWaitingPacketsList)

Ours(m) == m.id = ulTransactionId /\ eDHCPState # "eLeasedAddress"

\* The loop of vDHCPProcess over the packets on the socket.
AtPacket ==
    /\ pc = "dhcp" /\ xDHCPSocket /\ xWaitingPacketsList # <<>>
    /\ UNCHANGED <<pc, xReceivedEvent, xNetworkEventQueue, interfaces, eExpectedState, xReset, ethEvents>>

\* No end point expects it: it is fetched and released.
Remove ==
    /\ AtPacket /\ ~Ours(Head(xWaitingPacketsList))
    /\ xWaitingPacketsList' = Tail(xWaitingPacketsList)
    /\ UNCHANGED <<client, eDHCPState, xDoProcess, network>>

\* vDHCPProcessEndPoint( pdFALSE, pdTRUE ) for the packet that was peeked
AtAnswer ==
    /\ AtPacket /\ Ours(Head(xWaitingPacketsList))
    /\ xDoProcess' = FALSE

\* The event was for another state: ignored, and the packet stays where it is.
Ignore ==
    /\ AtAnswer /\ eDHCPState # eExpectedState
    /\ UNCHANGED <<client, eDHCPState, xWaitingPacketsList, network>>

TakeOffer ==
    /\ AtAnswer /\ eExpectedState = eDHCPState /\ eDHCPState = "eWaitingOffer"
    /\ xWaitingPacketsList' = Tail(xWaitingPacketsList)
    /\ LET m == Head(xWaitingPacketsList)
       IN  IF m.kind = "offer"
           THEN /\ ulDHCPServerAddress' = m.server
                /\ xDHCPTxPeriod' = 0
                /\ SendRequest(m.server)
                /\ eDHCPState' = "eWaitingAcknowledge"
           ELSE UNCHANGED <<ulDHCPServerAddress, xDHCPTxPeriod, network, eDHCPState>>
    /\ UNCHANGED <<ulTransactionId, ulIPAddress, sockets, xDHCP_RATimer, bEndPointUp>>

\* The ack must come from the server that was asked.
Acknowledges(m) == m.kind = "ack" /\ m.server = ulDHCPServerAddress

TakeAcknowledge ==
    /\ AtAnswer /\ eExpectedState = eDHCPState /\ eDHCPState = "eWaitingAcknowledge"
    /\ LET m == Head(xWaitingPacketsList)
           rest == Tail(xWaitingPacketsList)
       IN  IF Acknowledges(m)
           THEN /\ ulIPAddress' = "leased"
                /\ eDHCPState' = "eLeasedAddress"
                /\ bEndPointUp' = TRUE
                /\ xDHCP_RATimer' = "running"
                /\ CloseSocket(rest)
                /\ LosesRest
           ELSE /\ eDHCPState' = IF m.kind = "nak" THEN "eInitialWait" ELSE eDHCPState
                /\ xWaitingPacketsList' = rest
                /\ UNCHANGED <<ulIPAddress, bEndPointUp, xDHCP_RATimer, sockets, network>>
    /\ UNCHANGED <<ulTransactionId, xDHCPTxPeriod, ulDHCPServerAddress>>

\* After the loop, unless a packet was for the end point:
\* vDHCPProcessEndPoint( xReset, pdFALSE )
AfterPackets ==
    /\ pc = "dhcp" /\ (~xDHCPSocket \/ xWaitingPacketsList = <<>>)
    /\ pc' = "pending"
    /\ xReset' = FALSE /\ xDoProcess' = FALSE
    /\ UNCHANGED <<xReceivedEvent, xNetworkEventQueue, interfaces, eExpectedState, ethEvents>>

AtTurn(state) ==
    /\ AfterPackets /\ xDoProcess
    /\ eDHCPState = state
    /\ eDHCPState = eExpectedState \/ xReset

\* Nothing to do: a packet was dealt with, or the event was for another state.
NoTurn ==
    /\ AfterPackets /\ ~(xDoProcess /\ (eDHCPState = eExpectedState \/ xReset))
    /\ UNCHANGED <<client, eDHCPState, xWaitingPacketsList, network>>

\* In these states the client acts on its event alone, with a packet or without:
\* one that waits stays on the socket.
At(state) ==
    /\ AtTurn(state) \/ (AtAnswer /\ eDHCPState = eExpectedState)
    /\ eDHCPState = state

\* prvInitialiseDHCP
InitialWait ==
    /\ At("eInitialWait")
    /\ ulTransactionId' = ulTransactionId + 1
    /\ ulDHCPServerAddress' = None
    /\ xDHCPTxPeriod' = 0
    /\ CreateSocket
    /\ xDHCP_RATimer' = "running"
    /\ eDHCPState' = "eWaitingSendFirstDiscover"
    /\ UNCHANGED <<ulIPAddress, bEndPointUp, xWaitingPacketsList, network>>

SendFirstDiscover ==
    /\ At("eWaitingSendFirstDiscover")
    /\ ulIPAddress' = "zero"
    /\ SendDiscover(ulTransactionId)
    /\ eDHCPState' = "eWaitingOffer"
    /\ UNCHANGED <<ulTransactionId, xDHCPTxPeriod, ulDHCPServerAddress, sockets,
                   xDHCP_RATimer, bEndPointUp, xWaitingPacketsList>>

\* No answer yet, and xDHCPTxPeriod is not over.
KeepWaiting ==
    /\ AtTurn("eWaitingOffer") \/ AtTurn("eWaitingAcknowledge")
    /\ UNCHANGED <<client, eDHCPState, xWaitingPacketsList, network>>

MayRepeat == xDHCPTxPeriod < MaxDoublings

OfferTimeout ==
    /\ AtTurn("eWaitingOffer")
    /\ xDHCPTxPeriod' = xDHCPTxPeriod + 1
    /\ IF MayRepeat
       THEN /\ ulTransactionId' = ulTransactionId + 1
            /\ SendDiscover(ulTransactionId')
            /\ UNCHANGED <<eDHCPState, ulIPAddress, xDHCP_RATimer, bEndPointUp, sockets,
                           xWaitingPacketsList>>
       ELSE GiveUp /\ LosesRest /\ UNCHANGED ulTransactionId
    /\ UNCHANGED ulDHCPServerAddress

AcknowledgeTimeout ==
    /\ AtTurn("eWaitingAcknowledge")
    /\ xDHCPTxPeriod' = xDHCPTxPeriod + 1
    /\ IF MayRepeat
       THEN SendRequest(ulDHCPServerAddress) /\ UNCHANGED eDHCPState
       ELSE eDHCPState' = "eInitialWait" /\ UNCHANGED network
    /\ UNCHANGED <<ulTransactionId, ulDHCPServerAddress, ulIPAddress, sockets, xDHCP_RATimer,
                   bEndPointUp, xWaitingPacketsList>>

\* Half of the lease is over: it is asked for again.
RenewLease ==
    /\ AtTurn("eLeasedAddress")
    /\ xDHCP_RATimer' = "running"
    /\ IF bEndPointUp
       THEN /\ CreateSocket
            /\ xDHCPTxPeriod' = 0
            /\ SendRequest(ulDHCPServerAddress)
            /\ eDHCPState' = "eWaitingAcknowledge"
       ELSE UNCHANGED <<sockets, xDHCPTxPeriod, network, eDHCPState>>
    /\ UNCHANGED <<ulTransactionId, ulDHCPServerAddress, ulIPAddress, bEndPointUp,
                   xWaitingPacketsList>>

\* There is no action for an event in eNotUsingLeasedAddress: GiveUp leaves no socket
\* and no timer that could post one, so TLC's deadlock check would find it.

-----------------------------------------------------------------------------
\* When the loop begins: the IP task has posted one event for each interface.
Init ==
    /\ pc = "pending" /\ xReceivedEvent = NoEvent
    /\ xNetworkEventQueue = <<Down("bridge"), Down("eth"), Down("plc")>>
    /\ bInterfaceUp = {} /\ bInterfaceInitialised = {} /\ bCallDownEvent = {}
    /\ xAllNetworksUp = FALSE
    /\ bEndPointUp = FALSE
    /\ eDHCPState = "eInitialWait" /\ eExpectedState = "eInitialWait"
    /\ ulTransactionId = 0 /\ xDHCPTxPeriod = 0 /\ ulDHCPServerAddress = None
    /\ ulIPAddress = "default"
    /\ xDHCPSocket = FALSE /\ pxEndPointSocket = FALSE /\ xDHCPSocketUserCount = 0
    /\ xWaitingPacketsList = <<>> /\ xDHCP_RATimer = "off"
    /\ xReset = FALSE /\ xDoProcess = FALSE
    /\ wire = {} /\ offers = [s \in Servers |-> MaxOffers] /\ naks = MaxNaks
    /\ ethEvents = MaxEthEvents

Timeout == OfferTimeout \/ AcknowledgeTimeout

IpTask ==
    \/ \E dhcp, retry \in BOOLEAN : BeginTurn(dhcp, retry)
    \/ ProcessRx \/ ProcessDhcp \/ ProcessDown
    \/ \E i \in Interface : ProcessPending(i)
    \/ Remove \/ Ignore \/ TakeOffer \/ TakeAcknowledge
    \/ NoTurn \/ InitialWait \/ SendFirstDiscover \/ KeepWaiting \/ Timeout
    \/ RenewLease

Next ==
    \/ IpTask
    \/ LinkChanges \/ \E m \in wire : Deliver(m)

\* The IP task runs; timers expire; a wait for an answer comes to its end when
\* the client is asked about it again and again, since time goes on.
Fairness ==
    /\ WF_vars(IpTask)
    /\ SF_vars(\E retry \in BOOLEAN : BeginTurn(TRUE, retry))
    /\ SF_vars(\E dhcp \in BOOLEAN : BeginTurn(dhcp, TRUE))
    /\ SF_vars(Timeout)

Spec == Init /\ [][Next]_vars /\ Fairness

-----------------------------------------------------------------------------
(* Properties *)

DHCPState == {"eInitialWait", "eWaitingSendFirstDiscover", "eWaitingOffer",
              "eWaitingAcknowledge", "eLeasedAddress", "eNotUsingLeasedAddress"}
Event == ({"down"} \X Interface) \cup ({"rx"} \X Answer) \cup {Dhcp}

\* The types of the variables (FreeRTOS_IP.c, FreeRTOS_DHCP.h).
TypeOK ==
    /\ pc \in {"pending", "process", "dhcp"}
    /\ xReceivedEvent \in Event \cup {NoEvent}
    /\ xNetworkEventQueue \in Seq(Event)
    /\ bInterfaceUp \subseteq Interface /\ bInterfaceInitialised \subseteq Interface
    /\ bCallDownEvent \subseteq Interface
    /\ xAllNetworksUp \in BOOLEAN /\ bEndPointUp \in BOOLEAN
    /\ eDHCPState \in DHCPState /\ eExpectedState \in DHCPState
    /\ ulTransactionId \in Nat /\ xDHCPTxPeriod \in Nat
    /\ ulDHCPServerAddress \in Servers \cup {None}
    /\ ulIPAddress \in {"zero", "default", "leased"}
    /\ xDHCPSocket \in BOOLEAN /\ pxEndPointSocket \in BOOLEAN
    /\ xDHCPSocketUserCount \in Nat
    /\ xWaitingPacketsList \in Seq(Answer)
    /\ xDHCP_RATimer \in {"off", "running"}
    /\ xReset \in BOOLEAN /\ xDoProcess \in BOOLEAN
    /\ wire \subseteq Answer
    /\ offers \in [Servers -> Nat] /\ naks \in Nat /\ ethEvents \in Nat

\* The DHCP client starts over (vDHCPProcess( pdTRUE )) only before it has asked a
\* server anything: a restart that met an answer on the socket would take it for
\* one in another state and loop over it for ever.  Nothing in vDHCPProcess
\* guards against that.  It holds because only an interface that is not up gets
\* another down event, although several of them may wait for the bridge's
\* interface when it comes up.
RestartMeetsNoAnswer ==
    pc = "dhcp" /\ xReset =>
        /\ eDHCPState = "eInitialWait"
        /\ xWaitingPacketsList = <<>> /\ wire = {}
        /\ \A k \in DOMAIN xNetworkEventQueue : xNetworkEventQueue[k][1] # "rx"

AtRest == eDHCPState \in {"eLeasedAddress", "eNotUsingLeasedAddress"}
Waiting == eDHCPState \in {"eWaitingSendFirstDiscover", "eWaitingOffer", "eWaitingAcknowledge"}

\* "Close socket to ensure packets don't queue on it" (FreeRTOS_DHCP.c:640): a
\* client at rest is up, has no socket and keeps no packet, whichever way it came
\* there and however often it started over; and one that waits has a socket
\* with itself as the only user, and a timer that calls it again.
SocketFollowsState ==
    /\ AtRest => /\ bEndPointUp /\ ulIPAddress # "zero"
                 /\ ~xDHCPSocket /\ xDHCPSocketUserCount = 0 /\ xWaitingPacketsList = <<>>
    /\ Waiting => xDHCPSocket /\ xDHCPSocketUserCount = 1 /\ xDHCP_RATimer = "running"

\* The client is at an answer it ignores, and goes on peeking it: the loop of
\* vDHCPProcess does not end any more, and neither does this turn of the IP task.
Spinning ==
    /\ pc = "dhcp" /\ xDHCPSocket /\ xWaitingPacketsList # <<>>
    /\ Ours(Head(xWaitingPacketsList)) /\ eDHCPState # eExpectedState

\* The device gets on the network, and after every renewal, refusal and silence
\* it comes back there with a leased or the default address, whichever of its
\* events and answers are lost, late or for an earlier transaction; unless the
\* client meets a second answer to the same transaction (Spinning).
BackOnNetwork == []<>(AtRest \/ Spinning)
=============================================================================
