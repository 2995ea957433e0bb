------------------------------- MODULE WebServer -------------------------------
(***************************************************************************)
(* The web server: the listening TCP socket and its children, the server's *)
(* task (FreeRTOS_TCP_server.c, FreeRTOS_HTTP_server.c), and the browsers  *)
(* it talks to.                                                            *)
(*                                                                         *)
(* The IP task handles one segment, one timer or one event at a time and   *)
(* may do so between any two steps of the server, which runs below it.  A  *)
(* segment that is lost just does not arrive; its sender repeats it.  Data *)
(* is counted in units of what prvSendFile sends at once; the head of a    *)
(* reply, with the answer to a query, is one.  A peer asks for one thing   *)
(* at a time, by GET, as browsers do.  A name of a peer is used again for  *)
(* another connection once nothing is left of the last one.                *)
(***************************************************************************)
EXTENDS Naturals, Sequences, FiniteSets

CONSTANTS
    Peers,          \* connections that can be there at the same time
    Browsers,       \* those that send requests
    None,           \* NULL
    Backlog,        \* usBacklog
    FileUnits,      \* the length of a file
    TxUnits,        \* the size of txStream
    MaxLost         \* bound: close events that meet a full queue

ASSUME WebAssumption ==
    /\ IsFiniteSet(Peers) /\ Browsers \subseteq Peers /\ None \notin Peers
    /\ Backlog \in Nat /\ MaxLost \in Nat
    /\ FileUnits \in Nat \ {0} /\ TxUnits \in Nat \ {0}

VARIABLES
    pxPeerSocket, usChildCount,     \* of the listening socket
    ucTCPState,                     \* of each child, "none" when there is no child
    bPassQueued, bPassAccept,       \* the children with this bit set
    rxStream, txStream,             \* what waits in them
    xNetworkEventQueue,             \* the events about these sockets
    server,                         \* where the server's task is, and with which client
    pxClients,                      \* the clients of the server
    todo,                           \* those it has not looked at in this cycle
    uxBytesLeft,                    \* of each client: what is left of its file
    peer,                           \* of each connection: how its other end sees it, from the SYN on
    due,                            \* what that end still waits for
    lost                            \* sockets whose close event met a full queue

listener == <<pxPeerSocket, usChildCount>>
children == <<ucTCPState, bPassQueued, bPassAccept>>
streams == <<rxStream, txStream>>
task == <<server, pxClients, todo, uxBytesLeft>>
peers == <<peer, due>>
vars == <<listener, children, streams, xNetworkEventQueue, task, peers, lost>>

Child(c) == ucTCPState[c] # "none"
Children == {c \in Peers : Child(c)}

\* prvTCPSocketIsActive, for the states a child can be in.
Active(c) == ucTCPState[c] \in {"eSYN_RECEIVED", "eESTABLISHED", "eLAST_ACK"}
Closed(c) == ucTCPState[c] \in {"eCLOSE_WAIT", "eCLOSED"}

Accept == <<"accept", None>>
Close(c) == <<"close", c>>
Post(e) == xNetworkEventQueue' = Append(xNetworkEventQueue, e)

\* FreeRTOS_closesocket does not wait for room in the queue, and nobody looks
\* at its result.
CloseSocket(c) ==
    \/ Post(Close(c)) /\ UNCHANGED lost
    \/ /\ Cardinality(lost) < MaxLost
       /\ lost' = lost \cup {c}
       /\ UNCHANGED xNetworkEventQueue

Becomes(c, state) == ucTCPState' = [ucTCPState EXCEPT ![c] = state]
PeerBecomes(c, state) ==
    /\ peer' = [peer EXCEPT ![c] = state]
    /\ due' = IF state = "open" THEN due ELSE [due EXCEPT ![c] = 0]

-----------------------------------------------------------------------------
(* The IP task: segments of the peers *)

\* A SYN: prvHandleListen, prvTCPSocketCopy and eSYN_FIRST make a child that nobody
\* owns before it is connected, and a full listener refuses.  When the SYN+ACK is
\* lost, the SYN comes again and is answered again, and the child is as before.
SynArrives(c) ==
    /\ peer[c] # "closing" /\ ~Child(c)
    /\ IF usChildCount >= Backlog
       THEN PeerBecomes(c, "gone") /\ UNCHANGED <<usChildCount, ucTCPState, bPassQueued>>
       ELSE /\ usChildCount' = usChildCount + 1
            /\ Becomes(c, "eSYN_RECEIVED")
            /\ bPassQueued' = bPassQueued \cup {c}
            /\ PeerBecomes(c, "open")
    /\ UNCHANGED <<pxPeerSocket, bPassAccept, streams, xNetworkEventQueue, task, lost>>

\* vTCPStateChange to eESTABLISHED: the parent offers the child, unless it has
\* another one to offer.
Connected(c) ==
    /\ Becomes(c, "eESTABLISHED")
    /\ bPassQueued' = bPassQueued \ {c}
    /\ bPassAccept' = bPassAccept \cup {c}
    /\ pxPeerSocket' = IF pxPeerSocket = None THEN c ELSE pxPeerSocket

\* The ACK of the SYN+ACK.
HandshakeEnds(c) ==
    /\ peer[c] = "open" /\ ucTCPState[c] = "eSYN_RECEIVED"
    /\ Connected(c)
    /\ UNCHANGED <<usChildCount, streams, xNetworkEventQueue, task, peers, lost>>

\* A request, which also acknowledges the SYN+ACK.
RequestArrives(c) ==
    /\ c \in Browsers /\ peer[c] = "open" /\ due[c] = 0
    /\ \/ ucTCPState[c] = "eSYN_RECEIVED" /\ Connected(c)
       \/ ucTCPState[c] = "eESTABLISHED" /\ UNCHANGED <<children, pxPeerSocket>>
    /\ \E kind \in {"file", "short"} :
        /\ rxStream' = [rxStream EXCEPT ![c] = kind]
        /\ due' = [due EXCEPT ![c] = IF kind = "file" THEN FileUnits + 1 ELSE 1]
    /\ UNCHANGED <<usChildCount, txStream, xNetworkEventQueue, task, peer, lost>>

\* An acknowledgement of data.
AckArrives(c) ==
    /\ peer[c] \in {"open", "closing"} /\ ucTCPState[c] = "eESTABLISHED"
    /\ \E n \in 1 .. txStream[c] :
        /\ txStream' = [txStream EXCEPT ![c] = @ - n]
        /\ due' = [due EXCEPT ![c] = IF peer[c] = "open" THEN @ - n ELSE 0]
    /\ UNCHANGED <<listener, children, rxStream, xNetworkEventQueue, task, peer, lost>>

\* A FIN before the SYN+ACK was acknowledged is an error (prvHandleSynReceived).
\* Otherwise it is taken as soon as nothing is left to send.
FinArrives(c) ==
    /\ peer[c] = "closing"
    /\ \/ ucTCPState[c] = "eSYN_RECEIVED" /\ Becomes(c, "eCLOSE_WAIT") /\ PeerBecomes(c, "gone")
       \/ /\ ucTCPState[c] = "eESTABLISHED" /\ txStream[c] = 0
          /\ Becomes(c, "eLAST_ACK") /\ UNCHANGED peers
    /\ UNCHANGED <<listener, bPassQueued, bPassAccept, streams, xNetworkEventQueue, task, lost>>

\* The ACK of our FIN.
LastAckArrives(c) ==
    /\ peer[c] = "closing" /\ ucTCPState[c] = "eLAST_ACK"
    /\ Becomes(c, "eCLOSE_WAIT")
    /\ PeerBecomes(c, "gone")
    /\ UNCHANGED <<listener, bPassQueued, bPassAccept, streams, xNetworkEventQueue, task, lost>>

\* vTCPStateChange to eCLOSED: a child that is not connected yet has no owner and
\* is closed here.
RstArrives(c) ==
    /\ peer[c] = "gone" /\ Active(c)
    /\ PeerBecomes(c, "gone")
    /\ Becomes(c, "eCLOSED")
    /\ IF ucTCPState[c] = "eSYN_RECEIVED"
       THEN CloseSocket(c)
       ELSE UNCHANGED <<xNetworkEventQueue, lost>>
    /\ UNCHANGED <<listener, bPassQueued, bPassAccept, streams, task>>

\* What an inactive socket, or the listener, answers with a RST.
Refused(c) ==
    /\ peer[c] \in {"open", "closing"} /\ ~Active(c)
    /\ PeerBecomes(c, "gone")
    /\ UNCHANGED <<listener, children, streams, xNetworkEventQueue, task, lost>>

-----------------------------------------------------------------------------
(* The IP task: timers and events *)

\* vSocketClose and prvTCPSetSocketCount.
SocketClose(c) ==
    /\ Becomes(c, "none")
    /\ bPassQueued' = bPassQueued \ {c}
    /\ rxStream' = [rxStream EXCEPT ![c] = None]
    /\ txStream' = [txStream EXCEPT ![c] = 0]
    /\ usChildCount' = IF usChildCount # 0 THEN usChildCount - 1 ELSE 0

\* prvTCPStatusAgeCheck: a child that nobody owns is deleted.
AgeCheck(c) ==
    /\ ucTCPState[c] \in {"eSYN_RECEIVED", "eLAST_ACK"}
    /\ IF c \in bPassQueued
       THEN SocketClose(c)
       ELSE Becomes(c, "eCLOSE_WAIT") /\ UNCHANGED <<usChildCount, bPassQueued, streams>>
    /\ UNCHANGED <<pxPeerSocket, bPassAccept, xNetworkEventQueue, task, peers, lost>>

\* xTCPCheckNewClient: the first child in the list that waits for an accept.
CheckNewClient ==
    IF bPassAccept = {} THEN UNCHANGED pxPeerSocket ELSE pxPeerSocket' \in bPassAccept

TakeEvent ==
    /\ xNetworkEventQueue # <<>>
    /\ xNetworkEventQueue' = Tail(xNetworkEventQueue)
    /\ LET e == Head(xNetworkEventQueue)
       IN  \/ e = Accept /\ CheckNewClient /\ UNCHANGED <<usChildCount, ucTCPState, bPassQueued, streams>>
           \/ e # Accept /\ SocketClose(e[2]) /\ UNCHANGED pxPeerSocket
    /\ UNCHANGED <<bPassAccept, task, peers, lost>>

-----------------------------------------------------------------------------
(* The server's task *)

At(step) == server.step = step
Goes(step) == server' = [server EXCEPT !.step = step]
Idle(step) == [step |-> step, client |-> None, new |-> FALSE]
Turns(step) == server' = Idle(step)

\* vSocketSelect.  A child is in the set from its creation, and until its client
\* is deleted; one that was not accepted yet can only raise an exception.
Selected(c) ==
    \/ Closed(c) /\ c \in bPassQueued \cup bPassAccept \cup pxClients
    \/ c \in pxClients /\ rxStream[c] # None
    \/ c \in pxClients /\ uxBytesLeft[c] > 0 /\ txStream[c] < TxUnits
Ready == (pxPeerSocket # None /\ pxPeerSocket \in bPassAccept) \/ \E c \in Peers : Selected(c)

\* FreeRTOS_select ends with something to do, or after 200 ms without.
Select ==
    /\ At("select") /\ todo = {}
    /\ IF Ready THEN Turns("accept") /\ UNCHANGED todo
                ELSE todo' = pxClients /\ UNCHANGED server
    /\ UNCHANGED <<listener, children, streams, xNetworkEventQueue, pxClients, uxBytesLeft,
                   peers, lost>>

\* FreeRTOS_accept, with the scheduler suspended.
TakeClient ==
    /\ At("accept")
    /\ pxPeerSocket' = None
    /\ IF pxPeerSocket # None /\ pxPeerSocket \in bPassAccept
       THEN /\ bPassAccept' = bPassAccept \ {pxPeerSocket}
            /\ server' = [step |-> "ask", client |-> pxPeerSocket, new |-> FALSE]
            /\ UNCHANGED todo
       ELSE Turns("select") /\ todo' = pxClients /\ UNCHANGED bPassAccept
    /\ UNCHANGED <<usChildCount, ucTCPState, bPassQueued, streams, xNetworkEventQueue,
                   pxClients, uxBytesLeft, peers, lost>>

\* The rest of it, and prvReceiveNewClient: the IP task shall look for the next
\* one, and the server has a new client.  Mutant: nobody asks.
MutAskForNext == UNCHANGED xNetworkEventQueue
AskForNext == Post(Accept)
ReceiveNewClient ==
    /\ At("ask")
    /\ AskForNext
    /\ pxClients' = pxClients \cup {server.client}
    /\ todo' = pxClients'
    /\ Turns("select")
    /\ UNCHANGED <<listener, children, streams, uxBytesLeft, peers, lost>>

\* FreeRTOS_TCPServerWork: each client has its turn.  xHTTPClientWork goes on
\* with its file, and then looks for a request.
Turn ==
    /\ At("select") /\ todo # {}
    /\ \E c \in todo :
        /\ todo' = todo \ {c}
        /\ server' = [step |-> IF uxBytesLeft[c] > 0 THEN "file" ELSE "recv",
                      client |-> c, new |-> FALSE]
    /\ UNCHANGED <<listener, children, streams, xNetworkEventQueue, pxClients, uxBytesLeft,
                   peers, lost>>

\* FreeRTOS_send of one unit.  A connection with a FIN under way takes the data
\* and drops it.
Full(c) == txStream[c] >= TxUnits
SendFails(c) == Closed(c) \/ (ucTCPState[c] = "eESTABLISHED" /\ Full(c))
Send(c) ==
    txStream' = IF ucTCPState[c] = "eESTABLISHED" /\ ~Full(c)
                THEN [txStream EXCEPT ![c] = @ + 1] ELSE txStream

\* FreeRTOS_recv.  Mutant: nothing to read is no error, whatever the state.
MutReceive ==
    /\ At("recv")
    /\ LET c == server.client
       IN  \/ /\ rxStream[c] # None
              /\ Goes("head")
              /\ rxStream' = [rxStream EXCEPT ![c] = None]
              /\ uxBytesLeft' = [uxBytesLeft EXCEPT ![c] = IF rxStream[c] = "file"
                                                           THEN FileUnits ELSE 0]
           \/ /\ rxStream[c] = None
              /\ Turns("select")
              /\ UNCHANGED <<rxStream, uxBytesLeft>>
    /\ UNCHANGED <<listener, children, txStream, xNetworkEventQueue, pxClients, todo, peers, lost>>
Receive ==
    /\ At("recv")
    /\ LET c == server.client
       IN  \/ /\ rxStream[c] # None
              /\ Goes("head")
              /\ rxStream' = [rxStream EXCEPT ![c] = None]
              /\ uxBytesLeft' = [uxBytesLeft EXCEPT ![c] = IF rxStream[c] = "file"
                                                           THEN FileUnits ELSE 0]
           \/ /\ rxStream[c] = None
              /\ IF Closed(c) THEN Goes("delete") ELSE Turns("select")
              /\ UNCHANGED <<rxStream, uxBytesLeft>>
    /\ UNCHANGED <<listener, children, txStream, xNetworkEventQueue, pxClients, todo, peers, lost>>

\* prvSendReply, and the answer to a query.
SendReply ==
    /\ At("head")
    /\ LET c == server.client
       IN  /\ Send(c)
           /\ IF SendFails(c) THEN Goes("delete")
              ELSE IF uxBytesLeft[c] > 0
                   THEN server' = [step |-> "file", client |-> c, new |-> TRUE]
                   ELSE Turns("select")
    /\ UNCHANGED <<listener, children, rxStream, xNetworkEventQueue, pxClients, todo,
                   uxBytesLeft, peers, lost>>

\* The loop of prvSendFile.  An error counts only in the call that follows a
\* request.  Mutant: what does not fit any more is left out.
MutSendFile ==
    /\ At("file")
    /\ LET c == server.client
       IN  IF uxBytesLeft[c] = 0
           THEN /\ IF server.new THEN Turns("select") ELSE Goes("recv")
                /\ UNCHANGED <<txStream, uxBytesLeft>>
           ELSE /\ uxBytesLeft' = [uxBytesLeft EXCEPT ![c] = @ - 1]
                /\ Send(c)
                /\ IF Closed(c) THEN Goes(IF server.new THEN "delete" ELSE "recv")
                                ELSE UNCHANGED server
    /\ UNCHANGED <<listener, children, rxStream, xNetworkEventQueue, pxClients, todo, peers, lost>>
SendFile ==
    /\ At("file")
    /\ LET c == server.client
       IN  IF uxBytesLeft[c] = 0 \/ Full(c)
           THEN /\ IF server.new THEN Turns("select") ELSE Goes("recv")
                /\ UNCHANGED <<txStream, uxBytesLeft>>
           ELSE /\ uxBytesLeft' = [uxBytesLeft EXCEPT ![c] = @ - 1]
                /\ Send(c)
                /\ IF SendFails(c) THEN Goes(IF server.new THEN "delete" ELSE "recv")
                                   ELSE UNCHANGED server
    /\ UNCHANGED <<listener, children, rxStream, xNetworkEventQueue, pxClients, todo, peers, lost>>

\* The client is unlinked, and vHTTPClientDelete.  Mutant: it stays linked.
MutDelete ==
    /\ At("delete")
    /\ CloseSocket(server.client)
    /\ Turns("select")
    /\ UNCHANGED <<listener, children, streams, pxClients, uxBytesLeft, todo, peers>>
Delete ==
    /\ At("delete")
    /\ LET c == server.client
       IN  /\ CloseSocket(c)
           /\ pxClients' = pxClients \ {c}
           /\ uxBytesLeft' = [uxBytesLeft EXCEPT ![c] = 0]
    /\ Turns("select")
    /\ UNCHANGED <<listener, children, streams, todo, peers>>

Server == Select \/ TakeClient \/ ReceiveNewClient \/ Turn \/ Receive \/ SendReply \/ SendFile
          \/ Delete

\* A peer closes, or breaks off: then it is never heard of again, but for a RST
\* perhaps, or as another connection.
Leaves(c) ==
    /\ \/ peer[c] = "open" /\ PeerBecomes(c, "closing")
       \/ peer[c] # "gone" /\ PeerBecomes(c, "gone")
    /\ UNCHANGED <<listener, children, streams, xNetworkEventQueue, task, lost>>

-----------------------------------------------------------------------------

Init ==
    /\ pxPeerSocket = None /\ usChildCount = 0
    /\ ucTCPState = [c \in Peers |-> "none"]
    /\ bPassQueued = {} /\ bPassAccept = {}
    /\ rxStream = [c \in Peers |-> None] /\ txStream = [c \in Peers |-> 0]
    /\ xNetworkEventQueue = <<>>
    /\ server = Idle("select")
    /\ pxClients = {} /\ todo = {}
    /\ uxBytesLeft = [c \in Peers |-> 0]
    /\ peer = [c \in Peers |-> "gone"] /\ due = [c \in Peers |-> 0]
    /\ lost = {}

\* What a peer that is there does sooner or later, one step at a time.
Answers(c) == AckArrives(c) \/ FinArrives(c) \/ LastAckArrives(c)
              \/ (peer[c] = "closing" /\ Refused(c))

Segment(c) == SynArrives(c) \/ HandshakeEnds(c) \/ RequestArrives(c) \/ AckArrives(c)
              \/ FinArrives(c) \/ LastAckArrives(c) \/ RstArrives(c) \/ Refused(c)

Next ==
    \/ \E c \in Peers : Segment(c) \/ AgeCheck(c) \/ Leaves(c)
    \/ TakeEvent
    \/ Server

\* The tasks get on.  A peer that is there acknowledges what it gets and repeats
\* its FIN; one that repeats its SYN leaves longer and longer pauses, so that a
\* hanging child grows old.  Nothing makes a peer connect, ask or close.
Fairness ==
    /\ WF_vars(TakeEvent) /\ WF_vars(Server)
    /\ \A c \in Peers : WF_vars(AgeCheck(c)) /\ WF_vars(Answers(c))

Spec == Init /\ [][Next]_vars /\ Fairness

-----------------------------------------------------------------------------
(* Properties *)

TypeOK ==
    /\ pxPeerSocket \in Peers \cup {None} /\ usChildCount \in Nat
    /\ ucTCPState \in [Peers -> {"none", "eSYN_RECEIVED", "eESTABLISHED", "eLAST_ACK",
                                 "eCLOSE_WAIT", "eCLOSED"}]
    /\ bPassQueued \subseteq Peers /\ bPassAccept \subseteq Peers
    /\ rxStream \in [Peers -> {None, "file", "short"}] /\ txStream \in [Peers -> 0 .. TxUnits]
    /\ xNetworkEventQueue \in Seq({Accept} \cup {Close(c) : c \in Peers})
    /\ server \in [step : {"select", "accept", "ask", "recv", "head", "file", "delete"},
                   client : Peers \cup {None}, new : BOOLEAN]
    /\ pxClients \subseteq Peers /\ todo \subseteq Peers /\ lost \subseteq Peers
    /\ uxBytesLeft \in [Peers -> 0 .. FileUnits]
    /\ peer \in [Peers -> {"gone", "open", "closing"}]
    /\ due \in [Peers -> 0 .. FileUnits + 1]

\* The listener's count is the number of its children, and never above the
\* backlog: whoever ends a child, the IP task by its age, a RST or the server,
\* gives its place back, and once.
SlotsAreCounted == usChildCount = Cardinality(Children) /\ usChildCount <= Backlog

Closing == {i \in DOMAIN xNetworkEventQueue : xNetworkEventQueue[i] # Accept}
Users == pxClients \cup bPassAccept \cup (IF At("ask") THEN {server.client} ELSE {})

\* A socket is freed when nobody can touch it any more: the clients of the server,
\* the child it is just accepting and the one the listener offers are there, and
\* an event that closes a socket is about one that is there, that nobody uses,
\* and is the only such event.
SocketOutlivesItsUsers ==
    /\ Users \subseteq Children
    /\ pxPeerSocket # None => pxPeerSocket \in bPassAccept
    /\ \A i \in Closing :
        /\ xNetworkEventQueue[i][2] \in Children \ (Users \cup lost)
        /\ \A j \in Closing : xNetworkEventQueue[i] = xNetworkEventQueue[j] => i = j

\* Both together: every child is freed once, after its last user, and with its place.
SocketsAreFreedOnce == SlotsAreCounted /\ SocketOutlivesItsUsers

\* No child waits to be accepted without anybody knowing: the listener offers it or
\* another one, and after that one was taken the IP task is asked to look again.
NobodyIsForgotten ==
    bPassAccept # {} => \/ pxPeerSocket # None
                        \/ At("ask")
                        \/ \E i \in DOMAIN xNetworkEventQueue : xNetworkEventQueue[i] = Accept

\* Exceptions to the next property.  A peer that is never heard of again keeps its
\* place while the connection is idle: there are no keep-alive messages.  A child
\* whose first segment after the SYN is wrong (a FIN) goes to eCLOSE_WAIT with
\* bPassQueued set; nobody accepts it, and its age is not checked in that state.
HalfOpen(c) == peer[c] = "gone" /\ ucTCPState[c] = "eESTABLISHED"
Orphan(c) == ucTCPState[c] = "eCLOSE_WAIT" /\ c \in bPassQueued

\* The place of a connection that has ended comes back, however it ended, but for
\* a peer that broke off without a RST, an orphan, and a socket whose
\* close event met a full queue.
SlotComesBack ==
    \A c \in Peers :
        Child(c) ~> (~Child(c) \/ peer[c] = "open" \/ HalfOpen(c) \/ Orphan(c) \/ c \in lost)

\* A request is answered to its last byte, if the peer stays to hear it, also
\* when the answer does not fit into the stream at once.
RequestIsAnswered == \A c \in Browsers : (due[c] > 0) ~> (due[c] = 0)
=============================================================================
